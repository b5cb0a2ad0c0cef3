SPECIFICATION FairSpec
CONSTANTS
  MaxRuns = 2
  Stored = 1
  Reports <- MCReports
  Fails = {"list", "report"}
INVARIANTS ReportIsSelected SelectionIsOfReport
PROPERTIES LoadingEnds
CHECK_DEADLOCK FALSE
