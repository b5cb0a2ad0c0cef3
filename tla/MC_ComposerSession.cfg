SPECIFICATION Spec
CONSTANTS
  NoId = NoId
  NoDraft = NoDraft
  FileName <- MCPlain
  Loads <- MCLoads
  Blocked <- MCBlocked
  Editable <- MCEditable
  Blank <- MCBlank
  ExperimentIds = {"a", "b"}
  Bodies = {"good", "bad", "broken", "legacy"}
  MaxCalls = 2
  Users <- MCUsers
INVARIANTS PatientIsToldTheTruth WaitsForACall
PROPERTIES SavedComesBack
CHECK_DEADLOCK FALSE
