SPECIFICATION Spec
CONSTANTS
  None = None
  Workers = {w1, w2}
  Commands <- Both
  Launch = 0
  FirstListed = 0
  LastTick = 3
  Limit = 1
  Qualities <- Valid
  Partial = TRUE
  Kills = TRUE
INVARIANTS
  OnlyClosedCandles
  OkStaysComplete
PROPERTIES
  RunsEnd
