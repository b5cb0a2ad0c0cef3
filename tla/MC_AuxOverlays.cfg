SPECIFICATION AuxSpec
CONSTANTS
  Variants <- Two
  Contexts <- MCContexts
  Consumed <- MCConsumed
  ExitLines = {"b"}
  Bars <- MCBars
  Windows <- MCWindows
  MayFail = {"trace", "bff"}
  None = None
INVARIANTS
  NoLineIsLeftOver CachedHtfIsDrawn
CHECK_DEADLOCK FALSE
