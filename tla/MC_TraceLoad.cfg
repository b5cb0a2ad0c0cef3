SPECIFICATION Spec
CONSTANTS
  Windows <- Three
  Settings <- MCSettings
  MaxChunks = 2
  MaxBundles = 2
  MaxKeys = 4
  MaxEpoch = 2
  Generations = 5
  Step = 2
  None = None
INVARIANTS
  DisplayIsOfThisEpoch
  CoveredIsDrawn
  NothingLeftInFlight
  QuietMeansLoaded
