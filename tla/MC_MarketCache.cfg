SPECIFICATION CacheSpec
CONSTANTS
  Horizon = 7
  SeriesCap = 3
  Values = {old, new}
INVARIANTS
  WalksAgreeWithBars
  CoveredIsServed
PROPERTIES
  ImplementsStore

