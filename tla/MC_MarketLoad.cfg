SPECIFICATION LoadSpec
CONSTANTS
  a1 = a1
  a2 = a2
  b1 = b1
  candles = candles
  fast = fast
  slow = slow
  Nothing = Nothing
  End = 8
  RunViews <- TheViews
  Run <- RunOf
  Candles <- CandlesOf
  Overlays <- OverlaysOf
  Report <- ReportOf
  Stored <- StoredOf
  Entries = {1, 4}
  Span = 2
  Margin = 0
  ChunkCap = 2
  Fails = TRUE
  MaxMoves = 2
INVARIANTS
  ReadyIsServed
  QuietMeansReady
PROPERTIES
  NoBlink
  LoadSettles
CHECK_DEADLOCK FALSE
