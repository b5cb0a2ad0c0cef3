SPECIFICATION Spec
CONSTANTS
  WindowSize = 6
  SafeZone = 1
  FocusBars = 2
  LastBar = 9
  Trades = {1, 4}
  Runs = {r1, r2}
  Reach = 1
  Scenes <- MCScenes
  None = None
INVARIANTS DrawnFromBundle TradeInView
PROPERTIES NoSwapWhileDragging
CHECK_DEADLOCK FALSE
