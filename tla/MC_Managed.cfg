SPECIFICATION Spec
CONSTANTS
  None = None
  NumBars = 4
  Prices <- MCPrices
  TradeSides <- Sides
  Profiles <- OneProfile
  AtrValues <- MCAtr
  StopDistances <- MCInitial
  TakeDistances <- MCTake
  PhaseRules <- MCPhaseRules
  StopRules <- StopLadder
  TakeRules <- TakeSwitches
  RuntimeRules <- RuntimeExits
  Signals <- OneSignal
  SignalGroup <- AlignedGroup
INVARIANTS
  TypeOK
PROPERTIES
  StopNeverLoosens
  StopTouchedCloses
  ManagedStopProtects
  ArmedExitsClose
  TakeProfitFollowsRules
  ImplementsLedger
