SPECIFICATION Spec
CONSTANTS
  buy1 = buy1
  sell1 = sell1
  sell2 = sell2
  buy3 = buy3
  c1 = c1
  c2 = c2
  c3 = c3
  s1 = s1
  s2 = s2
  ta = ta
  Orders <- ThreeOrders
  Cycles <- ThreeCycles
  Strategies <- TwoStrategies
  Tickers <- OneTicker
  StrategyOf <- FirstStrategyTwice
  CycleOf <- OwnCycle
  TickerOf <- SameTicker
  SideOf <- SideByName
  Qty = 1
  MaxCarried = 1
  MaxSubmitRetries = 1
  MaxOrdersPerCycle = 1
  MaxNotionalPerCycle = 4
  OpenOrdersSupported = TRUE
  ResponseMayBeLost = FALSE
  AnswerMayLackNumber = FALSE
  WritesMayFail = FALSE
  MaxCrashes = 0
  None = None
SYMMETRY SellCycles
INVARIANTS
  PositionNeverAheadOfAccount
  StatusIsTruthful
CHECK_DEADLOCK FALSE
