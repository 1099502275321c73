SPECIFICATION FairSpec
CONSTANTS
  buy1 = buy1
  sell1 = sell1
  sell2 = sell2
  buy3 = buy3
  c1 = c1
  c2 = c2
  c3 = c3
  s1 = s1
  s2 = s2
  ta = ta
  Orders <- OneCycleOrders
  Cycles <- OneCycle
  Strategies <- TwoStrategies
  Tickers <- OneTicker
  StrategyOf <- FirstStrategyTwice
  CycleOf <- OnlyCycle
  TickerOf <- SameTicker
  SideOf <- SideByName
  Qty = 2
  MaxCarried = 1
  MaxSubmitRetries = 2
  MaxOrdersPerCycle = 1
  MaxNotionalPerCycle = 4
  OpenOrdersSupported = FALSE
  ResponseMayBeLost = TRUE
  AnswerMayLackNumber = TRUE
  WritesMayFail = TRUE
  MaxCrashes = 1
  None = None
INVARIANTS
  TypeOK
  LedgerNeverAheadOfBroker
  StatusIsTruthful
PROPERTIES
  LedgerCatchesUpOrBlocks
  ValidatedIsOwned
CHECK_DEADLOCK FALSE
