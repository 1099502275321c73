SPECIFICATION Spec
CONSTANTS
  ta = ta
  tb = tb
  Tickers <- TwoTickers
  Strategies <- TwoStrategies
  CronMinutes <- ConfiguredCrons
  Minutes <- Day
  Open = 540
  Close = 930
  AuctionStart = 920
  PreClose = 925
  NoEntryBefore = 570
  NoEntryAfter = 900
  ForceExitTime = 900
  MaxEntries = 1
  MaxPositions = 1
  MaxOrders = 2
  MaxNotional = 3
  Cash = {1, 2}
  Target <- Targets
  StockCap = 1
  SmallestPosition = 1
  SettledCash = 1
  Scales = {1}
  Prices = {1}
  Answers <- AllAnswers
INVARIANTS
  TypeOK
  SellsAreCovered
  IntradayWithinLimits
SYMMETRY Symmetry
CHECK_DEADLOCK FALSE
