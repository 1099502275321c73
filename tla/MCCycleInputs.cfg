SPECIFICATION InputsSpec
CONSTANTS
  c1 = c1
  c2 = c2
  t1 = t1
  Cycles <- TwoCycles
  Loading <- OneCycle
  Tickers <- OneTicker
  MaxTokens = 2
  Ticks = 2
  LastTick = 6
  LastOverlap = 0
  OpeningMinutes = 2
  NoEntryBefore = 2
  NoEntryAfter = 3
  ForceExitTime = 3
  TrendLookback = 2
  ContextLookback = 1
INVARIANTS
  TokenDoesNotOutliveCycles
  CycleUsesOneToken
  DecisionsOnTodaysBars
  OneHistoryPerCycle
  ForcedExitsAreSignalled
CHECK_DEADLOCK FALSE
