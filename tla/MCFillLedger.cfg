SPECIFICATION RepairSpec
CONSTANTS
  trend = trend
  factor = factor
  Strategies <- TwoStrategies
  Prices <- LowAndHigh
  MaxUnits = 3
  MaxOrders = 4
  MaxStops = 1
  RepeatedHints = {2}
  NewYear = 3
  MaxManual = 0
  OrgnoInAnswer = {1, 2, 3, 4}
  OrgnoInReport = {1, 2, 3, 4}
SYMMETRY Symmetry
INVARIANTS
  TypeOK
  LotsExplainPosition
  OldestLotFirst
  FilledMatchesBroker
  ExecutionsExplainLots
  HighestCoversLots
  ReportMatchesLedger
CHECK_DEADLOCK FALSE
