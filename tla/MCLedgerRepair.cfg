SPECIFICATION RepairSpec
CONSTANTS
  trend = trend
  factor = factor
  Strategies <- TwoStrategies
  Prices <- LowAndHigh
  MaxUnits = 2
  MaxOrders = 5
  MaxStops = 1
  RepeatedHints = {2}
  NewYear = 3
  MaxManual = 1
  OrgnoInAnswer = {1, 3, 4, 5}
  OrgnoInReport = {1, 2, 3, 4, 5}
SYMMETRY Symmetry
INVARIANTS
  SalesNeverOverbooked
  NoSaleReplayed
CHECK_DEADLOCK FALSE
