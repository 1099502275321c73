SPECIFICATION RepairSpec
CONSTANTS
  trend = trend
  factor = factor
  Strategies <- OneStrategy
  Prices <- LowAndHigh
  MaxUnits = 2
  MaxOrders = 4
  MaxStops = 0
  RepeatedHints = {}
  NewYear = 3
  MaxManual = 0
  OrgnoInAnswer = {1, 2, 3, 4}
  OrgnoInReport = {1, 2, 3, 4}
INVARIANTS
  SecondYearMatchesLedger
CHECK_DEADLOCK FALSE
