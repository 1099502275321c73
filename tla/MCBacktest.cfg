SPECIFICATION Spec
CONSTANTS
  Universe <- TwoTickers
  Prices = {1, 2}
  Scores = {1, 2}
  Start = 1
  End = 3
  RebalanceDays = {1, 2, 3}
  SnapshotDates = {0, 2}
  Lookback = 2
  TopN = 1
INVARIANTS
  NoLookAhead
  EveryEntryIsRealized
  OnlyLeadersAreHeld
CHECK_DEADLOCK FALSE
