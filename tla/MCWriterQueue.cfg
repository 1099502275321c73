SPECIFICATION FairSpec
CONSTANTS
  t1 = t1
  t2 = t2
  t3 = t3
  Tasks <- MCTasks
  MaxRetries = 2
  MaxStarts = 2
  Poison = Poison
  NoTask = NoTask
INVARIANTS
  TypeOK
  SingleWriter
  PendingIsHeldOnce
  OutcomeIsTruthful
PROPERTIES
  ImplementsSerialWriter
  StopDrains
CHECK_DEADLOCK FALSE
