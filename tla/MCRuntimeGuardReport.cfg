SPECIFICATION FairSpec
CONSTANTS
  Cycles <- NoCycle
  OtherJobs <- PollHealthCancel
  BlockAfterFailures = 3
  TokenStaleAfter = 2
  PollStaleAfter = 1
  MaxTime = 0
  MaxTokenJobs = 1
  MaxFailures = 1
  MaxAlerts = 1
INVARIANTS
  TypeOK
PROPERTIES
  DegradedIsReported
CHECK_DEADLOCK FALSE
