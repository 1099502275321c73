SPECIFICATION Spec
CONSTANTS
  Cycles <- OneCycle
  OtherJobs <- TokenAndPoll
  BlockAfterFailures = 3
  TokenStaleAfter = 1
  PollStaleAfter = 0
  MaxTime = 1
  MaxTokenJobs = 1
  MaxFailures = 0
  MaxAlerts = 0
INVARIANTS
  CycleNeedsFreshPoll
  NoCycleRunsDegraded
CHECK_DEADLOCK FALSE
