SPECIFICATION FairSpec
CONSTANTS
  Submits <- OneSubmit
  Cancels <- OneCancel
  Inquiries <- OneInquiry
  MaxAttempts = 2
  MaxBusy = 2
  Calls <- AllCalls
  RateLimit = 2
  Second = 2
INVARIANTS
  RateKept
  AnswersAreTruthful
PROPERTIES
  OperationsEnd
CHECK_DEADLOCK FALSE
