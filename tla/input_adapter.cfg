CONSTANT MaxRequests = 3
SPECIFICATION FairSpec
CHECK_DEADLOCK FALSE
INVARIANTS
  RepliesHaveHolders
  HandlerIsCalled
PROPERTIES
  ImplementsExchange
  DestructionEnds
  AnswerReachesWaiter
