SPECIFICATION FairSpec
CONSTANTS
  Callers = {c1, c2}
  NoThread = NoThread
  EvalLimit = 4
  MaxCalls = 4
INVARIANTS TypeOK WaitingIsAnnounced NoLostWakeup AtMostOnce OwnAnswerUntilFailure
PROPERTIES
  ImplementsRemoteCall
  HolderReturns
  StopEnds
