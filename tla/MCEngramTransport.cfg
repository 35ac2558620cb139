SPECIFICATION FairSpec
CONSTANTS
  MaxCalls = 3
  InCap = 2
  OutCap = 4
CHECK_DEADLOCK FALSE
INVARIANTS AnswerIsOurs HandshakeFirst
PROPERTIES WaitEnds ImplementsRemoteCall
