SPECIFICATION FairSpec
CONSTANTS
  N = 4
  Drain <- MCDrain
INVARIANTS
  TypeOK
  AnsweredInOrder
  InTheClientsTransport
PROPERTIES
  EveryRequestIsAnswered
  EndOfInputEnds
  ImplementsService
CHECK_DEADLOCK FALSE
