CONSTANTS
  Threads = {"A", "B"}
  Calls <- SomeCalls
  Word = 64
  DecRoom = 2
  HexRoom = 2
  FifoDepth = 2
SPECIFICATION FairSpec
INVARIANTS  NoOverrun
PROPERTIES PrintReturns
CHECK_DEADLOCK FALSE
