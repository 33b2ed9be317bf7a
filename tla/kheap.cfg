CONSTANTS
  HeaderSize = 3
  AlignTo = 2
  MinRest = 4
  PageSize = 16
  InitialSize = 32
  MaxSize = 64
  Word = 512
  HeapStart = 384
  FrameCounts = {1, 3, 4}
  Requests = {6, 15, 22, 100}
  CallocRequests <- SomeProducts
  AlignedRequests = {8, 12}
  FreesAligned = TRUE
SPECIFICATION FairSpec
INVARIANTS HeapTiled ClientsDisjoint FullyMerged OnlyMovedLeaks
PROPERTIES CallsReturn
CHECK_DEADLOCK FALSE
