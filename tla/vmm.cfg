CONSTANTS
  PtEntries = 4
  NumPages = 32
  KernelBase = 4
  NumFrames = 16
  LinearFrames = 16
  KernelFrame = 2
  KernelEnd = 6
  HeapFrame = 15
  HeapPages = 3
  InitialHeap = 1
  Ram = {6, 7, 8, 9, 10}
  MaxRegions = 14
  DefaultHint = 22
  Spaces = {s1, s2}
  MapSpaces = {"kernel"}
  Calls <- SomeCalls
  Requests <- SomeRequests
SPECIFICATION Spec
INVARIANTS FrameHasOneUse NoFrameLost RegionsAreMapped RegionsOrdered FoundStartIsFree StaleOnlyMissing 
CHECK_DEADLOCK FALSE
