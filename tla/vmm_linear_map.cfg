CONSTANTS
  PtEntries = 4
  NumPages = 28
  KernelBase = 4
  NumFrames = 16
  LinearFrames = 16
  KernelFrame = 2
  KernelEnd = 6
  HeapFrame = 12
  HeapPages = 6
  InitialHeap = 1
  Ram = {6, 7, 8, 9, 10, 11, 12}
  MaxRegions = 7
  DefaultHint = 22
  Spaces = {}
  MapSpaces = {"kernel"}
  Calls <- GrowingHeap
  Requests <- FewRequests
SPECIFICATION Spec
INVARIANTS LinearMapWorks
CHECK_DEADLOCK FALSE
