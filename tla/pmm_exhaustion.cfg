CONSTANTS
  PageSize = 2
  Word = 64
  MaxFrames = 22
  ByteBits = 4
  LowMemory = 4
  KernelEnd = 6
  MemMaps <- PlainMaps
SPECIFICATION Spec
INVARIANTS NullMeansOutOfMemory
