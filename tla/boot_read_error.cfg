CONSTANTS
  MaxRetries = 3
  Machines <- SomeMachines
  Phdrs <- Headers
  EndMark = 7
  StaleEntries = {0, 2, 7}
  LoadRoom = 4
  HighRoom = 6
  Word = 64
  LowLength = 1
  ExtBase = 2
  ExtTop = 8
  Block = 4
SPECIFICATION Spec
INVARIANTS EntersWholeKernel
CHECK_DEADLOCK FALSE
