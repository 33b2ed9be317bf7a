CONSTANTS
  Stub <- StubAddresses
  BiosMasks <- SomeMasks
  Lines = {0, 1, 6, 8, 14}
  Exceptions = {0, 8, 13, 14, 30}
  ErrorCodes = {0, 2}
SPECIFICATION Spec
INVARIANTS FrameFaithful NothingLost LinesReleased
PROPERTIES Transparent
CHECK_DEADLOCK FALSE
