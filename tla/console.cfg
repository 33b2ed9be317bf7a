CONSTANTS
  Width = 2
  Height = 4
  MaxCmd = 4
  Letters = {"a"}
  Editing = {"newline", "backspace"}
  ClearCmd <- OneLetter
  TextCmd <- TwoLetters
  Threads = {"A", "B"}
  Users <- KeysAndThreads
SPECIFICATION Spec
INVARIANTS EchoMatchesLine CursorShown OnScreenUndisturbed
CONSTRAINT Undisturbed
