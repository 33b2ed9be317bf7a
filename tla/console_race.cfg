CONSTANTS
  Width = 3
  Height = 3
  MaxCmd = 4
  Letters = {"a"}
  Editing = {}
  ClearCmd <- OneLetter
  TextCmd <- TwoLetters
  Threads = {"A"}
  Users <- BothUsers
SPECIFICATION Spec
INVARIANTS OnScreen
