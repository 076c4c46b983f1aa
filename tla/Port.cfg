SPECIFICATION Spec
CONSTANTS
  Targets = {"Linux", "Win32"}
  Number = {0, 1}
  Guarded = {"init", "shutdown"}
  MaxInits = 3
  MaxInput = 2
CHECK_DEADLOCK FALSE
INVARIANTS OnlyThePort NoStaleInput
