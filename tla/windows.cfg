SPECIFICATION Spec
CONSTANTS
  Members <- MCMembers
  CommOf <- MCCommOf
  Programs <- MCPrograms
  Handles <- MCHandles
  MaxWin = 2
  MaxEpoch = 3
  MaxComms = 1
INVARIANTS RightWindow ClearedWhenComplete TerminatedOnlyOverThread
PROPERTY Termination
CHECK_DEADLOCK FALSE
