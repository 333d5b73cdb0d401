SPECIFICATION Spec
CONSTANTS
  Programs <- AllPrograms
  Modes <- BothModes
  WeakUpdate = FALSE
INVARIANTS ElimKeepsData WithinInsensitive WalkComplete
PROPERTY WalkProgresses
