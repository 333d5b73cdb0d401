SPECIFICATION Spec
CONSTANTS
  Programs <- AllPrograms
  Modes <- BothModes
  WeakUpdate = FALSE
INVARIANT EveryInputConnected
