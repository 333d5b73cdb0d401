SPECIFICATION Spec
CONSTANTS
  Word = 64
  N = 2
  Programs <- BarrierPrograms
  LocalOps <- MCLocalOps
  RmaOps <- MCRmaOps
  Base <- MCBase
  DispUnit <- MCDispUnit
  Buffered = TRUE
  MaxComms = 0
  Files = {"a"}
  Kinds = {"put"}
  Disps = {0}
  Loads = {}
  Stores = {}
INVARIANT RestartOnlyInEpoch
