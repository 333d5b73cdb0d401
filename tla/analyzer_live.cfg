SPECIFICATION FairSpec
CONSTANTS
  Word = 64
  N = 2
  Programs <- TwoEpochPrograms
  LocalOps <- MCLocalOps
  RmaOps <- MCRmaOps
  Base <- MCBase
  DispUnit <- MCDispUnit
  Buffered = FALSE
  MaxComms = 1
  Files = {"a"}
  Kinds = {"get"}
  Disps = {0}
  Loads = {20}
  Stores = {}
PROPERTY Termination
