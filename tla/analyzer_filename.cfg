SPECIFICATION Spec
CONSTANTS
  Word = 64
  N = 2
  Programs <- OneEpochPrograms
  LocalOps <- MCLocalOps
  RmaOps <- MCRmaOps
  Base <- MCBase
  DispUnit <- MCDispUnit
  Buffered = TRUE
  MaxComms = 1
  Files = {"a", "b"}
  Kinds = {"get"}
  Disps = {0}
  Loads = {}
  Stores = {}
INVARIANT FilenameOfAccess
