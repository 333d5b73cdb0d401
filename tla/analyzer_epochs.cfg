SPECIFICATION Spec
CONSTANTS
  Word = 64
  N = 2
  Programs <- EpochPrograms
  LocalOps <- MCLocalOps
  RmaOps <- MCRmaOps
  Base <- MCBase
  DispUnit <- MCDispUnit
  Buffered = TRUE
  MaxComms = 1
  Files = {"a"}
  Kinds = {"put"}
  Disps = {0}
  Loads = {}
  Stores = {20}
INVARIANTS
  TypeOK EpochComplete NoStaleInterval RacesCaught NeverTerminated
