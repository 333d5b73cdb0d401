SPECIFICATION FairSpec
CONSTANTS
  NBlocks = 5
  Kinds = {"Barrier", "Bcast"}
  OneKind = "Barrier"
  Programs <- AllPrograms
INVARIANTS
  UndefinedIffCalledDead
  ListsExact LoopListsExact SilentIffSame FrontierExact
PROPERTY Termination
