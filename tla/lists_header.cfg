SPECIFICATION Spec
CONSTANTS
  NBlocks = 1
  Kinds = {"Barrier"}
  OneKind = "Barrier"
  Programs <- HeaderPrograms
INVARIANT LoopListsExact
