SPECIFICATION FairSpec
CONSTANTS
  NBlocks = 1
  Kinds = {"Barrier"}
  OneKind = "Barrier"
  Programs <- NestedDoPrograms
PROPERTY Termination
