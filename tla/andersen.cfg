SPECIFICATION FairSpec
CONSTANTS
  Programs <- AllPrograms
  Options <- AllOptions
INVARIANTS NothingForgotten Sound
PROPERTY ImplementsPointsTo
