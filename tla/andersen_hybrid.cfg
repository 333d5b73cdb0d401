SPECIFICATION FairSpec
CONSTANTS
  Programs <- HcdPrograms
  Options <- HybridOptions
INVARIANT FixedPoint
