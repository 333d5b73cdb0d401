SPECIFICATION Spec
CONSTANTS
  Word = 8
  Addrs = {0, 1, 2, 3, 4}
  Sizes = {0, 1, 2, 4}
  Types = {0, 1, 2, 3}
  MaxSaved = 3
  Accesses <- MCAccesses
INVARIANTS TypeOK UniformMissNothing MissedOnlyBehindGap
PROPERTY AbortsOnSharedOrEmpty
CHECK_DEADLOCK FALSE
