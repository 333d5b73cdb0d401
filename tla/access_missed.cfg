SPECIFICATION Spec
CONSTANTS
  Word = 16
  Addrs = {0, 1, 2, 3}
  Sizes = {1, 2, 4}
  Types = {0, 2, 3}
  MaxSaved = 4
  Accesses <- MCAccesses
INVARIANT NoMissedConflict
CHECK_DEADLOCK FALSE
