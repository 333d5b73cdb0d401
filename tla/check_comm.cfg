SPECIFICATION Spec
CONSTANTS
  N = 2
  Kinds = {1, 2}
  Comms <- MCComms
  Programs <- CommPrograms
INVARIANT MismatchIsDetected
