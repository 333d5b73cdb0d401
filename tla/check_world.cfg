SPECIFICATION FairSpec
CONSTANTS
  N = 3
  Kinds = {1, 2}
  Comms <- NoComms
  Programs <- WorldPrograms
INVARIANTS MismatchIsDetected NoFalseAlarm
PROPERTY Verdict
