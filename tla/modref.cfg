SPECIFICATION FairSpec
CONSTANTS Programs <- AllPrograms
INVARIANTS ReachableExact ModRefSound KilledStayOut
PROPERTY Termination
