SPECIFICATION FairSpec
CONSTANT Programs <- AllPrograms
INVARIANTS RacesReported ReportsReal
PROPERTY Termination
