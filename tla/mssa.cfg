SPECIFICATION Spec
CONSTANTS Programs <- AllPrograms
INVARIANTS DefinedOnce VersionsExact PredicatesComplete
