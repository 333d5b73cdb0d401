SPECIFICATION Spec
CONSTANTS Programs <- InvokePrograms
INVARIANTS VersionsExact
