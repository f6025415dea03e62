CONSTANTS
  None = None
  MaxManifestEntries = 4
  Scenarios <- IcebergScenarios
SPECIFICATION Spec
INVARIANTS
  RestartFindsTable
  ManagerMatchesStore
PROPERTIES
  ImplementsAtomicTable
CHECK_DEADLOCK FALSE
