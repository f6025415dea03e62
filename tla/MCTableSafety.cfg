SPECIFICATION Spec
CONSTANTS
  Lsn <- MCLsn3
  Row = {1, 2, 3}
  Xact = {1, 2, 3}
  None = None
  MemSliceSize = 2
  SnapshotDeletionCount = 2
  PersistFileCount = 1
  PersistDeletionCount = 1
  Scenarios <- SafetyScenarios
INVARIANTS
  DurableUnlessReplayed
  PanicsHaveACause
CHECK_DEADLOCK FALSE
