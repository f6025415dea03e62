SPECIFICATION Spec
CONSTANTS
  None = None
  Scenarios <- FileScenarios
INVARIANTS
  CacheAddsUp
  NoFileLeaks
  ReadIsHistory
  IcebergIsHistory
