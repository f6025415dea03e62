SPECIFICATION Spec
CONSTANTS
  None = None
  Scenarios <- PruneScenarios
INVARIANT ReadsNoDeletedRow
