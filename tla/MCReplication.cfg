CONSTANTS
  SrcTable = {"a", "b"}
  Xid = {1, 2}
  None = None
  MaxEventsPerWake = 3
  StreamScenarios <- MCStreamScenarios
  MaxLsn = 3
  AddScenarios <- MCAddScenarios
  NumWriterTasks = 2
  MaxRowsPerBatch = 1
  BatchChannelCapacity = 1
  TargetFileRows = 2
  CopyScenarios <- MCCopyScenarios
  Client = {"c1", "c2"}
  Table = {"t", "u"}
  Null = Null
  MaxHeavyOps = 1
  RestScenarios <- MCRestScenarios
  Parts = {"stream", "add", "copy", "rest"}
SPECIFICATION Spec
INVARIANTS
  WholeCommits
  SlotIsSafe
  CopyMeetsStream
  CopyIsExact
  RequestsAreKept
PROPERTIES
  RowsComeThrough
CHECK_DEADLOCK FALSE
