SPECIFICATION FairSpec
CONSTANTS
  Lsn <- MCLsn2
  Row = {1, 2, 3}
  Xact = {1, 2}
  None = None
  MemSliceSize = 2
  SnapshotDeletionCount = 2
  PersistFileCount = 1
  PersistDeletionCount = 2
  Scenarios <- RequestScenarios
INVARIANTS
  TableStaysSound
PROPERTIES
  AnswersUntilDropped
  ForceSnapshotAnswered
  WaitingEnds
CHECK_DEADLOCK FALSE
