SPECIFICATION FairSpec
CONSTANTS
  Xact <- MCXact
  None = None
  Scenarios <- WalScenarios
INVARIANTS
  RecoveryIsPrefix
  ToldIsDurable
PROPERTIES
  ImplementsCommitLog
  LogIsTruncated
CHECK_DEADLOCK FALSE
