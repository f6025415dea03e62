SPECIFICATION FairSpec
CONSTANTS
  Lsn <- MCLsn
  MaxSlices = 2
INVARIANTS
  PayloadExact
  QuiescentCaughtUp
PROPERTIES
  EventuallyCovered
CHECK_DEADLOCK FALSE
