SPECIFICATION FairSpec
CONSTANTS
  Reader = {r1, r2}
  Scenarios <- ReadScenarios
INVARIANTS
  ReadsAreWhole
  ReadCovers
  NoPanic
PROPERTIES
  ReadsGoForward
  ReadReturns
