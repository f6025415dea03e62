SPECIFICATION FairSpec
CONSTANTS
  Id = {"a", "b"}
  Uri = {"p"}
  Rest = "rest"
  None = None
  Client = {"c1", "c2"}
  Scenarios <- ControlScenarios
INVARIANTS
  TablesAreServed
  AnswersLast
PROPERTIES
  ServiceAnswers
CHECK_DEADLOCK FALSE
