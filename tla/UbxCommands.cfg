SPECIFICATION Spec
CONSTANTS
  Paths = {"tty"}
  Path = "tty"
  Dev2 = "tty"
  NoValue = NoValue
  QCap = 2
  Forms = {"bare"}
  Scenarios <- MCScenarios
INVARIANTS
  NoRollbackOwed
  ExitZeroIsDone
PROPERTIES
  VerifiedInForce
  DisarmedInForce
  CommandEnds
CHECK_DEADLOCK FALSE
