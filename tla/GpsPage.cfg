SPECIFICATION Spec
CONSTANTS
  Paths = {"tty"}
  Path = "tty"
  Dev2 = "other"
  NoValue = NoValue
  QCap = 16
  Forms = {"RAW"}
  Retention = 1
  Scenarios <- MCScenarios
INVARIANTS
  PagesAnswered
CHECK_DEADLOCK FALSE
