SPECIFICATION Spec
CONSTANTS
  Paths = {"tty"}
  Path = "tty"
  Dev2 = "other"
  NoValue = NoValue
  QCap = 16
  Forms = {"RAW"}
  Retention = 1
  Scenarios <- MCScenarios
PROPERTIES
  FixedPageShowsPosition
  SnapshotOfItsCycle
  MissingIsExplained
  Recovers
CHECK_DEADLOCK FALSE
