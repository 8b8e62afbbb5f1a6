SPECIFICATION StatsSpec
CONSTANTS
  CountMod = 4
  TickMod = 32
  NominalTicks = 4
  MaxCarryover = 1
  StaleAfter = 2
  WindowSize = 2
  MaxEdges = 2
  Jitters <- MCJitters
  MaxSamples = 6
INVARIANTS
  EdgesAccounted
  SyncedIntervalIsGood
CHECK_DEADLOCK FALSE
