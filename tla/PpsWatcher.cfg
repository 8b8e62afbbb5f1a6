SPECIFICATION Spec
CONSTANTS
  CountMod = 16
  TickMod = 64
  NominalTicks = 4
  MaxCarryover = 0
  StaleAfter = 8
  WindowSize = 1
  Second = 4
  Poll = 2
  Phase = 1
  ChronyInterval = 4
  ChronyExpiry = 16
  CheckTimeout = 8
  TicksPerUnit = 1
  MaxTime = 28
  MaxGlitches = 1
  None = None
VIEW View
INVARIANTS
  MislabelNeedsCheck
  PpsLossNoticed
  ChronyLossNoticed
  SyncAcquired
CHECK_DEADLOCK FALSE
