SPECIFICATION AggSpec
CONSTANTS
  N = 4
  MsgsPerTimeout = 3
  PacketTimeout = 3
  Gap = 6
  MaxLost = 2
  None = None
  Padding = Padding
INVARIANTS
  OutputOnce
  ServedInOneTurn
  NothingLost
