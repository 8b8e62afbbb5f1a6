SPECIFICATION FairServerSpec
CONSTANTS
  a = a
  b = b
  d = d
  w = w
  Clients = {a, b}
  External = {b}
  Stuck = {b}
  Frames <- MCFrames
  Welcomes <- MCWelcomes
  ClientBufSize = 1
  MaxBroadcasts = 2
  None = None
INVARIANTS
  MapHoldsOpenChannels
  ServedOrClosed
PROPERTIES
  ImplementsFeed
  BroadcastsGoOn
  OthersAreServed
  ShutdownCompletes
CHECK_DEADLOCK FALSE
