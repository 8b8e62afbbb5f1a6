SPECIFICATION Spec
CONSTANTS
  c1 = c1
  GPS = GPS
  Legacy = Legacy
  Clients = {c1}
  External = {}
  Stuck = {}
  Frames <- MCFrames
  Welcomes <- MCWelcomes
  ClientBufSize = 2
  MaxBroadcasts = 6
  MaxEmits = 3
  None = None
INVARIANTS
  NeverEncodesNilRef
  BroadcastsParse
  WelcomeIsCurrent
PROPERTIES
  FollowersDecode
CHECK_DEADLOCK FALSE
