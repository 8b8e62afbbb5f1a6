SPECIFICATION LoopSpec
CONSTANTS
  a1 = a1
  Addrs = {a1}
  None = None
  TOAs <- MCTOAs
  MaxLateness = 2
  MaxBuffered = 2
  MaxPushes = 4
  MaxMessages = 4
  TTL = 3
  Skew = 2
  StatsPeriod = 4
  MaxTime = 8
INVARIANTS
  NothingLostOrDuplicated
  OutputOrdered
  StreamSorted
  FlushedWhenQuiet
PROPERTIES
  FilterIsExact
CHECK_DEADLOCK FALSE
