SPECIFICATION Spec
CONSTANTS
  d1 = d1
  d2 = d2
  Data = {d1, d2}
  AddrBits = 2
  MaxPending = 2
INVARIANTS
  CountIsConservative
  OverflowsReported
PROPERTIES
  ImplementsQueue
