SPECIFICATION Spec
CONSTANTS
  u1 = u1
  u2 = u2
  i1 = i1
  i2 = i2
  Users <- UsersDef
  Indices <- IndicesDef
  CountWrap = 2
  MaxMessages = 2
  MaxEdges = 1
  None = None
VIEW View
SYMMETRY Symmetric
INVARIANTS
  MessagesWhole
  CompoundReadsAtomic
CHECK_DEADLOCK FALSE
