CONSTANTS
  G = 2
  Size = 5
  IntBits = 4
  MaxBytes = 4
SPECIFICATION StreamSpec
INVARIANTS
  DecodesReference
  EncodesCanonically
  BytesInOrder
PROPERTY EveryLoopEnds
CHECK_DEADLOCK FALSE
