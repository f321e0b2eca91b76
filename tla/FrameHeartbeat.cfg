SPECIFICATION Spec
CONSTANTS
  BufSize = 4
  MaxBufSize = 12
  SmallMax = 3
  Sizes = {1}
  MaxSent = 2
  MaxBeats = 1
INVARIANTS
  InOrder
CHECK_DEADLOCK FALSE
