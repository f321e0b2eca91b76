SPECIFICATION Spec
CONSTANTS
  BufSize = 4
  MaxBufSize = 12
  SmallMax = 3
  Sizes = {1, 7, 9}
  MaxSent = 2
  MaxBeats = 2
INVARIANTS
  TypeOK
  BufferBounded
CHECK_DEADLOCK FALSE
