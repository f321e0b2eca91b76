SPECIFICATION FairSpec
CONSTANTS
  BufSize = 4
  MaxBufSize = 24
  SmallMax = 3
  Sizes = {0, 2, 4}
  MaxSent = 3
  MaxBeats = 0
INVARIANTS
  NothingLost
  ReadsToTheEnd
PROPERTIES
  IsPipe
  AllArrive
CHECK_DEADLOCK FALSE
