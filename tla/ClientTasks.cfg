SPECIFICATION FairSpec
CONSTANTS
  Freqs = {0, 1500}
  Jitters = {100, 1999}
  WireRoom = 1
  MaxSends = 2
  MaxBeats = 1
  MaxFrames = 1
INVARIANTS
  TypeOK
  Drains
PROPERTIES
  ReaderEndsOthers
  WriterEndsOthers
  QuitStops
CHECK_DEADLOCK FALSE
