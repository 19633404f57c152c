CONSTANTS
  Writers = {out, err}
  MaxLines = 3
  MaxProgress = 1
  Capacity = 2
SPECIFICATION FairSpec
INVARIANTS
  StreamInv
  EverythingSent
PROPERTIES
  StreamEnds
CHECK_DEADLOCK FALSE
