\* A client that repeats positions, writes past the end and sends too much, and a disk that fills up.
SPECIFICATION FairSpec
CONSTANTS
  FSize = 2
  MaxBuf = 2
  UpdateInterval = 2
  Faults = {"drop", "extra", "disk"}
  MaxExtra = 4
INVARIANTS
  NeverPopsEmpty
  BufferBounded
  EndIsFinal
CHECK_DEADLOCK FALSE
