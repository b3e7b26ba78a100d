\* One transfer of three fragments through a buffer of two, from a client that
\* may disappear at any time.
SPECIFICATION FairSpec
CONSTANTS
  FSize = 3
  MaxBuf = 2
  UpdateInterval = 2
  Faults = {"drop"}
  MaxExtra = 0
INVARIANTS
  DeletedAfterRelease
PROPERTIES
  AlwaysReported
  ReceiverReleased
  RefinesTransfer
