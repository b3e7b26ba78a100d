\* Five transfers, two of them of empty files, at most two signals on their way.
SPECIFICATION Spec
CONSTANTS
  u1 = u1  u2 = u2  d1 = d1  d2 = d2  d3 = d3
  None = None
  Transfers <- MCTransfers
  Ids = {1, 2}
  Id <- MCId
  Uploads <- MCUploads
  Empty <- MCEmpty
  MaxUpdates = 1
  Room = 2
  Blink = 1
SYMMETRY Symmetry
INVARIANTS
  CountsAreRows
  RowsFollow
  IconFollows
  ItemsExist
CHECK_DEADLOCK FALSE
