\* Two receivers share the list for up to three transfers; files may fail to open.
SPECIFICATION FairSpec
CONSTANTS
  r1 = r1  r2 = r2
  i1 = i1  i2 = i2  i3 = i3  i4 = i4
  NoOne = NoOne
  Receivers <- TwoReceivers
  Ids <- FourIds
  MaxTransfers = 3
INVARIANTS
  LiveIsListed
PROPERTIES
  AlwaysServed
  ImplementsRegistry
CHECK_DEADLOCK FALSE
