\* Any three of two receivers, a client and its writer; both signals.
SPECIFICATION FairSpec
CONSTANTS
  r1 = r1  r2 = r2  c1 = c1  w1 = w1
  None = None
  MaxThreads = 3
  Receivers <- TwoReceivers
  Clients <- OneClient
  Writers <- OneWriter
INVARIANTS
  EndsAreSeen
  GracefulExit
  StopIsSafe
  StopIsNoticed
PROPERTIES
  MainReturns
CHECK_DEADLOCK FALSE
