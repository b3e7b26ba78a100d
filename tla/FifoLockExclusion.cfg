\* Three attempts, no crash: at most one program?
SPECIFICATION LockSpec
CONSTANTS
  p1 = p1  p2 = p2  p3 = p3
  Procs <- TwoProcs
  MaxLeaked = 2
  MaxAttempts = 3
  MaxCrashes = 0
INVARIANTS
  AtMostOneProgram
CHECK_DEADLOCK FALSE
