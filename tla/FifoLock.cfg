\* Three processes, four attempts, two of them killed; a process to which T has
\* left two descriptors has too few for another round.
SPECIFICATION LockFairSpec
CONSTANTS
  p1 = p1  p2 = p2  p3 = p3
  Procs <- ThreeProcs
  MaxLeaked = 2
  MaxAttempts = 4
  MaxCrashes = 2
INVARIANTS
  PipesFollowCode
  FirstTwoExclude
PROPERTIES
  LonelyAttemptEnds
CHECK_DEADLOCK FALSE
