\* Six command lines, all with -p; a file changes its size once.
SPECIFICATION FairSpec
CONSTANTS
  None = None
  Files <- Tree
  Cwd <- Home
  CommandLines <- Lines
  Percents = {TRUE}
  Chunk = 2
  Room = 1
  MaxChanges = 1
INVARIANTS
  ToTargetNamedLast
  FollowsCommandLine
  FinishedIsStored
  ReporterHasFile
PROPERTIES
  ClientEnds
CHECK_DEADLOCK FALSE
