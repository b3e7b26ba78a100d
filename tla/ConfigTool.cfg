\* A process of each command line beside one of each other; two faults.
SPECIFICATION Spec
CONSTANTS
  Procs = {p1, p2}
  Lines <- MCLines
  CfgFiles = {"client", "server"}
  OnDisk <- Disk
  MaxFaults = 2
  None = None
INVARIANTS
  FileIsWhole
  ChangesArrive
PROPERTY
  ReplacedWhole
CHECK_DEADLOCK FALSE
