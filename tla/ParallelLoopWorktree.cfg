SPECIFICATION Spec
CONSTANTS
  Files = {"tests"}
  Crashes = {"crash"}
  Faults <- LocatedFault
  PackageFaults <- NoFaults
  MaxTasks = 2
  Fanout = 2
  MaxRedos = 2
  MaxBlockedConsults = 1
  WorktreesFail = TRUE
CHECK_DEADLOCK FALSE
PROPERTIES
  RunEnds
