SPECIFICATION Spec
CONSTANTS
  Files = {"app", "tests"}
  Crashes = {}
  Faults <- SharedFaults
  PackageFaults <- NoFaults
  Tasks = {t1, t2}
  NoTask = NoTask
  MaxFixAttempts = 2
  MaxRunErrors = 2
  MaxRefunds = 1
  MaxRuns = 2
SYMMETRY TaskSymmetry
VIEW LiveState
CHECK_DEADLOCK FALSE
INVARIANTS
  AttemptsAddUp
PROPERTIES
  SettledOnEvidence
  TasksFollowLifecycle
