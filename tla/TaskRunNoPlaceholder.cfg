SPECIFICATION Spec
CONSTANTS
  Files = {"app", "tests"}
  Crashes = {}
  Faults <- PlaceholderFaults
  PackageFaults <- NoFaults
  Tasks = {t1, t2}
  NoTask = NoTask
  MaxFixAttempts = 2
  MaxRunErrors = 2
  MaxRefunds = 1
  MaxRuns = 1
CHECK_DEADLOCK FALSE
PROPERTIES
  DoneLeavesNoPlaceholder
