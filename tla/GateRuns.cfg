SPECIFICATION GateSpec
CONSTANTS
  Files = {"tests"}
  Crashes = {"package", "crash"}
  Faults <- CrashFaults
  PackageFaults <- MissingPackage
  Tasks = {t1}
  NoTask = NoTask
  MaxFixAttempts = 2
  MaxRunErrors = 2
  MaxRefunds = 1
  MaxRuns = 2
  EnvWorktrees = {"w1"}
  Declarations = {"nothing", "a", "b"}
  EnvKills = 1
  EnvEdits = 1
  SuiteFiles = {"pyproject.toml", "package.json", "angular.json", "Cargo.toml", "source.py", "manage.py", "pytest.ini", "react", "scripts.test"}
  SuiteTests <- FiveTests
  MaxSuiteFiles = 2
CHECK_DEADLOCK FALSE
INVARIANTS
  GateTypeOK
  
PROPERTIES
  CallsComeBack
  GateIsUpToDate
  
