SPECIFICATION ProcessSpec
CONSTANTS
  MaxBlockedConsults = 1
  MaxRevisions = 1
  MaxTasks = 3
  MaxBatch = 2
  MaxProcesses = 3
  KEEP_RUNS = 3
  MAX_PROJECT_BYTES = 4
  RunSizes = {1, 3}
  MaxSessions = 3
  Modes = {"ask", "plan"}
  Processes <- ThreeProcesses
  RoleNames = {"default", "planner", "planner_b"}
  BUILTIN_ROLES = {"default", "planner"}
  PrefixOf <- OnePrefix
  ModelKeys = {"model", "api_key"}
  PlainSettings <- TwoSettings
  BoolSettings <- OneSwitch
  SettingValues = {"plan", "other", "bad"}
  EnvNames <- SixNames
  Flags <- ModeFlag
  ConfigEdits = 2
CHECK_DEADLOCK FALSE
INVARIANTS
  ProcessTypeOK
  NothingIsLeftOpen
  
PROPERTIES
  
  
  ReplacedOnlyIfAgreed
  WhatIsReportedIsTrue
  
