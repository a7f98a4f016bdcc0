SPECIFICATION RunSpec
CONSTANTS
  MaxBlockedConsults = 2
  MaxRevisions = 1
  MaxTasks = 4
  MaxBatch = 2
  MaxProcesses = 1
  Texts = {"short", "long"}
  Chunked = {"long"}
  LogCap = 1
  Remembered <- TwoMemories
  MaxRecorded = 2
  PermAgents = {"m", "w"}
  MainAgents = {"m"}
  Held <- GateHeld
  AllowRules <- GateAllow
  DenyRules <- GateDeny
  FloorDisabled = {}
  AutoOptIns = {"execute"}
  MaxApprovalRounds = 1
  PermBatches <- GateBatches
  PermMessages = 2
CHECK_DEADLOCK FALSE
INVARIANTS
  RunTypeOK
  UnblockersLead
  
  
  
PROPERTIES
  RunIsBounded
  WholeOrGone
