SPECIFICATION AgentSpec
CONSTANTS
  Files = {"app.py"}
  Folders = {"src"}
  Inside <- OneFile
  Contents = {"x", "y"}
  MaxIdenticalFailures = 1
  MaxIdenticalReads = 1
  MaxTotalCalls = 4
  MaxRepeatedCalls = 2
  MaxConsecutiveFailures = 2
  MaxDedupesAfterWrite = 1
  MaxParallel = 2
  Messages <- AloneAndInPairs
  MaxInvocations = 2
  ToolRoles <- ChainRoles
  Granted <- ChainGranted
  TmpRequested = FALSE
  ToolCalls <- ChainCalls
  EditThreads = {1, 2}
  EditFiles <- ChainFiles
  EditReplacements <- ChainReplacements
  EditLengths = {1, 2, 3}
  Gutters = {0, 2}
CHECK_DEADLOCK FALSE
INVARIANTS
  AgentTypeOK
  FlailingIsStopped
  WhatIsSaidIsTrue
  RepairedAsMeant
PROPERTIES
  RefusalsAreTrue
  TurnIsBounded
