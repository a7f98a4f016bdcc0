SPECIFICATION Spec
CONSTANTS
  Files = {"app.py"}
  Folders = {"src"}
  Inside <- OneFile
  Contents = {"x", "y"}
  MaxIdenticalFailures = 1
  MaxIdenticalReads = 1
  MaxTotalCalls = 4
  MaxRepeatedCalls = 2
  MaxConsecutiveFailures = 2
  MaxDedupesAfterWrite = 1
  MaxParallel = 1
  Messages <- OneByOne
  MaxInvocations = 1
CHECK_DEADLOCK FALSE
PROPERTIES
  WrittenIsOnDisk
