SPECIFICATION MediaSpec
CONSTANTS
  Items <- MCItems
  Parts <- MCParts
  MaxCommands = 3
  MaxFaults = 1
  MaxAttempts = 2
  MaxTries = 2
  MaxExecutions = 3
INVARIANTS BytesFollowCatalog
PROPERTIES OneWorkerAtATime JobsHonest
CHECK_DEADLOCK FALSE
