SPECIFICATION TransferSpec
CONSTANTS
  Items <- MCItems
  Parts <- MCParts
  MaxCommands = 3
  MaxFaults = 0
  MaxAttempts = 1
  MaxTries = 1
  MaxExecutions = 1
PROPERTIES CancelReachesEveryItem
CHECK_DEADLOCK FALSE
