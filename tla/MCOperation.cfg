SPECIFICATION MCSpec
CONSTANTS
  SupportsCancel = TRUE
  InBatch = TRUE
  MaxSubmits = 2
  QueryRetries = 2
  ReconcileQueries = 2
  MaxLate = 1
  Ops = {o1}
  Processes = {p1, p2}
  Cancels = {}
  MaxCrashes = 1
  MaxRepeats = 1
  MaxTakeovers = 1
SYMMETRY Interchangeable
CHECK_DEADLOCK FALSE
INVARIANTS NoBlindRelease AtMostOneExecution OutcomeVerified DeliveredOnce
PROPERTIES TerminalForever ContractKept
