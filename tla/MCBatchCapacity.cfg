CONSTANTS
  b1 = b1
  b2 = b2
  b3 = b3
  b4 = b4
  c1 = c1
  c2 = c2
  c3 = c3
  c4 = c4
  c5 = c5
  c6 = c6
  openai = openai
  home = home
  studio = studio
  node = node
  Batches = {b1, b2, b3, b4}
  Children = {c1, c2, c3, c4, c5, c6}
  Providers = {openai}
  Projects = {home, studio}
  Sources = {node}
  BatchOf <- SplitBatchOf
  ProviderOf <- SplitProviderOf
  ProjectOf <- SplitProjectOf
  SourceOf <- SplitSourceOf
  Concurrency <- Widened
  ProjectLimit = 2
  ProviderLimit <- One
  Streak = 2
  RunStarts = 3
  FailureCodes = {"rate_limited"}
  MayRoll = FALSE
  MayRefuse = TRUE
  MayBreak = FALSE
  MayDisable = FALSE
  MaxControls = 0
  MaxLate = 1
SPECIFICATION CompetingSpec
CHECK_DEADLOCK FALSE
INVARIANT CapacityKept SourceShareKept
PROPERTY QueueDrains
