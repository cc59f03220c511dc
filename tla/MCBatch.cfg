CONSTANTS
  b1 = b1
  b2 = b2
  b3 = b3
  b4 = b4
  c1 = c1
  c2 = c2
  c3 = c3
  c4 = c4
  c5 = c5
  c6 = c6
  openai = openai
  home = home
  studio = studio
  node = node
  Batches = {b1}
  Children = {c1, c2, c3}
  Providers = {openai}
  Projects = {home}
  Sources = {node}
  BatchOf <- OneBatchOf
  ProviderOf <- AllOpenai
  ProjectOf <- AllHome
  SourceOf <- NoSource
  Concurrency <- Wide
  ProjectLimit = 2
  ProviderLimit <- Three
  Streak = 2
  RunStarts = 2
  FailureCodes = {"rate_limited"}
  MayRoll = FALSE
  MayRefuse = TRUE
  MayBreak = TRUE
  MayDisable = TRUE
  MaxControls = 1
  MaxLate = 0
SPECIFICATION Spec
CHECK_DEADLOCK FALSE
SYMMETRY Interchangeable
INVARIANT SlotsHonest SummaryExact
