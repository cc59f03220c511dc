SPECIFICATION StudioSpec
CONSTANTS
  key1 = key1
  key2 = key2
  key3 = key3
  key4 = key4
  media1 = media1
  Ops = {"q1", "q2"}
  Keys = {key1, key2}
  Bodies <- MCBodies
  QuoteKeys = {"r1"}
  Calls = {key3, key4}
  Ttl = 1
  MaxTime = 1
  MaxPrices = 2
  MaxModels = 2
  MaxChanges = 2
  Limit = 2
  NoOutcome = NoOutcome
  Accounts = {key1, key2}
  Slots = {key3, key4}
  LockFailures = 2
  LockDuration = 2
  IdleTime = 1
  Lifetime = 2
  MaxRevision = 4
  MaxClock = 2
  MaxTries = 3
  MaxEffort = 5
  MaxFaults = 3
  MaxSignals = 3
SYMMETRY Interchangeable
INVARIANTS ConfirmedWhole
PROPERTIES ConfirmedWhileFresh AnswersFirstOutcome
PROPERTIES MediaHonest CatalogHonest BibleHonest CanvasHonest
PROPERTIES IdentityHonest CodexHonest RegistryHonest StreamHonest
CHECK_DEADLOCK FALSE
