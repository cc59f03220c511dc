SPECIFICATION ContentSpec
CONSTANTS
  Keys <- MCKeys
  Parts = 1
  MaxCalls = 2
  MaxControls = 1
  MaxFaults = 1
  Imports <- MCKeys
  Services <- MCServices
  Size = 2
  MaxRevision = 2
  MaxRequests = 4
  MaxMishaps = 2
  Projects <- MCProjects
  Folders <- MCFolders
  LibraryKeys <- MCKeys
  MaxProjectRevision = 3
  MaxContent = 2
  MaxTime = 2
  Media <- MCMedia
  Script <- MCScript
  Users <- MCUsers
  MaxCommands = 3
  MaxWorkers = 3
  MaxCopyFaults = 1
  key1 = key1
  key2 = key2
  work1 = work1
  work2 = work2
  folder1 = folder1
  user1 = user1
  user2 = user2
SYMMETRY Interchangeable
INVARIANTS SourceHonest
PROPERTIES OneWorkerAtATime CopyHonest LibraryHonest ImportHonest ReviewHonest PackageHonest
CHECK_DEADLOCK FALSE
