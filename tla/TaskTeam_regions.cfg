SPECIFICATION FairSpec
CONSTANTS
  MaxThreads = 3
  MaxTasks = 5
  MaxGroups = 2
  MaxQueued = 4
  MaxPriority = 1
  Addrs = {"a", "b"}
  Bodies <- MCBodies
  Regions <- MCRegions
INVARIANTS CountsAgree DependRespected WaitingFirst NothingDangles
PROPERTIES WaitsForTasks AllFinish
