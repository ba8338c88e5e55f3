SPECIFICATION ParallelSpec
CONSTANTS
  Master <- MCMaster
  Workers <- MCWorkers
  Regions <- ShrinkExit
  Initials <- MCInitials
  Programs <- MCPrograms
  Calls = 1
  Limit = 4
  MaxTeam = 4
  NumPlaces = 6
  MaxLevels = 2
  PlacedPrograms <- MCPlacedPrograms
  TeamThreads <- MCTeamThreads
  NestedRegions <- MCNestedRegions
  PosixRegions <- MCPosixRegions
  NumPhases = 2
INVARIANT DockOutlivesUse
