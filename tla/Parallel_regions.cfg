SPECIFICATION ParallelSpec
CONSTANTS
  Master <- MCMaster
  Workers <- MCWorkers
  Regions <- ShrinkGrow
  Initials <- MCInitials
  Programs <- MCPrograms
  Calls = 1
  Limit = 4
  MaxTeam = 4
  NumPlaces = 6
  MaxLevels = 2
  PlacedPrograms <- MCPlacedPrograms
  TeamThreads <- MCTeamThreads
  NestedRegions <- MCNestedRegions
  PosixRegions <- MCPosixRegions
  NumPhases = 2
INVARIANTS TeamEndWaits NoStaleFunction TeamOutlivesUse FirstLimitsAll PlacesRight BarrierSync NoLostUpdate LoopCancelStays FreedTeamUntouched
PROPERTIES ThreadLimitHeld PoolExits RegionEnds CompletedWaitReturns
