SPECIFICATION AccSpec
CONSTANTS
  Threads <- MCThreads
  Programs <- MCPrograms
  Images <- MCImages
  Addrs <- MCAddrs
  MaxTgts = 7
INVARIANTS RefsCounted RegionsStayMapped
