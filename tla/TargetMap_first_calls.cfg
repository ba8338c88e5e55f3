SPECIFICATION AccSpec
CONSTANTS
  Threads <- MCThreads
  Programs <- FirstCalls
  Images <- MCImages
  Addrs <- MCAddrs
  MaxTgts = 7
INVARIANT LazilyInitialized
