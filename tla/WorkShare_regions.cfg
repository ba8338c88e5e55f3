SPECIFICATION FairSpec
CONSTANTS
  Master <- MCMaster
  Regions <- MCRegions
  Chunk = 2
  MaxShares = 14
INVARIANTS SameShare RecycledSharesUnused NoShareLost CopyDelivered
PROPERTY TeamEnds
