SPECIFICATION FairSpec
CONSTANTS
  Threads <- MCTwoThreads
  Master <- MCMaster
  Regions <- CopyThenCancel
  Wrap = 2
PROPERTY CompletedWaitReturns
