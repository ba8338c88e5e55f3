SPECIFICATION LoopsSpec
CONSTANTS
  N = 3
  Programs <- AllPrograms
  WordBits = 3
  W = 6
  Loops <- SmallLoops
  MaxCount = 5
  MaxChunk = 3
INVARIANTS InOrder QueueInOrder SinksPosted EachOnce
PROPERTY LoopsFinish
