SPECIFICATION MCSpec
CONSTANTS
  Threads = {t1, t2, t3}
  None = None
  MaxDepth = 2
  MaxCount = 2
  Members <- MCMembers
  Constructs <- AllOfThem
  InCritical <- Forbidden
  Bound = 2
INVARIANTS MutualExclusion NoLostWakeup SingleOnce CriticalExclusive OneMessage
PROPERTIES ImplementsFairLock ImplementsFairNestLock ImplementsFairSemaphore RefusalEnds
