------------------------------ MODULE LockProofs ------------------------------
(***************************************************************************)
(* The futex mutex excludes, never forgets a sleeper and implements        *)
(* AbstractLock, for every set of threads: its three safety invariants     *)
(* need each other, since exclusion needs the word to say locked whenever  *)
(* somebody is inside, and that is kept only while at most one is.         *)
(*                                                                         *)
(* The nestable locks exclude and implement AbstractNestLock.  The steps   *)
(* that NestLock takes on the mutex are steps of GompMutex; the mutex      *)
(* gives the 3.0 locks their exclusion: an owner is inside it, so nobody   *)
(* else can come to write the owner.                                       *)
(*                                                                         *)
(* Two more sections stand alone.  The constructs of the ARINC layer,      *)
(* which hold two pthread mutexes, run each single once, keep              *)
(* criticals and refusals apart and print one message: for every set of    *)
(* threads, every program of the four kinds and every number of            *)
(* constructs.  The futex semaphore is the last.                           *)
(***************************************************************************)
EXTENDS NestLock, ArincServices, TLAPS

-----------------------------------------------------------------------------
(* The mutex. *)

IInv == TypeOK /\ MutualExclusion /\ LockedIffHeld

LEMMA StepPreservesIInv == IInv /\ [Next]_vars => IInv'
<1> SUFFICES ASSUME IInv, [Next]_vars
             PROVE  IInv'
  OBVIOUS
<1> USE DEF IInv, TypeOK, MutualExclusion, LockedIffHeld, Places, Goto
<1>1. ASSUME NEW t \in Threads, Lock(t)
      PROVE  IInv'
  BY <1>1 DEF Lock
<1>2. ASSUME NEW t \in Threads, CompareExchange(t)
      PROVE  IInv'
  BY <1>2 DEF CompareExchange
<1>3. ASSUME NEW t \in Threads, SpinTimeout(t) \/ SpinChanged(t)
      PROVE  IInv'
  BY <1>3 DEF SpinTimeout, SpinChanged
<1>4. ASSUME NEW t \in Threads, SetWaitFlag(t)
      PROVE  IInv'
  BY <1>4 DEF SetWaitFlag
<1>5. ASSUME NEW t \in Threads, ExchangeLoop(t)
      PROVE  IInv'
  BY <1>5 DEF ExchangeLoop
<1>6. ASSUME NEW t \in Threads, DoWaitChanged(t) \/ DoWaitTimeout(t)
      PROVE  IInv'
  BY <1>6 DEF DoWaitChanged, DoWaitTimeout
<1>7. ASSUME NEW t \in Threads, FutexWait(t) \/ Interrupted(t)
      PROVE  IInv'
  BY <1>7 DEF FutexWait, Interrupted
<1>8. ASSUME NEW t \in Threads, Unlock(t)
      PROVE  IInv'
  BY <1>8 DEF Unlock
<1>9. ASSUME NEW t \in Threads, FutexWake(t)
      PROVE  IInv'
  BY <1>9 DEF FutexWake
<1>10. ASSUME NEW t \in Threads, TestLock(t)
       PROVE  IInv'
  BY <1>10 DEF TestLock
<1>11. ASSUME NEW t \in Threads, NEW u \in Threads, HandOver(t, u)
       PROVE  IInv'
  BY <1>11 DEF HandOver
<1>12. CASE UNCHANGED vars
  BY <1>12 DEF vars
<1> QED
  BY <1>1, <1>2, <1>3, <1>4, <1>5, <1>6, <1>7, <1>8, <1>9, <1>10, <1>11, <1>12
     DEF Next, Step

(* The word stays in {-1, 0, 1}, the places stay places, two threads are   *)
(* never inside together and the word tells whether one is.                *)
THEOREM Invariance == Spec => []IInv
<1>1. Init => IInv
  BY DEF Init, IInv, TypeOK, MutualExclusion, LockedIffHeld, Places
<1> QED
  BY <1>1, StepPreservesIInv, PTL DEF Spec

(* gomp_mutex_lock, omp_test_lock and a hand-over never put two threads    *)
(* inside together.                                                        *)
THEOREM Exclusion == Spec => []MutualExclusion
<1>1. IInv => MutualExclusion
  BY DEF IInv
<1> QED
  BY <1>1, Invariance, PTL

-----------------------------------------------------------------------------

LEMMA StepPreservesNoLostWakeup ==
  IInv /\ NoLostWakeup /\ [Next]_vars => NoLostWakeup'
<1> SUFFICES ASSUME IInv, NoLostWakeup, [Next]_vars
             PROVE  NoLostWakeup'
  OBVIOUS
<1> USE DEF IInv, TypeOK, NoLostWakeup, Places, Goto
<1>1. ASSUME NEW t \in Threads, Lock(t)
      PROVE  NoLostWakeup'
  BY <1>1 DEF Lock
<1>2. ASSUME NEW t \in Threads, CompareExchange(t)
      PROVE  NoLostWakeup'
  BY <1>2 DEF CompareExchange
<1>3. ASSUME NEW t \in Threads, SpinTimeout(t) \/ SpinChanged(t)
      PROVE  NoLostWakeup'
  BY <1>3 DEF SpinTimeout, SpinChanged
<1>4. ASSUME NEW t \in Threads, SetWaitFlag(t) \/ ExchangeLoop(t)
      PROVE  NoLostWakeup'
  BY <1>4 DEF SetWaitFlag, ExchangeLoop
<1>5. ASSUME NEW t \in Threads, DoWaitChanged(t) \/ DoWaitTimeout(t)
      PROVE  NoLostWakeup'
  BY <1>5 DEF DoWaitChanged, DoWaitTimeout
<1>6. ASSUME NEW t \in Threads, FutexWait(t) \/ Interrupted(t)
      PROVE  NoLostWakeup'
  BY <1>6 DEF FutexWait, Interrupted
<1>7. ASSUME NEW t \in Threads, Unlock(t)
      PROVE  NoLostWakeup'
  <2>1. CASE word = -1
    BY <1>7, <2>1 DEF Unlock
  <2>2. CASE word # -1
    BY <1>7, <2>2 DEF Unlock
  <2> QED
    BY <2>1, <2>2
<1>8. ASSUME NEW t \in Threads, FutexWake(t)
      PROVE  NoLostWakeup'
  <2>1. CASE \A u \in Threads : pc[u] # "asleep"
    BY <1>8, <2>1 DEF FutexWake
  <2>2. ASSUME NEW u \in Threads,
               pc[u] = "asleep",
               pc[t] = "wake",
               pc' = [pc EXCEPT ![t] = "idle", ![u] = "xchg"]
        PROVE  NoLostWakeup'
    <3>1. pc'[u] = "xchg"
      BY <2>2
    <3> QED
      BY <3>1
  <2> QED
    BY <1>8, <2>1, <2>2 DEF FutexWake
<1>9. ASSUME NEW t \in Threads, TestLock(t)
      PROVE  NoLostWakeup'
  BY <1>9 DEF TestLock
<1>10. ASSUME NEW t \in Threads, NEW u \in Threads, HandOver(t, u)
       PROVE  NoLostWakeup'
  BY <1>10 DEF HandOver
<1>11. CASE UNCHANGED vars
  BY <1>11 DEF vars
<1> QED
  BY <1>1, <1>2, <1>3, <1>4, <1>5, <1>6, <1>7, <1>8, <1>9, <1>10, <1>11 DEF Next, Step

(* While a thread sleeps in futex_wait, the flag, a wake or a woken thread *)
(* is there to bring the next one out: gomp_mutex_unlock's single wake of  *)
(* one thread is enough.                                                   *)
THEOREM SleepersAreRemembered == Spec => []NoLostWakeup
<1>1. Init => NoLostWakeup
  BY DEF Init, NoLostWakeup
<1> QED
  BY <1>1, Invariance, StepPreservesNoLostWakeup, PTL DEF Spec

-----------------------------------------------------------------------------

(* Every step of the futex mutex is a step of the abstract lock under      *)
(* Status, or leaves it unchanged.                                         *)
LEMMA StepImplementsLock == IInv /\ [Next]_vars => [Abstract!Next]_Status
<1> SUFFICES ASSUME IInv, [Next]_vars
             PROVE  [Abstract!Next]_Status
  OBVIOUS
<1> USE DEF IInv, TypeOK, MutualExclusion, LockedIffHeld, Places, Goto, Status
<1>1. ASSUME NEW t \in Threads, Lock(t)
      PROVE  Abstract!Request(t)
  BY <1>1 DEF Lock, Abstract!Request
<1>2. ASSUME NEW t \in Threads,
             CompareExchange(t) \/ SetWaitFlag(t) \/ ExchangeLoop(t)
      PROVE  Abstract!Acquire(t) \/ UNCHANGED Status
  <2>1. CASE word = 0
    <3>1. \A u \in Threads : pc[u] # "cs"
      BY <2>1
    <3>2. pc' = [pc EXCEPT ![t] = "cs"] /\ pc[t] \in {"cas", "flag", "xchg"}
      BY <1>2, <2>1 DEF CompareExchange, SetWaitFlag, ExchangeLoop
    <3> QED
      BY <3>1, <3>2 DEF Abstract!Acquire, Abstract!Free
  <2>2. CASE word # 0
    BY <1>2, <2>2 DEF CompareExchange, SetWaitFlag, ExchangeLoop
  <2> QED
    BY <2>1, <2>2
<1>3. ASSUME NEW t \in Threads,
             \/ SpinTimeout(t) \/ SpinChanged(t) \/ DoWaitChanged(t)
             \/ DoWaitTimeout(t) \/ FutexWait(t) \/ Interrupted(t)
      PROVE  UNCHANGED Status
  BY <1>3 DEF SpinTimeout, SpinChanged, DoWaitChanged, DoWaitTimeout, FutexWait, Interrupted
<1>4. ASSUME NEW t \in Threads, Unlock(t)
      PROVE  Abstract!Release(t)
  BY <1>4 DEF Unlock, Abstract!Release
<1>5. ASSUME NEW t \in Threads, FutexWake(t)
      PROVE  UNCHANGED Status
  BY <1>5 DEF FutexWake
<1>6. ASSUME NEW t \in Threads, TestLock(t)
      PROVE  Abstract!TryAcquire(t)
  BY <1>6 DEF TestLock, Abstract!TryAcquire, Abstract!Free
<1>7. ASSUME NEW t \in Threads, NEW u \in Threads, HandOver(t, u)
      PROVE  Abstract!HandOver(t, u)
  BY <1>7 DEF HandOver, Abstract!HandOver
<1>8. CASE UNCHANGED vars
  BY <1>8 DEF vars
<1> QED
  BY <1>1, <1>2, <1>3, <1>4, <1>5, <1>6, <1>7, <1>8 DEF Next, Step, Abstract!Next

(* The futex mutex implements the abstract lock. *)
THEOREM MutexImplementsLock == Spec => ImplementsLock
<1>1. Init => Abstract!Init
  BY DEF Init, Abstract!Init, Status
<1> QED
  BY <1>1, Invariance, StepImplementsLock, PTL DEF Spec, ImplementsLock, Abstract!Spec

-----------------------------------------------------------------------------
(* The nestable locks. *)

Places_30 == {"try", "lock", "own", "unlock"}
Places_25 == {"spin_25", "fwait_25", "asleep_25", "wake_25"}
NestPlaces == {"out", "in", "set", "test", "clear"} \cup Places_30 \cup Places_25

NestTypeOK == /\ kind \in {"simple", "nest", "nest_25"}
              /\ owner \in Threads \cup {None}
              /\ count \in Nat
              /\ at \in [Threads -> NestPlaces]
              /\ seen \in [Threads -> Threads \cup {None}]

(* The owner is whoever the places say, and the count tells its settings.  *)
OwnerInside ==
  /\ owner = None => count = 0
  /\ \A t \in Threads :
       /\ at[t] \in {"in", "clear"} => owner = t
       /\ owner = t => at[t] \in {"in", "set", "test", "clear"}
       /\ owner = t => (count = 0 <=> at[t] = "clear")

(* Where the owner of a 3.0 lock, and those who are not, are in the mutex. *)
MutexHeld ==
  /\ kind = "simple" => owner = None
  /\ kind # "nest" => \A t \in Threads : at[t] \notin Places_30
  /\ kind = "nest" => \A t \in Threads :
       /\ at[t] \notin Places_25
       /\ owner = t \/ at[t] = "own" => pc[t] = "cs"
       /\ at[t] \in {"out", "set", "test", "try"} /\ owner # t => pc[t] = "idle"
       /\ at[t] = "unlock" => pc[t] \in {"cs", "wake"}

NestInv == IInv /\ NestTypeOK /\ OwnerInside /\ MutexHeld

-----------------------------------------------------------------------------

(* On the mutex a nestable lock takes only steps that GompMutex allows. *)
LEMMA MutexStep == [LocksNext]_lockVars => [Next]_vars
<1> SUFFICES ASSUME [LocksNext]_lockVars
             PROVE  [Next]_vars
  OBVIOUS
<1>1. CASE SimpleNext
  BY <1>1 DEF SimpleNext
<1>2. ASSUME NEW t \in Threads, NestStep(t)
      PROVE  [Next]_vars
  BY <1>2 DEF NestStep, ReadOwner, Locking, BecomeOwner, TestOwner, TryMutex, BecomeTestOwner,
     ClearOwner, Unlocking, CompareOwner_25, SpinChanged_25, SpinTimeout_25, FutexWait_25,
     ClearOwner_25, FutexWake_25, mutexVars, vars, Next, Step
<1>3. ASSUME NEW t \in Threads, CallSet(t) \/ CallTest(t) \/ Unset(t) \/ NestInterrupted(t)
      PROVE  [Next]_vars
  BY <1>3 DEF CallSet, CallTest, Unset, NestInterrupted, mutexVars, vars, Next
<1>4. CASE UNCHANGED lockVars
  BY <1>4 DEF lockVars, mutexVars, vars
<1> QED
  BY <1>1, <1>2, <1>3, <1>4 DEF LocksNext, NestNext

(* NestLock implements GompMutex: whatever kind of lock the mutex is in,   *)
(* it is used as gomp_mutex_lock and gomp_mutex_unlock want it.            *)
THEOREM LocksUseTheMutex == LocksSpec => Spec
<1>1. LocksInit => Init
  BY DEF LocksInit
<1> QED
  BY <1>1, MutexStep, PTL DEF LocksSpec, Spec

-----------------------------------------------------------------------------

LEMMA NestStepPreservesNestInv == NestInv /\ [LocksNext]_lockVars => NestInv'
<1> SUFFICES ASSUME NestInv, [LocksNext]_lockVars
             PROVE  NestInv'
  OBVIOUS
<1> USE NoneAssumption, MaxDepthAssumption
<1>a. IInv'
  BY MutexStep, StepPreservesIInv DEF NestInv
<1>b. IInv /\ NestTypeOK /\ OwnerInside /\ MutexHeld
  BY DEF NestInv
<1>c. \A t \in Threads : pc[t] \in Places
  BY <1>b DEF IInv, TypeOK
<1> SUFFICES NestTypeOK' /\ OwnerInside' /\ MutexHeld'
  BY <1>a DEF NestInv
<1>1. CASE SimpleNext /\ UNCHANGED kind
  BY <1>1, <1>b DEF SimpleNext, nestVars, NestTypeOK, OwnerInside, MutexHeld
<1>2. CASE UNCHANGED lockVars
  BY <1>2, <1>b DEF lockVars, mutexVars, nestVars, NestTypeOK, OwnerInside, MutexHeld
<1>3. ASSUME NEW t \in Threads, kind # "simple", UNCHANGED kind,
             CallSet(t) \/ CallTest(t) \/ Unset(t)
      PROVE  NestTypeOK' /\ OwnerInside' /\ MutexHeld'
  BY <1>3, <1>b DEF CallSet, CallTest, Unset, Move, mutexVars,
     NestTypeOK, OwnerInside, MutexHeld, NestPlaces, Places_30, Places_25
<1>4. ASSUME NEW t \in Threads, kind # "simple", UNCHANGED kind,
             ReadOwner(t) \/ TestOwner(t) \/ ClearOwner(t)
      PROVE  NestTypeOK' /\ OwnerInside' /\ MutexHeld'
  BY <1>4, <1>b DEF ReadOwner, TestOwner, ClearOwner, EnterAgain, Lock, Goto, Move, mutexVars,
     NestTypeOK, OwnerInside, MutexHeld, NestPlaces, Places_30, Places_25, IInv, TypeOK
<1>5. ASSUME NEW t \in Threads, kind # "simple", UNCHANGED kind,
             BecomeOwner(t) \/ BecomeTestOwner(t)
      PROVE  NestTypeOK' /\ OwnerInside' /\ MutexHeld'
  <2>1. kind = "nest"
    BY <1>5, <1>b DEF BecomeOwner, BecomeTestOwner, MutexHeld, Places_30
  <2>2. pc[t] = "cs" /\ at[t] \in {"lock", "own"} /\ owner # t
    BY <1>5, <1>b, <2>1 DEF BecomeOwner, BecomeTestOwner, MutexHeld, OwnerInside
  <2>3. owner = None /\ count = 0
    BY <1>b, <2>1, <2>2 DEF IInv, MutualExclusion, MutexHeld, OwnerInside, NestTypeOK
  <2>4. owner' = t /\ count' = 1 /\ at' = [at EXCEPT ![t] = "in"] /\ UNCHANGED <<word, pc, seen>>
    BY <1>5, <2>3 DEF BecomeOwner, BecomeTestOwner, EnterAgain, Move, mutexVars
  <2>5. \A u \in Threads : u # t => at[u] \notin {"in", "clear"} /\ owner # u
    BY <1>b, <2>3 DEF OwnerInside
  <2>6. \A u \in Threads : u # t => pc[u] # "cs"
    BY <1>b, <2>2 DEF IInv, MutualExclusion
  <2> QED
    BY <1>5, <1>b, <2>1, <2>2, <2>4, <2>5, <2>6
       DEF NestTypeOK, OwnerInside, MutexHeld, NestPlaces, Places_30, Places_25
<1>6. ASSUME NEW t \in Threads, kind # "simple", UNCHANGED kind, Locking(t)
      PROVE  NestTypeOK' /\ OwnerInside' /\ MutexHeld'
  <2>1. kind = "nest" /\ at[t] = "lock" /\ owner # t /\ pc[t] # "cs"
    BY <1>6, <1>b DEF Locking, MutexHeld, OwnerInside, Places_30, CompareExchange, SpinTimeout,
       SpinChanged, SetWaitFlag, ExchangeLoop, DoWaitChanged, DoWaitTimeout, FutexWait
  <2>2. UNCHANGED nestVars /\ \A u \in Threads : u # t => pc'[u] = pc[u]
    BY <1>6, <1>b DEF Locking, IInv, TypeOK, Goto, CompareExchange, SpinTimeout,
       SpinChanged, SetWaitFlag, ExchangeLoop, DoWaitChanged, DoWaitTimeout, FutexWait
  <2> QED
    BY <1>6, <1>b, <2>1, <2>2 DEF nestVars, NestTypeOK, OwnerInside, MutexHeld
<1>7. ASSUME NEW t \in Threads, kind # "simple", UNCHANGED kind, TryMutex(t)
      PROVE  NestTypeOK' /\ OwnerInside' /\ MutexHeld'
  <2>1. kind = "nest" /\ at[t] = "try" /\ owner # t /\ pc[t] = "idle"
    BY <1>7, <1>b DEF TryMutex, MutexHeld, OwnerInside, Places_30
  <2>2. CASE TestLock(t) /\ Move(t, "own")
    BY <1>7, <1>b, <2>1, <2>2 DEF TryMutex, TestLock, Goto, Move, IInv, TypeOK,
       NestTypeOK, OwnerInside, MutexHeld, NestPlaces, Places_30, Places_25
  <2>3. CASE Move(t, "out") /\ UNCHANGED mutexVars
    BY <1>7, <1>b, <2>1, <2>3 DEF TryMutex, Move, mutexVars,
       NestTypeOK, OwnerInside, MutexHeld, NestPlaces, Places_30, Places_25
  <2> QED
    BY <1>7, <2>2, <2>3 DEF TryMutex
<1>8. ASSUME NEW t \in Threads, kind # "simple", UNCHANGED kind, Unlocking(t)
      PROVE  NestTypeOK' /\ OwnerInside' /\ MutexHeld'
  <2>1. kind = "nest" /\ at[t] = "unlock" /\ owner # t
    BY <1>8, <1>b DEF Unlocking, MutexHeld, OwnerInside, Places_30
  <2>2. UNCHANGED <<owner, count, seen>> /\ at' = [at EXCEPT ![t] = IF pc'[t] = "idle" THEN "out" ELSE "unlock"]
    BY <1>8 DEF Unlocking, Move
  <2>3. pc'[t] \in {"idle", "wake"}
    BY <1>8, <1>b DEF Unlocking, Unlock, FutexWake, Goto, IInv, TypeOK
  <2>4. \A u \in Threads : u # t => pc'[u] = pc[u] \/ (pc[u] = "asleep" /\ pc'[u] = "xchg")
    BY <1>8, <1>b DEF Unlocking, Unlock, FutexWake, Goto, IInv, TypeOK
  <2> QED
    BY <1>8, <1>b, <2>1, <2>2, <2>3, <2>4
       DEF NestTypeOK, OwnerInside, MutexHeld, NestPlaces, Places_30, Places_25
<1>9. ASSUME NEW t \in Threads, kind # "simple", UNCHANGED kind, NestInterrupted(t)
      PROVE  NestTypeOK' /\ OwnerInside' /\ MutexHeld'
  BY <1>9, <1>b DEF NestInterrupted, Interrupted, Goto, Move, mutexVars, nestVars, IInv, TypeOK,
     NestTypeOK, OwnerInside, MutexHeld, NestPlaces, Places_30, Places_25
<1>10. ASSUME NEW t \in Threads, kind # "simple", UNCHANGED kind, CompareOwner_25(t)
       PROVE  NestTypeOK' /\ OwnerInside' /\ MutexHeld'
  BY <1>10, <1>b DEF CompareOwner_25, EnterAgain, Move, mutexVars,
     NestTypeOK, OwnerInside, MutexHeld, NestPlaces, Places_30, Places_25
<1>11. ASSUME NEW t \in Threads, kind # "simple", UNCHANGED kind,
              \/ SpinChanged_25(t) \/ SpinTimeout_25(t) \/ FutexWait_25(t)
              \/ ClearOwner_25(t) \/ FutexWake_25(t)
       PROVE  NestTypeOK' /\ OwnerInside' /\ MutexHeld'
  BY <1>11, <1>b DEF SpinChanged_25, SpinTimeout_25, FutexWait_25, ClearOwner_25, FutexWake_25,
     Move, mutexVars, NestTypeOK, OwnerInside, MutexHeld, NestPlaces, Places_30, Places_25
<1> QED
  BY <1>1, <1>2, <1>3, <1>4, <1>5, <1>6, <1>7, <1>8, <1>9, <1>10, <1>11
     DEF LocksNext, NestNext, NestStep

(* The owner of a nestable lock is the one its callers take for it, and of *)
(* a 3.0 lock it is also the one inside the mutex.                         *)
THEOREM NestInvariance == LocksSpec => []NestInv
<1>1. LocksInit => NestInv
  <2> SUFFICES ASSUME LocksInit PROVE NestInv
    OBVIOUS
  <2>1. IInv
    BY DEF LocksInit, Init, IInv, TypeOK, MutualExclusion, LockedIffHeld, Places
  <2> QED
    BY <2>1, NoneAssumption DEF LocksInit, Init, NestInv, NestTypeOK, OwnerInside, MutexHeld,
       NestPlaces, Places_30, Places_25
<1> QED
  BY <1>1, NestStepPreservesNestInv, PTL DEF LocksSpec

-----------------------------------------------------------------------------

LEMMA NobodyElse ==
  ASSUME NestInv, NEW t \in Threads,
         owner \in {t, None} \/ (kind = "nest" /\ pc[t] = "cs")
  PROVE  Nest!Enterable(t)
<1>1. \A u \in Threads : u # t => owner # u \/ count = 0
  <2>1. CASE owner \in {t, None}
    BY <2>1, NoneAssumption
  <2>2. CASE kind = "nest" /\ pc[t] = "cs"
    BY <2>2 DEF NestInv, MutexHeld, IInv, MutualExclusion
  <2> QED
    BY <2>1, <2>2
<1> QED
  BY <1>1 DEF Nest!Enterable, Depth

(* Every step of a nestable lock is a step of the abstract one under Depth *)
(* and Waiting, or leaves them unchanged.                                  *)
LEMMA StepImplementsNestLock == NestInv /\ [LocksNext]_lockVars => [Nest!Next]_(Nest!vars)
<1> SUFFICES ASSUME NestInv, [LocksNext]_lockVars
             PROVE  [Nest!Next]_(Nest!vars)
  OBVIOUS
<1> USE NoneAssumption, MaxDepthAssumption
<1>a. IInv /\ NestTypeOK /\ OwnerInside /\ MutexHeld
  BY DEF NestInv
<1>b. \A t \in Threads : pc[t] \in Places
  BY <1>a DEF IInv, TypeOK
<1>1. CASE SimpleNext \/ UNCHANGED lockVars
  BY <1>1 DEF SimpleNext, nestVars, lockVars, Nest!vars, Depth, Waiting
<1>2. ASSUME NEW t \in Threads, CallSet(t)
      PROVE  Nest!Request(t)
  BY <1>2, <1>a DEF CallSet, Move, NestTypeOK, Nest!Request, Depth, Waiting
<1>3. ASSUME NEW t \in Threads, CallTest(t)
      PROVE  UNCHANGED Nest!vars
  BY <1>3, <1>a DEF CallTest, Move, NestTypeOK, Nest!vars, Depth, Waiting
<1>4. ASSUME NEW t \in Threads, Unset(t)
      PROVE  Nest!Leave(t)
  <2>1. owner = t /\ count \in Nat \ {0} /\ Depth' = [Depth EXCEPT ![t] = count - 1]
    BY <1>4, <1>a DEF Unset, OwnerInside, NestTypeOK, Depth
  <2>2. UNCHANGED Waiting
    BY <1>4, <1>a DEF Unset, Move, NestTypeOK, Waiting
  <2> QED
    BY <2>1, <2>2 DEF Nest!Leave, Depth
<1>5. ASSUME NEW t \in Threads, at[t] \in {"set", "test"}, owner = t, UNCHANGED owner, EnterAgain(t)
      PROVE  Nest!Enter(t) \/ Nest!TryEnter(t)
  <2>1. Nest!Enterable(t)
    BY <1>5, NobodyElse
  <2>2. Depth' = [Depth EXCEPT ![t] = @ + 1]
    BY <1>5, <1>a DEF EnterAgain, Depth
  <2>3. Waiting' = Waiting \ {t}
    BY <1>5, <1>a DEF EnterAgain, Move, NestTypeOK, Waiting
  <2> QED
    BY <2>1, <2>2, <2>3 DEF Nest!Enter, Nest!TryEnter
<1>6. ASSUME NEW t \in Threads, owner' = t, count' = 1, Move(t, "in"),
             \/ at[t] \in {"lock", "own"} /\ pc[t] = "cs" /\ kind = "nest" /\ count = 0
             \/ at[t] \in {"set", "test"} /\ owner = None
      PROVE  Nest!Enter(t) \/ Nest!TryEnter(t)
  <2>1. Nest!Enterable(t)
    BY <1>6, NobodyElse
  <2>2. count = 0
    BY <1>6, <1>a DEF OwnerInside
  <2>3. Depth' = [Depth EXCEPT ![t] = @ + 1]
    BY <1>6, <2>2, <1>a DEF Depth
  <2>4. Waiting' = Waiting \ {t}
    BY <1>6, <1>a DEF Move, NestTypeOK, Waiting
  <2> QED
    BY <2>1, <2>3, <2>4 DEF Nest!Enter, Nest!TryEnter
<1>7. ASSUME NEW t \in Threads, ReadOwner(t) \/ TestOwner(t)
      PROVE  [Nest!Next]_(Nest!vars)
  <2>1. CASE owner = t
    BY <1>7, <2>1, <1>5 DEF ReadOwner, TestOwner, Nest!Next
  <2>2. CASE owner # t
    BY <1>7, <2>2, <1>a DEF ReadOwner, TestOwner, Move, NestTypeOK, Nest!vars, Depth, Waiting
  <2> QED
    BY <2>1, <2>2
<1>8. ASSUME NEW t \in Threads, BecomeOwner(t) \/ BecomeTestOwner(t)
      PROVE  [Nest!Next]_(Nest!vars)
  <2>1. kind = "nest" /\ pc[t] = "cs" /\ at[t] \in {"lock", "own"} /\ owner # t
    BY <1>8, <1>a DEF BecomeOwner, BecomeTestOwner, MutexHeld, OwnerInside, Places_30
  <2>2. owner = None /\ count = 0
    BY <1>a, <2>1 DEF IInv, MutualExclusion, MutexHeld, OwnerInside, NestTypeOK
  <2>3. owner' = t /\ count' = 1 /\ Move(t, "in")
    BY <1>8, <2>2 DEF BecomeOwner, BecomeTestOwner, EnterAgain
  <2> QED
    BY <1>6, <2>1, <2>2, <2>3 DEF Nest!Next
<1>9. ASSUME NEW t \in Threads, Locking(t)
      PROVE  UNCHANGED Nest!vars
  BY <1>9 DEF Locking, nestVars, Nest!vars, Depth, Waiting
<1>10. ASSUME NEW t \in Threads, TryMutex(t) \/ Unlocking(t) \/ NestInterrupted(t)
       PROVE  UNCHANGED Nest!vars
  BY <1>10, <1>a DEF TryMutex, Unlocking, NestInterrupted, Move, NestTypeOK, nestVars,
     Nest!vars, Depth, Waiting
<1>11. ASSUME NEW t \in Threads, ClearOwner(t) \/ ClearOwner_25(t)
       PROVE  UNCHANGED Nest!vars
  <2>1. owner = t /\ count = 0
    BY <1>11, <1>a DEF ClearOwner, ClearOwner_25, OwnerInside
  <2> QED
    BY <1>11, <2>1, <1>a DEF ClearOwner, ClearOwner_25, Move, NestTypeOK, Nest!vars, Depth, Waiting
<1>12. ASSUME NEW t \in Threads, CompareOwner_25(t)
       PROVE  [Nest!Next]_(Nest!vars)
  <2>1. CASE owner = None
    BY <1>6, <1>12, <2>1 DEF CompareOwner_25, Nest!Next
  <2>2. CASE owner = t
    BY <1>5, <1>12, <2>2 DEF CompareOwner_25, Nest!Next
  <2>3. CASE owner # None /\ owner # t
    BY <1>12, <2>3, <1>a DEF CompareOwner_25, Move, NestTypeOK, Nest!vars, Depth, Waiting
  <2> QED
    BY <2>1, <2>2, <2>3
<1>13. ASSUME NEW t \in Threads, SpinChanged_25(t) \/ SpinTimeout_25(t) \/ FutexWait_25(t) \/ FutexWake_25(t)
       PROVE  UNCHANGED Nest!vars
  BY <1>13, <1>a DEF SpinChanged_25, SpinTimeout_25, FutexWait_25, FutexWake_25, Move,
     NestTypeOK, Nest!vars, Depth, Waiting
<1> QED
  BY <1>1, <1>2, <1>3, <1>4, <1>7, <1>8, <1>9, <1>10, <1>11, <1>12, <1>13
     DEF LocksNext, NestNext, NestStep, Nest!Next

(* Both nestable locks implement the abstract one: nobody enters a lock    *)
(* that another holds, and the owner holds it for as many unsets as sets.  *)
THEOREM NestLockImplements == LocksSpec => ImplementsNestLock
<1>1. LocksInit => Nest!Init
  BY NoneAssumption DEF LocksInit, Nest!Init, Depth, Waiting
<1> QED
  BY <1>1, NestInvariance, StepImplementsNestLock, PTL
     DEF LocksSpec, ImplementsNestLock, Nest!Spec

-----------------------------------------------------------------------------
(* The constructs of the ARINC layer (ArincServices).                      *)

(* The places between the lock and the unlock of each mutex. *)
HoldsSingle(t)   == point[t] \in {"single_compare", "single_lost", "single_set", "single_won"}
HoldsCritical(t) == point[t] \in {"critical", "refuse_check", "refuse_exit", "refuse_return"}

(* A thread at such a place owns the mutex; one that is inside of a        *)
(* critical owns it also when it waits for it again.                       *)
Owners ==
  /\ \A t \in Members : HoldsSingle(t) => SINGLE_MUTEX = t
  /\ \A t \in Members : HoldsCritical(t) => CRITICAL_MUTEX = t
  /\ \A t \in Members :
       inside[t] => \/ point[t] \in {"critical", "refuse_lock"} /\ CRITICAL_MUTEX = t
                    \/ point[t] = "dead"

(* Of each of the two files: the refusal has begun if and only if its      *)
(* message has been printed.                                               *)
Message == \A c \in Refusable : messages[c] = IF END[c] THEN 1 ELSE 0

(* An exited process, and no other, has threads that are gone: all.        *)
Gone == \A t \in Members : point[t] = "dead" <=> exited

(* What a thread's own number of the construct says about the team's.      *)
Numbers ==
  \A t \in Members :
    /\ mine[t] + left[t] <= Bound
    /\ point[t] # "dead" /\ ~InSingle(t) => mine[t] <= single_count
    /\ point[t] \in {"single_lock", "single_compare"} => mine[t] \in 1 .. single_count + 1
    /\ point[t] = "single_lost" => mine[t] \in 1 .. single_count
    /\ point[t] = "single_set" => mine[t] = single_count + 1
    /\ point[t] = "single_won" => mine[t] = single_count /\ mine[t] > 0 /\ ran[mine[t] - 1] = 0

(* The constructs below the count have been run, except for the one whose  *)
(* winner still holds the mutex.                                           *)
Runs ==
  \A k \in 0 .. Bound :
    /\ ran[k] <= 1
    /\ k >= single_count => ran[k] = 0
    /\ k < single_count => \/ ran[k] = 1 \/ exited
                           \/ \E t \in Members : mine[t] = k + 1 /\ point[t] = "single_won"

ServicesIInv == ServicesTypeOK /\ Owners /\ Message /\ Gone /\ Numbers /\ Runs


(* Counting one more thread into a construct. *)
LEMMA Counted ==
  ASSUME NEW S, NEW f \in [S -> Nat], NEW i \in S
  PROVE  [f EXCEPT ![i] = @ + 1] \in [S -> Nat]
OBVIOUS

LEMMA InitServices == ServicesInit => ServicesIInv
<1> SUFFICES ASSUME ServicesInit
             PROVE  ServicesIInv
  OBVIOUS
<1> USE ConstructAssumption DEF ServicesInit
<1>1. ServicesTypeOK
  <2>1. /\ single_count \in 0 .. Bound /\ mine \in [Members -> 0 .. Bound]
        /\ ran \in [0 .. Bound -> Nat]
    OBVIOUS
  <2>2. /\ END \in [Refusable -> BOOLEAN] /\ exited \in BOOLEAN
        /\ inside \in [Members -> BOOLEAN]
    BY Zenon
  <2>3. /\ messages \in [Refusable -> Nat] /\ left \in [Members -> 0 .. Bound]
        /\ SINGLE_MUTEX \in Members \cup {"free"} /\ CRITICAL_MUTEX \in Members \cup {"free"}
    OBVIOUS
  <2>4. construct \in [Members -> {"none"} \cup Refusable] /\ point \in [Members -> Points]
    BY DEF Points
  <2> QED
    BY <2>1, <2>2, <2>3, <2>4, Zenon DEF ServicesTypeOK
<1>2. Owners /\ Message /\ Gone
  BY DEF Owners, Message, Gone, HoldsSingle, HoldsCritical
<1>3. Numbers
  BY DEF Numbers, InSingle
<1>4. Runs
  BY DEF Runs
<1> QED
  BY <1>1, <1>2, <1>3, <1>4 DEF ServicesIInv

LEMMA StepPreservesServices == ServicesIInv /\ [ServicesNext]_servicesVars => ServicesIInv'
<1> SUFFICES ASSUME ServicesIInv, [ServicesNext]_servicesVars
             PROVE  ServicesIInv'
  OBVIOUS
<1> USE MembersAssumption, ConstructAssumption DEF ServicesIInv, GoOn, singleVars, refusalVars
<1>1. ASSUME NEW t \in Members, SingleStart(t)
      PROVE  ServicesIInv'
  <2> USE <1>1 DEF SingleStart, Meets
  <2>1. ServicesTypeOK'
    <3>1. mine[t] + 1 \in 0 .. Bound /\ left[t] - 1 \in 0 .. Bound
      BY DEF ServicesTypeOK, Numbers
    <3>2. mine' \in [Members -> 0 .. Bound] /\ left' \in [Members -> 0 .. Bound]
      BY <3>1 DEF ServicesTypeOK
    <3>3. point' \in [Members -> Points]
      BY DEF ServicesTypeOK, Points
    <3> QED
      BY <3>2, <3>3, Zenon DEF ServicesTypeOK
  <2>2. Owners'
    BY DEF ServicesTypeOK, Owners, HoldsSingle, HoldsCritical, Points
  <2>3. Message'
    BY DEF ServicesTypeOK, Message
  <2>4. Gone'
    BY DEF ServicesTypeOK, Gone
  <2>5. Numbers'
    <3>1. \A u \in Members :
            u # t => point'[u] = point[u] /\ mine'[u] = mine[u] /\ left'[u] = left[u]
      BY DEF ServicesTypeOK
    <3>2. /\ point'[t] = "single_lock" /\ mine'[t] = mine[t] + 1 /\ left'[t] = left[t] - 1
          /\ mine[t] <= single_count
      BY DEF ServicesTypeOK, Numbers, InSingle
    <3>3. /\ mine[t] \in Nat /\ left[t] \in Nat /\ single_count \in Nat
      BY DEF ServicesTypeOK
    <3> QED
      BY <3>1, <3>2, <3>3 DEF Numbers, InSingle
  <2>6. Runs'
    BY DEF ServicesTypeOK, Runs, Numbers, InSingle
  <2> QED
    BY <2>1, <2>2, <2>3, <2>4, <2>5, <2>6
<1>2. ASSUME NEW t \in Members, SingleLock(t)
      PROVE  ServicesIInv'
  <2> USE <1>2 DEF SingleLock
  <2>1. ServicesTypeOK'
    <3>1. point' \in [Members -> Points]
      BY DEF ServicesTypeOK, Points
    <3> QED
      BY <3>1 DEF ServicesTypeOK
  <2>2. Owners'
    BY DEF ServicesTypeOK, Owners, HoldsSingle, HoldsCritical, Points
  <2>3. Message'
    BY DEF ServicesTypeOK, Message
  <2>4. Gone'
    BY DEF ServicesTypeOK, Gone
  <2>5. Numbers'
    BY DEF ServicesTypeOK, Numbers, Owners, HoldsSingle, InSingle
  <2>6. Runs'
    BY DEF ServicesTypeOK, Runs, Numbers, InSingle
  <2> QED
    BY <2>1, <2>2, <2>3, <2>4, <2>5, <2>6
<1>3. ASSUME NEW t \in Members, SingleCompare(t)
      PROVE  ServicesIInv'
  <2> USE <1>3 DEF SingleCompare
  <2>1. ServicesTypeOK'
    BY DEF ServicesTypeOK, Numbers, Points
  <2>2. Owners'
    BY DEF ServicesTypeOK, Owners, HoldsSingle, HoldsCritical, Points
  <2>3. Message'
    BY DEF ServicesTypeOK, Message
  <2>4. Gone'
    BY DEF ServicesTypeOK, Gone
  <2>5. Numbers'
    <3>1. \A u \in Members : u # t => point'[u] = point[u]
      BY DEF ServicesTypeOK
    <3>2. /\ point[t] = "single_compare" /\ mine[t] \in 1 .. single_count + 1
          /\ mine[t] \in Nat /\ single_count \in Nat
      BY DEF ServicesTypeOK, Numbers
    <3>3. \/ point'[t] = "single_lost" /\ mine[t] \in 1 .. single_count
          \/ point'[t] = "single_set" /\ mine[t] = single_count + 1
      <4>1. point'[t] = IF single_count # mine[t] - 1 THEN "single_lost" ELSE "single_set"
        BY DEF ServicesTypeOK
      <4>2. CASE single_count = mine[t] - 1
        BY <3>2, <4>1, <4>2
      <4>3. CASE single_count # mine[t] - 1
        BY <3>2, <4>1, <4>3
      <4> QED
        BY <4>2, <4>3
    <3> QED
      BY <3>1, <3>3 DEF Numbers, InSingle
  <2>6. Runs'
    BY DEF ServicesTypeOK, Runs, Numbers, InSingle
  <2> QED
    BY <2>1, <2>2, <2>3, <2>4, <2>5, <2>6
<1>4. ASSUME NEW t \in Members, SingleSet(t)
      PROVE  ServicesIInv'
  <2> USE <1>4 DEF SingleSet
  <2>1. ServicesTypeOK'
    <3>1. single_count' \in 0 .. Bound
      BY DEF ServicesTypeOK, Numbers
    <3>2. point' \in [Members -> Points]
      BY DEF ServicesTypeOK, Points
    <3> QED
      BY <3>1, <3>2 DEF ServicesTypeOK
  <2>2. Owners'
    BY DEF ServicesTypeOK, Owners, HoldsSingle, HoldsCritical, Points
  <2>3. Message'
    BY DEF ServicesTypeOK, Message
  <2>4. Gone'
    BY DEF ServicesTypeOK, Gone
  <2>5. Numbers'
    <3>1. \A u \in Members : u # t => ~HoldsSingle(u) /\ point'[u] = point[u]
      BY DEF ServicesTypeOK, Owners, HoldsSingle
    <3>2. mine[t] = single_count + 1 /\ ran[mine[t] - 1] = 0 /\ point'[t] = "single_won"
      <4>1. /\ mine[t] = single_count + 1 /\ mine[t] \in 0 .. Bound /\ single_count \in Nat
            /\ point'[t] = "single_won"
        BY DEF ServicesTypeOK, Numbers
      <4>2. mine[t] - 1 = single_count /\ single_count \in 0 .. Bound
        BY <4>1
      <4>3. ran[single_count] = 0
        BY <4>2 DEF Runs
      <4> QED
        BY <4>1, <4>2, <4>3
    <3>3. single_count \in Nat /\ \A u \in Members : mine[u] \in Nat
      BY DEF ServicesTypeOK
    <3> QED
      BY <3>1, <3>2, <3>3 DEF Numbers, HoldsSingle, InSingle
  <2>6. Runs'
    <3>1. mine[t] = single_count + 1 /\ point'[t] = "single_won"
      BY DEF ServicesTypeOK, Numbers
    <3>2. \A u \in Members : point[u] = "single_won" => point'[u] = "single_won"
      BY DEF ServicesTypeOK
    <3>3. single_count \in Nat /\ Bound \in Nat /\ single_count' = single_count + 1
      BY <3>1 DEF ServicesTypeOK
    <3>4. ASSUME NEW k \in 0 .. Bound, k < single_count'
          PROVE  \/ ran[k] = 1 \/ exited
                 \/ \E u \in Members : mine[u] = k + 1 /\ point'[u] = "single_won"
      <4>1. CASE k = single_count
        BY <3>1, <4>1
      <4>2. CASE k < single_count
        BY <3>2, <4>2 DEF Runs
      <4> QED
        BY <3>3, <3>4, <4>1, <4>2
    <3>5. \A k \in 0 .. Bound : ran[k] <= 1 /\ (k >= single_count' => ran[k] = 0)
      BY <3>3 DEF Runs
    <3> QED
      BY <3>4, <3>5 DEF Runs
  <2> QED
    BY <2>1, <2>2, <2>3, <2>4, <2>5, <2>6
<1>5. ASSUME NEW t \in Members, SingleUnlock(t)
      PROVE  ServicesIInv'
  <2> USE <1>5 DEF SingleUnlock
  <2>1. ServicesTypeOK'
    <3>1. ran' \in [0 .. Bound -> Nat]
      <4>1. CASE point[t] = "single_won"
        <5>1. mine[t] \in 0 .. Bound /\ mine[t] > 0
          BY <4>1 DEF ServicesTypeOK, Numbers
        <5>2. mine[t] - 1 \in 0 .. Bound
          BY <5>1
        <5>3. ran' = [ran EXCEPT ![mine[t] - 1] = @ + 1] /\ ran \in [0 .. Bound -> Nat]
          BY <4>1 DEF ServicesTypeOK
        <5> QED
          BY <5>2, <5>3, Counted
      <4>2. CASE point[t] # "single_won"
        BY <4>2 DEF ServicesTypeOK
      <4> QED
        BY <4>1, <4>2
    <3>2. point' \in [Members -> Points]
      BY DEF ServicesTypeOK, Points
    <3> QED
      BY <3>1, <3>2, Zenon DEF ServicesTypeOK
  <2>2. Owners'
    BY DEF ServicesTypeOK, Owners, HoldsSingle, HoldsCritical, Points
  <2>3. Message'
    BY DEF ServicesTypeOK, Message
  <2>4. Gone'
    BY DEF ServicesTypeOK, Gone
  <2>5. Numbers'
    <3>1. \A u \in Members : u # t => point[u] # "single_won" /\ point'[u] = point[u]
      BY DEF ServicesTypeOK, Owners, HoldsSingle
    <3>2. point'[t] = "run" /\ mine[t] <= single_count
      BY DEF ServicesTypeOK, Numbers
    <3> QED
      BY <3>1, <3>2 DEF Numbers, InSingle
  <2>6. Runs'
    <3>1. \A u \in Members : u # t => point[u] # "single_won" /\ point'[u] = point[u]
      BY DEF ServicesTypeOK, Owners, HoldsSingle
    <3>2. CASE point[t] = "single_won"
      <4>1. /\ mine[t] = single_count /\ mine[t] > 0 /\ mine[t] \in 0 .. Bound
            /\ ran[mine[t] - 1] = 0
        BY <3>2 DEF ServicesTypeOK, Numbers
      <4>2. mine[t] - 1 \in 0 .. Bound
        BY <4>1
      <4>3. \A k \in 0 .. Bound : ran'[k] = IF k = mine[t] - 1 THEN 1 ELSE ran[k]
        BY <3>2, <4>1, <4>2 DEF ServicesTypeOK
      <4>4. ASSUME NEW k \in 0 .. Bound, k < single_count, k # mine[t] - 1
            PROVE  ran[k] = 1 \/ exited
        <5>1. ~ \E u \in Members : mine[u] = k + 1 /\ point[u] = "single_won"
          BY <3>1, <4>1, <4>4
        <5> QED
          BY <4>4, <5>1 DEF Runs
      <4>5. single_count \in Nat /\ mine[t] - 1 < single_count
        BY <4>1 DEF ServicesTypeOK
      <4>6. \A k \in 0 .. Bound : ran'[k] <= 1 /\ (k >= single_count => ran'[k] = 0)
        BY <4>3, <4>5 DEF Runs
      <4>7. \A k \in 0 .. Bound : k < single_count => ran'[k] = 1 \/ exited
        BY <4>3, <4>4
      <4> QED
        BY <4>6, <4>7 DEF Runs
    <3>3. CASE point[t] = "single_lost"
      <4>1. ran' = ran /\ \A u \in Members : point[u] # "single_won"
        BY <3>1, <3>3
      <4> QED
        BY <4>1 DEF Runs
    <3> QED
      BY <3>2, <3>3
  <2> QED
    BY <2>1, <2>2, <2>3, <2>4, <2>5, <2>6
<1>6. ASSUME NEW t \in Members, CriticalStart(t)
      PROVE  ServicesIInv'
  <2> USE <1>6 DEF CriticalStart, Meets
  <2>1. ServicesTypeOK'
    <3>1. left' \in [Members -> 0 .. Bound]
      BY DEF ServicesTypeOK
    <3>2. point' \in [Members -> Points]
      BY DEF ServicesTypeOK, Points
    <3> QED
      BY <3>1, <3>2 DEF ServicesTypeOK
  <2>2. Owners'
    BY DEF ServicesTypeOK, Owners, HoldsSingle, HoldsCritical, Points
  <2>3. Message'
    BY DEF ServicesTypeOK, Message
  <2>4. Gone'
    BY DEF ServicesTypeOK, Gone
  <2>5. Numbers'
    <3>1. \A u \in Members : u # t => point'[u] = point[u] /\ left'[u] = left[u]
      BY DEF ServicesTypeOK
    <3>2. /\ point[t] = "run" /\ point'[t] = "critical_lock" /\ left'[t] = left[t] - 1
          /\ mine[t] \in Nat /\ left[t] \in Nat
      BY DEF ServicesTypeOK
    <3> QED
      BY <3>1, <3>2 DEF Numbers, InSingle
  <2>6. Runs'
    BY DEF ServicesTypeOK, Runs, Numbers, InSingle
  <2> QED
    BY <2>1, <2>2, <2>3, <2>4, <2>5, <2>6
<1>7. ASSUME NEW t \in Members, CriticalLock(t)
      PROVE  ServicesIInv'
  <2> USE <1>7 DEF CriticalLock
  <2>1. ServicesTypeOK'
    <3>1. inside' \in [Members -> BOOLEAN]
      BY DEF ServicesTypeOK
    <3>2. point' \in [Members -> Points]
      BY DEF ServicesTypeOK, Points
    <3> QED
      BY <3>1, <3>2 DEF ServicesTypeOK
  <2>2. Owners'
    BY DEF ServicesTypeOK, Owners, HoldsSingle, HoldsCritical, Points
  <2>3. Message'
    BY DEF ServicesTypeOK, Message
  <2>4. Gone'
    BY DEF ServicesTypeOK, Gone
  <2>5. Numbers'
    BY DEF ServicesTypeOK, Numbers, Owners, HoldsSingle, InSingle
  <2>6. Runs'
    BY DEF ServicesTypeOK, Runs, Numbers, InSingle
  <2> QED
    BY <2>1, <2>2, <2>3, <2>4, <2>5, <2>6
<1>8. ASSUME NEW t \in Members, CriticalEnd(t)
      PROVE  ServicesIInv'
  <2> USE <1>8 DEF CriticalEnd
  <2>1. ServicesTypeOK'
    <3>1. inside' \in [Members -> BOOLEAN]
      BY DEF ServicesTypeOK
    <3>2. point' \in [Members -> Points]
      BY DEF ServicesTypeOK, Points
    <3> QED
      BY <3>1, <3>2 DEF ServicesTypeOK
  <2>2. Owners'
    BY DEF ServicesTypeOK, Owners, HoldsSingle, HoldsCritical, Points
  <2>3. Message'
    BY DEF ServicesTypeOK, Message
  <2>4. Gone'
    BY DEF ServicesTypeOK, Gone
  <2>5. Numbers'
    BY DEF ServicesTypeOK, Numbers, Owners, HoldsSingle, InSingle
  <2>6. Runs'
    BY DEF ServicesTypeOK, Runs, Numbers, InSingle
  <2> QED
    BY <2>1, <2>2, <2>3, <2>4, <2>5, <2>6
<1>9. ASSUME NEW t \in Members, Refused(t)
      PROVE  ServicesIInv'
  <2> USE <1>9 DEF Refused, Meets
  <2>1. ServicesTypeOK'
    <3>1. PICK c \in Refusable :
            /\ Meets(t, c) \/ UNCHANGED left
            /\ construct' = [construct EXCEPT ![t] = c]
      BY Zenon
    <3>2. left' \in [Members -> 0 .. Bound]
      BY <3>1 DEF ServicesTypeOK
    <3>3. construct' \in [Members -> {"none"} \cup Refusable]
      BY <3>1 DEF ServicesTypeOK
    <3>4. point' \in [Members -> Points]
      BY DEF ServicesTypeOK, Points
    <3> QED
      BY <3>2, <3>3, <3>4 DEF ServicesTypeOK
  <2>2. Owners'
    BY DEF ServicesTypeOK, Owners, HoldsSingle, HoldsCritical, Points
  <2>3. Message'
    BY DEF ServicesTypeOK, Message
  <2>4. Gone'
    BY DEF ServicesTypeOK, Gone
  <2>5. Numbers'
    <3>1. /\ \A u \in Members : u # t => point'[u] = point[u] /\ left'[u] = left[u]
          /\ left'[t] \in {left[t], left[t] - 1}
      BY DEF ServicesTypeOK
    <3>2. /\ point[t] \in {"run", "critical"} /\ point'[t] = "refuse_lock"
          /\ mine[t] \in Nat /\ left[t] \in Nat
      BY DEF ServicesTypeOK
    <3> QED
      BY <3>1, <3>2 DEF Numbers, InSingle
  <2>6. Runs'
    BY DEF ServicesTypeOK, Runs, Numbers, InSingle
  <2> QED
    BY <2>1, <2>2, <2>3, <2>4, <2>5, <2>6
<1>10. ASSUME NEW t \in Members, RefuseLock(t)
      PROVE  ServicesIInv'
  <2> USE <1>10 DEF RefuseLock
  <2>1. ServicesTypeOK'
    BY DEF ServicesTypeOK, Numbers, Points
  <2>2. Owners'
    BY DEF ServicesTypeOK, Owners, HoldsSingle, HoldsCritical, Points
  <2>3. Message'
    BY DEF ServicesTypeOK, Message
  <2>4. Gone'
    BY DEF ServicesTypeOK, Gone
  <2>5. Numbers'
    BY DEF ServicesTypeOK, Numbers, Owners, HoldsSingle, InSingle
  <2>6. Runs'
    BY DEF ServicesTypeOK, Runs, Numbers, InSingle
  <2> QED
    BY <2>1, <2>2, <2>3, <2>4, <2>5, <2>6
<1>11. ASSUME NEW t \in Members, RefuseCheck(t)
      PROVE  ServicesIInv'
  <2> USE <1>11 DEF RefuseCheck
  <2>1. ServicesTypeOK'
    <3>1. END' \in [Refusable -> BOOLEAN]
      BY DEF ServicesTypeOK
    <3>2. messages' \in [Refusable -> Nat]
      <4>1. /\ messages \in [Refusable -> Nat]
            /\ \/ messages' = messages
               \/ messages' = [messages EXCEPT ![construct[t]] = @ + 1]
        BY Zenon DEF ServicesTypeOK
      <4> QED
        BY <4>1
    <3>3. point' \in [Members -> Points]
      BY DEF ServicesTypeOK, Points
    <3> QED
      BY <3>1, <3>2, <3>3, Zenon DEF ServicesTypeOK
  <2>2. Owners'
    BY DEF ServicesTypeOK, Owners, HoldsSingle, HoldsCritical, Points
  <2>3. Message'
    <3>1. CASE END[construct[t]]
      BY <3>1 DEF Message
    <3>2. CASE ~END[construct[t]]
      <4>1. /\ END' = [END EXCEPT ![construct[t]] = TRUE]
            /\ messages' = [messages EXCEPT ![construct[t]] = @ + 1]
        BY <3>2, Zenon
      <4>2. /\ END \in [Refusable -> BOOLEAN] /\ messages \in [Refusable -> Nat]
            /\ construct[t] \in Refusable => messages[construct[t]] = 0
        BY <3>2 DEF ServicesTypeOK, Message
      <4>3. ASSUME NEW c \in Refusable
            PROVE  messages'[c] = IF END'[c] THEN 1 ELSE 0
        <5>1. CASE c = construct[t]
          BY <4>1, <4>2, <5>1
        <5>2. CASE c # construct[t]
          <6>1. messages'[c] = messages[c]
            BY <4>1, <4>2, <5>2
          <6>2. END'[c] = END[c]
            BY <4>1, <4>2, <5>2
          <6> QED
            BY <6>1, <6>2 DEF Message
        <5> QED
          BY <5>1, <5>2
      <4> QED
        BY <4>3 DEF Message
    <3> QED
      BY <3>1, <3>2
  <2>4. Gone'
    BY DEF ServicesTypeOK, Gone
  <2>5. Numbers'
    <3>1. /\ \A u \in Members : u # t => point'[u] = point[u]
          /\ point[t] = "refuse_check" /\ point'[t] \in {"refuse_return", "refuse_exit"}
      BY DEF ServicesTypeOK
    <3> QED
      BY <3>1 DEF Numbers, InSingle
  <2>6. Runs'
    <3>1. \A u \in Members : point[u] = "single_won" => point'[u] = "single_won"
      BY DEF ServicesTypeOK
    <3> QED
      BY <3>1 DEF Runs
  <2> QED
    BY <2>1, <2>2, <2>3, <2>4, <2>5, <2>6
<1>12. ASSUME NEW t \in Members, RefuseUnlock(t)
      PROVE  ServicesIInv'
  <2> USE <1>12 DEF RefuseUnlock, Home
  <2>1. ServicesTypeOK'
    <3>1. point' \in [Members -> Points]
      BY DEF ServicesTypeOK, Points
    <3> QED
      BY <3>1 DEF ServicesTypeOK
  <2>2. Owners'
    BY DEF ServicesTypeOK, Owners, HoldsSingle, HoldsCritical, Points
  <2>3. Message'
    BY DEF ServicesTypeOK, Message
  <2>4. Gone'
    BY DEF ServicesTypeOK, Gone
  <2>5. Numbers'
    BY DEF ServicesTypeOK, Numbers, Owners, HoldsSingle, InSingle
  <2>6. Runs'
    BY DEF ServicesTypeOK, Runs, Numbers, InSingle
  <2> QED
    BY <2>1, <2>2, <2>3, <2>4, <2>5, <2>6
<1>13. ASSUME NEW t \in Members, TargetRegion(t)
      PROVE  ServicesIInv'
  <2> USE <1>13 DEF TargetRegion, Home
  <2>1. ServicesTypeOK'
    BY DEF ServicesTypeOK, Numbers, Points
  <2>2. Owners'
    BY DEF ServicesTypeOK, Owners, HoldsSingle, HoldsCritical, Points
  <2>3. Message'
    BY DEF ServicesTypeOK, Message
  <2>4. Gone'
    BY DEF ServicesTypeOK, Gone
  <2>5. Numbers'
    BY DEF ServicesTypeOK, Numbers, Owners, HoldsSingle, InSingle
  <2>6. Runs'
    BY DEF ServicesTypeOK, Runs, Numbers, InSingle
  <2> QED
    BY <2>1, <2>2, <2>3, <2>4, <2>5, <2>6
<1>14. ASSUME NEW t \in Members, Exit(t)
      PROVE  ServicesIInv'
  <2> USE <1>14 DEF Exit
  <2>1. ServicesTypeOK'
    BY DEF ServicesTypeOK, Numbers, Points
  <2>2. Owners'
    BY DEF ServicesTypeOK, Owners, HoldsSingle, HoldsCritical, Points
  <2>3. Message'
    BY DEF ServicesTypeOK, Message
  <2>4. Gone'
    BY DEF ServicesTypeOK, Gone
  <2>5. Numbers'
    BY DEF ServicesTypeOK, Numbers, Owners, HoldsSingle, InSingle
  <2>6. Runs'
    BY DEF ServicesTypeOK, Runs, Numbers, InSingle
  <2> QED
    BY <2>1, <2>2, <2>3, <2>4, <2>5, <2>6
<1>15. CASE UNCHANGED servicesVars
  <2> USE <1>15 DEF servicesVars
  <2>1. ServicesTypeOK'
    BY DEF ServicesTypeOK
  <2>2. Owners' /\ Message' /\ Gone'
    BY DEF Owners, HoldsSingle, HoldsCritical, Message, Gone
  <2>3. Numbers' /\ Runs'
    BY DEF Numbers, InSingle, Runs
  <2> QED
    BY <2>1, <2>2, <2>3
<1> QED
  BY <1>1, <1>2, <1>3, <1>4, <1>5, <1>6, <1>7, <1>8, <1>9, <1>10, <1>11, <1>12, <1>13, <1>14, <1>15
     DEF ServicesNext, Proceed, Program

(* The state stays well-typed and the numbers of the constructs agree.     *)
THEOREM ServicesInvariance == ServicesSpec => []ServicesIInv
  BY InitServices, StepPreservesServices, PTL DEF ServicesSpec

(* GOMP_single_start lets one thread into each single construct, however   *)
(* far the threads of the team are apart: nobody a second time, and nobody *)
(* gets past a construct that no thread has been let into.                 *)
THEOREM SinglesRunOnce == ServicesSpec => []SingleOnce
<1>1. ServicesIInv => SingleOnce
  <2> SUFFICES ASSUME ServicesIInv
               PROVE  SingleOnce
    OBVIOUS
  <2>1. single_count \in Nat /\ \A t \in Members : mine[t] \in Nat
    BY ConstructAssumption DEF ServicesIInv, ServicesTypeOK
  <2>2. ASSUME NEW k \in 0 .. Bound, NEW t \in Members,
               mine[t] > k, ~(mine[t] = k + 1 /\ InSingle(t)), ~exited
        PROVE  k < single_count
    <3>1. point[t] # "dead" /\ mine[t] <= single_count + 1
      BY <2>1, <2>2 DEF ServicesIInv, Gone, Numbers, InSingle
    <3>2. ~InSingle(t) => mine[t] <= single_count
      BY <3>1 DEF ServicesIInv, Numbers
    <3> QED
      BY <2>1, <2>2, <3>1, <3>2
  <2> QED
    BY <2>1, <2>2 DEF ServicesIInv, Runs, SingleOnce
<1> QED
  BY <1>1, ServicesInvariance, PTL

(* CRITICAL_MUTEX keeps critical constructs and the refusal of task and    *)
(* target apart.                                                           *)
THEOREM CriticalsExclude == ServicesSpec => []CriticalExclusive
<1>1. ServicesIInv => CriticalExclusive
  BY DEF ServicesIInv, Owners, HoldsCritical, CriticalExclusive
<1> QED
  BY <1>1, ServicesInvariance, PTL

(* GOMP_task prints one message and GOMP_target prints one, whoever meets  *)
(* them; that each prints its own is not excluded.                         *)
THEOREM OneRefusalMessage == ServicesSpec => []OneMessage
<1>1. ServicesIInv => OneMessage
  BY DEF ServicesIInv, Message, OneMessage
<1> QED
  BY <1>1, ServicesInvariance, PTL

-----------------------------------------------------------------------------
(* The semaphore, a part of the library of its own (S) that shares the     *)
(* threads with the locks.  It forgets no sleeper, leaves no post beside a *)
(* sleeper and implements AbstractSemaphore, for every set of threads.     *)

CONSTANT MaxCount

VARIABLES sem, local, place

S == INSTANCE GompSem WITH pc <- place

(* What a thread's copy of the word holds where it is compared with.       *)
SemCopies ==
  \A t \in Threads :
    /\ place[t] = "fast" => local[t].count # 0
    /\ place[t] = "take" => local[t].count # 0 /\ ~local[t].wait
    /\ place[t] \in {"first", "flag"} => local[t] = S!Zero

SemInv == S!TypeOK /\ SemCopies

(* Taking one, and posting one, makes a word of a word.                    *)
LEMMA WordsChange ==
  ASSUME NEW w \in S!Words, NEW b \in BOOLEAN
  PROVE  /\ w = [count |-> w.count, wait |-> w.wait] /\ w.count \in Nat
         /\ w.count # 0 => [w EXCEPT !.count = @ - 1] \in S!Words
         /\ w.count # 0 => [count |-> w.count - 1, wait |-> b] \in S!Words
         /\ [count |-> w.count + 1, wait |-> b] \in S!Words
  BY DEF S!Words

(* A compare and swap keeps the invariant if it writes a word, and if the  *)
(* word it has seen suits the place to which a failure leads.              *)
LEMMA SwapPreservesSemInv ==
  ASSUME SemInv, NEW t \in Threads, NEW new,
         NEW next \in {"idle", "fwait", "more", "spin", "wake"},
         NEW again \in {"fast", "first", "look", "loop", "post"},
         sem = local[t] => new \in S!Words,
         again = "fast" => sem.count # 0,
         again = "first" => sem = S!Zero,
         S!Swap(t, new, next, again)
  PROVE  SemInv'
<1> USE DEF S!Goto, S!Load
<1>1. CASE sem = local[t]
  <2>1. sem' = new /\ place' = [place EXCEPT ![t] = next] /\ local' = local
    BY <1>1 DEF S!Swap
  <2>2. S!TypeOK'
    BY <1>1, <2>1 DEF SemInv, S!TypeOK, S!Places
  <2>3. SemCopies'
    BY <2>1 DEF SemInv, S!TypeOK, SemCopies, S!Places
  <2> QED
    BY <2>2, <2>3 DEF SemInv
<1>2. CASE sem # local[t]
  <2>1. sem' = sem /\ place' = [place EXCEPT ![t] = again] /\ local' = [local EXCEPT ![t] = sem]
    BY <1>2 DEF S!Swap
  <2>2. S!TypeOK'
    BY <2>1 DEF SemInv, S!TypeOK, S!Places
  <2>3. SemCopies'
    <3>1. /\ place'[t] = again /\ local'[t] = sem
          /\ \A u \in Threads : u # t => place'[u] = place[u] /\ local'[u] = local[u]
      BY <2>1 DEF SemInv, S!TypeOK
    <3> QED
      BY <3>1 DEF SemInv, SemCopies
  <2> QED
    BY <2>2, <2>3 DEF SemInv
<1> QED
  BY <1>1, <1>2

LEMMA StepPreservesSemInv ==
  SemInv /\ [S!Next]_(S!vars) => SemInv'
<1> SUFFICES ASSUME SemInv, [S!Next]_(S!vars)
             PROVE  SemInv'
  OBVIOUS
<1> USE DEF SemInv, S!TypeOK, SemCopies, S!Places, S!Words, S!Zero, S!SEM_WAIT,
           S!Goto, S!Slow, S!FastOrSlow
<1>1. ASSUME NEW t \in Threads, S!Wait(t)
      PROVE  SemInv'
  BY <1>1 DEF S!Wait, S!Load
<1>2. ASSUME NEW t \in Threads, S!Post(t)
      PROVE  SemInv'
  BY <1>2 DEF S!Post, S!Load
<1>3. ASSUME NEW t \in Threads, S!FastTake(t)
      PROVE  SemInv'
  <2>1. sem = local[t] => [sem EXCEPT !.count = @ - 1] \in S!Words
    BY <1>3, WordsChange DEF S!FastTake
  <2> QED
    BY <1>3, <2>1, SwapPreservesSemInv DEF S!FastTake
<1>4. ASSUME NEW t \in Threads, S!Spurious(t)
      PROVE  SemInv'
  BY <1>4 DEF S!Spurious, S!vars
<1>5. ASSUME NEW t \in Threads, S!SpinTimeout(t)
      PROVE  SemInv'
  BY <1>5 DEF S!SpinTimeout
<1>6. ASSUME NEW t \in Threads, S!SpinChanged(t)
      PROVE  SemInv'
  BY <1>6 DEF S!SpinChanged
<1>7. ASSUME NEW t \in Threads, S!SetFlag(t)
      PROVE  SemInv'
  <2>1. S!SEM_WAIT \in S!Words
    OBVIOUS
  <2> QED
    BY <1>7, <2>1, SwapPreservesSemInv DEF S!SetFlag
<1>8. ASSUME NEW t \in Threads, S!Look(t)
      PROVE  SemInv'
  BY <1>8 DEF S!Look, S!Load
<1>9. ASSUME NEW t \in Threads, S!Take(t)
      PROVE  SemInv'
  <2>1. sem = local[t] => [sem EXCEPT !.count = @ - 1] \in S!Words
    BY <1>9, WordsChange DEF S!Take
  <2> QED
    BY <1>9, <2>1, SwapPreservesSemInv DEF S!Take
<1>10. ASSUME NEW t \in Threads, S!LoopSwap(t)
       PROVE  SemInv'
  <2>1. CASE local[t].count # 0
    <3>1. ASSUME sem = local[t]
          PROVE  [count |-> sem.count - 1, wait |-> TRUE] \in S!Words
      <4>1. sem \in S!Words /\ sem.count # 0
        BY <2>1, <3>1
      <4> QED
        BY <4>1, WordsChange
    <3> QED
      BY <1>10, <2>1, <3>1, SwapPreservesSemInv DEF S!LoopSwap
  <2>2. CASE local[t].count = 0
    <3>1. S!SEM_WAIT \in S!Words
      OBVIOUS
    <3> QED
      BY <1>10, <2>2, <3>1, SwapPreservesSemInv DEF S!LoopSwap
  <2> QED
    BY <2>1, <2>2
<1>11. ASSUME NEW t \in Threads, S!DoWaitTimeout(t)
       PROVE  SemInv'
  BY <1>11 DEF S!DoWaitTimeout
<1>12. ASSUME NEW t \in Threads, S!DoWaitChanged(t)
       PROVE  SemInv'
  BY <1>12 DEF S!DoWaitChanged
<1>13. ASSUME NEW t \in Threads, S!FutexWait(t)
       PROVE  SemInv'
  BY <1>13 DEF S!FutexWait
<1>14. ASSUME NEW t \in Threads, S!Interrupted(t)
       PROVE  SemInv'
  BY <1>14 DEF S!Interrupted
<1>15. ASSUME NEW t \in Threads, S!Reload(t)
       PROVE  SemInv'
  BY <1>15 DEF S!Reload, S!Load
<1>16. ASSUME NEW t \in Threads, S!PostSwap(t)
       PROVE  SemInv'
  <2>1. [count |-> sem.count + 1, wait |-> FALSE] \in S!Words
    BY <1>16, WordsChange DEF S!PostSwap
  <2> QED
    BY <1>16, <2>1, SwapPreservesSemInv DEF S!PostSwap
<1>17. ASSUME NEW t \in Threads, S!FutexWake(t)
       PROVE  SemInv'
  BY <1>17 DEF S!FutexWake
<1>18. CASE UNCHANGED S!vars
  BY <1>18 DEF S!vars
<1> QED
  BY <1>1, <1>2, <1>3, <1>4, <1>5, <1>6, <1>7, <1>8, <1>9,
     <1>10, <1>11, <1>12, <1>13, <1>14, <1>15, <1>16, <1>17, <1>18
     DEF S!Next, S!Step

(* Words stay words, and the copies the compare-and-swaps of a wait start  *)
(* from are of the kind the code has tested for.                           *)
THEOREM SemInvariance == S!Spec => []SemInv
<1>1. S!Init => SemInv
  BY DEF S!Init, SemInv, S!TypeOK, SemCopies, S!Places, S!Words, S!Zero
<1> QED
  BY <1>1, StepPreservesSemInv, PTL DEF S!Spec

-----------------------------------------------------------------------------

LEMMA SemStepPreservesNoLostWakeup ==
  SemInv /\ S!NoLostWakeup /\ [S!Next]_(S!vars) => S!NoLostWakeup'
<1> SUFFICES ASSUME SemInv, S!NoLostWakeup, [S!Next]_(S!vars)
             PROVE  S!NoLostWakeup'
  OBVIOUS
<1> USE DEF SemInv, S!TypeOK, SemCopies, S!NoLostWakeup, S!Places, S!Words, S!Zero, S!SEM_WAIT,
           S!Goto, S!Slow, S!FastOrSlow
<1>1. ASSUME NEW t \in Threads, S!Wait(t)
      PROVE  S!NoLostWakeup'
  BY <1>1 DEF S!Wait, S!Load
<1>2. ASSUME NEW t \in Threads, S!Post(t)
      PROVE  S!NoLostWakeup'
  BY <1>2 DEF S!Post, S!Load
<1>3. ASSUME NEW t \in Threads, S!FastTake(t)
      PROVE  S!NoLostWakeup'
  BY <1>3 DEF S!FastTake, S!Swap, S!Load
<1>4. ASSUME NEW t \in Threads, S!Spurious(t)
      PROVE  S!NoLostWakeup'
  BY <1>4 DEF S!Spurious, S!vars
<1>5. ASSUME NEW t \in Threads, S!SpinTimeout(t)
      PROVE  S!NoLostWakeup'
  BY <1>5 DEF S!SpinTimeout
<1>6. ASSUME NEW t \in Threads, S!SpinChanged(t)
      PROVE  S!NoLostWakeup'
  BY <1>6 DEF S!SpinChanged
<1>7. ASSUME NEW t \in Threads, S!SetFlag(t)
      PROVE  S!NoLostWakeup'
  BY <1>7 DEF S!SetFlag, S!Swap, S!Load
<1>8. ASSUME NEW t \in Threads, S!Look(t)
      PROVE  S!NoLostWakeup'
  BY <1>8 DEF S!Look, S!Load
<1>9. ASSUME NEW t \in Threads, S!Take(t)
      PROVE  S!NoLostWakeup'
  BY <1>9 DEF S!Take, S!Swap, S!Load
<1>10. ASSUME NEW t \in Threads, S!LoopSwap(t)
       PROVE  S!NoLostWakeup'
  <2>1. CASE sem # local[t]
    <3>1. place'[t] = "loop"
      BY <1>10, <2>1 DEF S!LoopSwap, S!Swap
    <3> QED
      BY <3>1
  <2>2. CASE sem = local[t] /\ local[t].count = 0
    BY <1>10, <2>2 DEF S!LoopSwap, S!Swap
  <2>3. CASE sem = local[t] /\ local[t].count = 1
    BY <1>10, <2>3 DEF S!LoopSwap, S!Swap
  <2>4. CASE sem = local[t] /\ local[t].count > 1
    <3>1. place'[t] = "more"
      BY <1>10, <2>4 DEF S!LoopSwap, S!Swap
    <3> QED
      BY <3>1
  <2>5. local[t].count \in Nat
    OBVIOUS
  <2>6. \A n \in Nat : n = 0 \/ n = 1 \/ n > 1
    OBVIOUS
  <2>7. local[t].count = 0 \/ local[t].count = 1 \/ local[t].count > 1
    BY <2>5, <2>6, Zenon
  <2> QED
    BY <2>1, <2>2, <2>3, <2>4, <2>7
<1>11. ASSUME NEW t \in Threads, S!DoWaitTimeout(t)
       PROVE  S!NoLostWakeup'
  BY <1>11 DEF S!DoWaitTimeout
<1>12. ASSUME NEW t \in Threads, S!DoWaitChanged(t)
       PROVE  S!NoLostWakeup'
  BY <1>12 DEF S!DoWaitChanged
<1>13. ASSUME NEW t \in Threads, S!FutexWait(t)
       PROVE  S!NoLostWakeup'
  BY <1>13 DEF S!FutexWait
<1>14. ASSUME NEW t \in Threads, S!Interrupted(t)
       PROVE  S!NoLostWakeup'
  BY <1>14 DEF S!Interrupted
<1>15. ASSUME NEW t \in Threads, S!Reload(t)
       PROVE  S!NoLostWakeup'
  BY <1>15 DEF S!Reload, S!Load
<1>16. ASSUME NEW t \in Threads, S!PostSwap(t)
       PROVE  S!NoLostWakeup'
  BY <1>16 DEF S!PostSwap, S!Swap, S!Load
<1>17. ASSUME NEW t \in Threads, S!FutexWake(t)
       PROVE  S!NoLostWakeup'
  BY <1>17 DEF S!FutexWake
<1>18. CASE UNCHANGED S!vars
  BY <1>18 DEF S!vars
<1> QED
  BY <1>1, <1>2, <1>3, <1>4, <1>5, <1>6, <1>7, <1>8, <1>9,
     <1>10, <1>11, <1>12, <1>13, <1>14, <1>15, <1>16, <1>17, <1>18
     DEF S!Next, S!Step

(* The comment in gomp_sem_post: a thread that is woken sets SEM_WAIT      *)
(* again for those still asleep, for any number of waiters and posts.      *)
THEOREM SemSleepersAreRemembered == S!Spec => []S!NoLostWakeup
<1>1. S!Init => S!NoLostWakeup
  BY DEF S!Init, S!NoLostWakeup
<1> QED
  BY <1>1, SemInvariance, SemStepPreservesNoLostWakeup, PTL DEF S!Spec

-----------------------------------------------------------------------------

(* Every step of the futex semaphore is one of the abstract semaphore, or  *)
(* invisible to it.                                                        *)
LEMMA StepImplementsSemaphore == SemInv /\ [S!Next]_(S!vars) => [S!Abstract!Next]_(S!Abstract!vars)
<1> SUFFICES ASSUME SemInv, [S!Next]_(S!vars)
             PROVE  [S!Abstract!Next]_(S!Abstract!vars)
  OBVIOUS
<1> USE DEF SemInv, S!TypeOK, SemCopies, S!Places, S!Words, S!Zero, S!SEM_WAIT,
            S!Goto, S!Slow, S!FastOrSlow, S!Status, S!Abstract!vars
<1>1. ASSUME NEW t \in Threads, S!Wait(t)
      PROVE  S!Abstract!Request(t)
  BY <1>1 DEF S!Wait, S!Load, S!Abstract!Request
<1>2. ASSUME NEW t \in Threads, S!FastTake(t) \/ S!Take(t)
      PROVE  S!Abstract!Acquire(t) \/ UNCHANGED S!Abstract!vars
  <2>1. CASE sem = local[t]
    <3>1. /\ sem.count # 0 /\ sem.count \in Nat /\ place[t] \in {"fast", "take"}
          /\ sem' = [sem EXCEPT !.count = @ - 1] /\ place' = [place EXCEPT ![t] = "idle"]
      BY <1>2, <2>1 DEF S!FastTake, S!Take, S!Swap
    <3>2. sem'.count = sem.count - 1
      BY <3>1
    <3>3. S!Status[t] = "waiting" /\ S!Status' = [S!Status EXCEPT ![t] = "out"]
      BY <3>1
    <3> QED
      BY <3>1, <3>2, <3>3 DEF S!Abstract!Acquire
  <2>2. CASE sem # local[t]
    BY <1>2, <2>2 DEF S!FastTake, S!Take, S!Swap, S!Load
  <2> QED
    BY <2>1, <2>2
<1>3. ASSUME NEW t \in Threads, S!LoopSwap(t)
      PROVE  S!Abstract!Acquire(t) \/ UNCHANGED S!Abstract!vars
  <2>1. CASE sem = local[t] /\ local[t].count # 0
    <3>1. /\ sem.count # 0 /\ sem.count \in Nat /\ place[t] = "loop"
          /\ sem' = [count |-> sem.count - 1, wait |-> TRUE]
          /\ place' = [place EXCEPT ![t] = IF local[t].count > 1 THEN "more" ELSE "idle"]
      BY <1>3, <2>1 DEF S!LoopSwap, S!Swap
    <3>2. sem'.count = sem.count - 1
      BY <3>1
    <3>3. S!Status[t] = "waiting" /\ S!Status' = [S!Status EXCEPT ![t] = "out"]
      BY <3>1
    <3> QED
      BY <3>1, <3>2, <3>3 DEF S!Abstract!Acquire
  <2>2. CASE sem # local[t] \/ local[t].count = 0
    BY <1>3, <2>2 DEF S!LoopSwap, S!Swap, S!Load
  <2> QED
    BY <2>1, <2>2
<1>4. ASSUME NEW t \in Threads, S!PostSwap(t)
      PROVE  S!Abstract!Post \/ UNCHANGED S!Abstract!vars
  BY <1>4 DEF S!PostSwap, S!Swap, S!Load, S!Abstract!Post
<1>5. ASSUME NEW t \in Threads,
             \/ S!Spurious(t) \/ S!SpinTimeout(t) \/ S!SpinChanged(t) \/ S!Look(t) \/ S!DoWaitTimeout(t)
             \/ S!DoWaitChanged(t) \/ S!FutexWait(t) \/ S!Interrupted(t) \/ S!Reload(t) \/ S!Post(t)
      PROVE  UNCHANGED S!Abstract!vars
  BY <1>5 DEF S!Spurious, S!vars, S!SpinTimeout, S!SpinChanged, S!Look, S!DoWaitTimeout,
              S!DoWaitChanged, S!FutexWait, S!Interrupted, S!Reload, S!Post, S!Load
<1>6. ASSUME NEW t \in Threads, S!SetFlag(t) \/ S!FutexWake(t)
      PROVE  UNCHANGED S!Abstract!vars
  BY <1>6 DEF S!SetFlag, S!FutexWake, S!Swap, S!Load
<1>7. CASE UNCHANGED S!vars
  BY <1>7 DEF S!vars
<1> QED
  BY <1>1, <1>2, <1>3, <1>4, <1>5, <1>6, <1>7 DEF S!Next, S!Step, S!Abstract!Next

(* gomp_sem_wait returns once for each gomp_sem_post, for any threads.     *)
THEOREM SemImplementsSemaphore == S!Spec => S!ImplementsSemaphore
<1>1. S!Init => S!Abstract!Init
  BY DEF S!Init, S!Zero, S!Status, S!Abstract!Init
<1> QED
  BY <1>1, SemInvariance, StepImplementsSemaphore, PTL DEF S!Spec, S!ImplementsSemaphore, S!Abstract!Spec
=============================================================================
