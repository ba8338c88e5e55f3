------------------------------- MODULE NestLock -------------------------------
(***************************************************************************)
(* The lock routines of the OpenMP API (lock.c, config/linux/lock.c).  A   *)
(* simple lock is a gomp_mutex_t and nothing more: GompMutex with any of   *)
(* its steps.  The nestable locks add an owner and a count:                *)
(*                                                                         *)
(*   "nest"     omp_nest_lock_t: a gomp_mutex_t, owned by a task, with an  *)
(*              owner that is read before the mutex is locked              *)
(*   "nest_25"  omp_nest_lock_25_t of OpenMP 2.5: owned by a thread, whose *)
(*              owner word is itself the futex                             *)
(*                                                                         *)
(* Threads stands for whoever can own a lock, tasks or threads.  Where one *)
(* is:                                                                     *)
(*                                                                         *)
(*   "out"    not using the lock      "in"      owning it, between calls   *)
(*   "set"    in the set routine, before it looks at the owner             *)
(*   "test"   in the test routine, likewise                                *)
(*   "try"    in it, before the CAS of the mutex                           *)
(*   "lock"   in gomp_mutex_lock      "own"     in, not yet the owner      *)
(*   "clear"  unset for the last time, before the owner is cleared         *)
(*   "unlock" in gomp_mutex_unlock    "wake_25" before futex_wake          *)
(*   "spin_25"   in do_wait, spinning while the owner is seen[t]           *)
(*   "fwait_25"  entering futex_wait  "asleep_25" blocked in the kernel    *)
(*                                                                         *)
(* Only the owner reads or writes the count, which therefore moves with    *)
(* its access to the owner word before.                                    *)
(***************************************************************************)
EXTENDS GompMutex

CONSTANTS None,       \* the owner of a lock nobody owns
          MaxDepth    \* bound: how often a program sets a lock it owns

ASSUME NoneAssumption == None \notin Threads
ASSUME MaxDepthAssumption == MaxDepth \in Nat \ {0}

VARIABLES
  kind,       \* "simple", "nest" or "nest_25"; the program's choice
  owner, count,
  at,         \* at[t]: where t is in the routines of a nestable lock
  seen        \* seen[t]: the owner that t's failed CAS found (otid)

mutexVars == <<word, pc>>
nestVars  == <<owner, count, at, seen>>
lockVars  == <<mutexVars, nestVars, kind>>

Move(t, place) == at' = [at EXCEPT ![t] = place]

LocksInit == /\ Init
             /\ kind \in {"simple", "nest", "nest_25"}
             /\ owner = None
             /\ count = 0
             /\ at = [t \in Threads |-> "out"]
             /\ seen = [t \in Threads |-> None]

-----------------------------------------------------------------------------
(* The program calls a routine of a nestable lock. *)

CallSet(t) == /\ at[t] \in {"out", "in"}
              /\ at[t] = "in" => count < MaxDepth
              /\ Move(t, "set")
              /\ UNCHANGED <<mutexVars, owner, count, seen>>

CallTest(t) == /\ at[t] \in {"out", "in"}
               /\ at[t] = "in" => count < MaxDepth
               /\ Move(t, "test")
               /\ UNCHANGED <<mutexVars, owner, count, seen>>

(* gomp_unset_nest_lock_30 and _25 count down first. *)
Unset(t) == /\ at[t] = "in"
            /\ count' = count - 1
            /\ Move(t, IF count = 1 THEN "clear" ELSE "in")
            /\ UNCHANGED <<mutexVars, owner, seen>>

LastUnset(t) == count = 1 /\ Unset(t)

-----------------------------------------------------------------------------
(* The locks of OpenMP 3.0 *)

EnterAgain(t) == count' = count + 1 /\ Move(t, "in")

(* gomp_set_nest_lock_30 reads the owner without having the mutex. *)
ReadOwner(t) ==
  /\ kind = "nest" /\ at[t] = "set"
  /\ IF owner = t THEN EnterAgain(t) /\ UNCHANGED mutexVars
     ELSE Lock(t) /\ Move(t, "lock") /\ UNCHANGED count
  /\ UNCHANGED <<owner, seen>>

(* ... is in gomp_mutex_lock ... *)
Locking(t) ==
  /\ at[t] = "lock"
  /\ \/ CompareExchange(t) \/ SpinTimeout(t) \/ SpinChanged(t) \/ SetWaitFlag(t)
     \/ ExchangeLoop(t) \/ DoWaitChanged(t) \/ DoWaitTimeout(t) \/ FutexWait(t)
  /\ UNCHANGED nestVars

(* ... and becomes the owner. *)
BecomeOwner(t) ==
  /\ at[t] = "lock" /\ pc[t] = "cs"
  /\ owner' = t
  /\ EnterAgain(t)
  /\ UNCHANGED <<mutexVars, seen>>

(* gomp_test_nest_lock_30 *)
TestOwner(t) ==
  /\ kind = "nest" /\ at[t] = "test"
  /\ IF owner = t THEN EnterAgain(t) ELSE Move(t, "try") /\ UNCHANGED count
  /\ UNCHANGED <<mutexVars, owner, seen>>

TryMutex(t) ==
  /\ at[t] = "try"
  /\ \/ TestLock(t) /\ Move(t, "own")
     \/ word # 0 /\ Move(t, "out") /\ UNCHANGED mutexVars
  /\ UNCHANGED <<owner, count, seen>>

BecomeTestOwner(t) ==
  /\ at[t] = "own"
  /\ owner' = t
  /\ count' = 1
  /\ Move(t, "in")
  /\ UNCHANGED <<mutexVars, seen>>

(* mutant: the mutex is unlocked with the owner still entered *)
ClearOwner_NotCleared(t) ==
  /\ kind = "nest" /\ at[t] = "clear"
  /\ Move(t, "unlock")
  /\ UNCHANGED <<mutexVars, owner, count, seen>>

(* gomp_unset_nest_lock_30, when the count is down to 0 *)
ClearOwner(t) ==
  /\ kind = "nest" /\ at[t] = "clear"
  /\ owner' = None
  /\ Move(t, "unlock")
  /\ UNCHANGED <<mutexVars, count, seen>>

Unlocking(t) ==
  /\ at[t] = "unlock"
  /\ Unlock(t) \/ FutexWake(t)
  /\ Move(t, IF pc'[t] = "idle" THEN "out" ELSE "unlock")
  /\ UNCHANGED <<owner, count, seen>>

-----------------------------------------------------------------------------
(* The locks of OpenMP 2.5 *)

(* The CAS of the owner in gomp_set_nest_lock_25 and, for a single try, in *)
(* gomp_test_nest_lock_25.                                                 *)
CompareOwner_25(t) ==
  /\ kind = "nest_25" /\ at[t] \in {"set", "test"}
  /\ IF owner = None
     THEN owner' = t /\ count' = 1 /\ Move(t, "in") /\ UNCHANGED seen
     ELSE /\ UNCHANGED owner
          /\ IF owner = t THEN EnterAgain(t) /\ UNCHANGED seen
             ELSE /\ UNCHANGED count
                  /\ IF at[t] = "test" THEN Move(t, "out") /\ UNCHANGED seen
                     ELSE Move(t, "spin_25") /\ seen' = [seen EXCEPT ![t] = owner]
  /\ UNCHANGED mutexVars

(* do_wait (&lock->owner, otid) *)
SpinChanged_25(t) == /\ at[t] = "spin_25"
                     /\ owner # seen[t]
                     /\ Move(t, "set")
                     /\ UNCHANGED <<mutexVars, owner, count, seen>>

SpinTimeout_25(t) == /\ at[t] = "spin_25"
                     /\ Move(t, "fwait_25")
                     /\ UNCHANGED <<mutexVars, owner, count, seen>>

FutexWait_25(t) == /\ at[t] = "fwait_25"
                   /\ Move(t, IF owner = seen[t] THEN "asleep_25" ELSE "set")
                   /\ UNCHANGED <<mutexVars, owner, count, seen>>

(* gomp_unset_nest_lock_25, when the count is down to 0 *)
ClearOwner_25(t) ==
  /\ kind = "nest_25" /\ at[t] = "clear"
  /\ owner' = None
  /\ Move(t, "wake_25")
  /\ UNCHANGED <<mutexVars, count, seen>>

FutexWake_25(t) ==
  /\ at[t] = "wake_25"
  /\ \/ /\ \A u \in Threads : at[u] # "asleep_25"
        /\ Move(t, "out")
     \/ \E u \in Threads :
          /\ at[u] = "asleep_25"
          /\ at' = [at EXCEPT ![t] = "out", ![u] = "set"]
  /\ UNCHANGED <<mutexVars, owner, count, seen>>

-----------------------------------------------------------------------------

(* A signal ends a futex_wait of either kind of lock. *)
NestInterrupted(t) ==
  \/ at[t] = "lock" /\ Interrupted(t) /\ UNCHANGED nestVars
  \/ /\ at[t] = "asleep_25"
     /\ Move(t, "set")
     /\ UNCHANGED <<mutexVars, owner, count, seen>>

NestStep(t) == \/ ReadOwner(t) \/ Locking(t) \/ BecomeOwner(t)
               \/ TestOwner(t) \/ TryMutex(t) \/ BecomeTestOwner(t)
               \/ ClearOwner(t) \/ Unlocking(t)
               \/ CompareOwner_25(t) \/ SpinChanged_25(t) \/ SpinTimeout_25(t)
               \/ FutexWait_25(t) \/ ClearOwner_25(t) \/ FutexWake_25(t)

SimpleNext == kind = "simple" /\ Next /\ UNCHANGED nestVars

NestNext == /\ kind # "simple"
            /\ \E t \in Threads : \/ CallSet(t) \/ CallTest(t) \/ Unset(t)
                                  \/ NestStep(t) \/ NestInterrupted(t)

LocksNext == (SimpleNext \/ NestNext) /\ UNCHANGED kind

LocksSpec == LocksInit /\ [][LocksNext]_lockVars

(* The operating system runs every thread that is not blocked; every       *)
(* critical section ends, however often it sets the lock anew; and nobody  *)
(* has to ask for a lock.                                                  *)
FairLocksSpec ==
  /\ LocksSpec
  /\ \A t \in Threads :
       /\ WF_lockVars(kind = "simple" /\ Step(t) /\ UNCHANGED <<nestVars, kind>>)
       /\ WF_lockVars(kind # "simple" /\ NestStep(t) /\ UNCHANGED kind)
       /\ WF_lockVars(kind # "simple" /\ Unset(t) /\ UNCHANGED kind)
       /\ SF_lockVars(kind # "simple" /\ LastUnset(t) /\ UNCHANGED kind)
  /\ WF_lockVars(kind = "simple" /\ (\E t \in Threads : Unlock(t)) /\ UNCHANGED <<nestVars, kind>>)

-----------------------------------------------------------------------------

Depth == [t \in Threads |-> IF owner = t THEN count ELSE 0]

Waiting == {t \in Threads : at[t] \in {"set", "lock", "spin_25", "fwait_25", "asleep_25"}}

Nest == INSTANCE AbstractNestLock WITH depth <- Depth, waiting <- Waiting

ImplementsNestLock == Nest!Spec

(* The nestable locks are nestable locks: the unlocked look at the owner   *)
(* never takes another's lock for one's own, the owner enters again        *)
(* without waiting for itself, the lock is free again after as many unsets *)
(* as sets, and whoever sleeps for it is woken.                            *)
ImplementsFairNestLock == Nest!FairSpec
=============================================================================
