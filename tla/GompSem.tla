------------------------------- MODULE GompSem -------------------------------
(***************************************************************************)
(* The futex semaphore gomp_sem_t of config/linux/sem.{h,c}, on which      *)
(* ordered sections and tasks wait.  The word is a count and the flag      *)
(* SEM_WAIT; one action per access of the word.  A thread's place:         *)
(*                                                                         *)
(*   "idle"   not using the semaphore    "fast"   before the weak CAS of   *)
(*                                                gomp_sem_wait            *)
(*   "first"  the test of the slow path's first loop, then do_spin         *)
(*   "flag"   before the CAS 0 -> SEM_WAIT   "look"  before count = *sem   *)
(*   "take"   before the CAS that takes one of the first loop              *)
(*   "loop"   before the CAS of the second loop                            *)
(*   "spin"   do_wait: spinning on SEM_WAIT                                *)
(*   "fwait"  entering futex_wait (SEM_WAIT)     "asleep" in the kernel    *)
(*   "reload" before the count = *sem that follows a sleep                 *)
(*   "more"   has taken one of several, will wake another thread           *)
(*   "post"   before the weak CAS of gomp_sem_post                         *)
(*   "wake"   has posted to a flagged word, will futex_wake                *)
(***************************************************************************)
EXTENDS Naturals

CONSTANTS
  Threads,
  MaxCount   \* bound: the posts the semaphore can hold (in the code 2^31 - 1)

(* What the bound is; MCLocks assumes it of its instance, and no proof     *)
(* needs it.                                                               *)
MaxCountAssumption == MaxCount \in Nat \ {0}

VARIABLES
  sem,      \* the word: its count and its flag SEM_WAIT
  local,    \* local[t]: count, t's copy of the word
  pc

vars == <<sem, local, pc>>

Words == [count : Nat, wait : BOOLEAN]
Zero  == [count |-> 0, wait |-> FALSE]
SEM_WAIT == [count |-> 0, wait |-> TRUE]

Goto(t, place) == pc' = [pc EXCEPT ![t] = place]
Load(t) == local' = [local EXCEPT ![t] = sem]

(* A compare and swap of local[t] for new, after which t goes on at next;  *)
(* when it fails it leaves the word it saw in local[t], and t is at again. *)
Swap(t, new, next, again) ==
  IF sem = local[t]
  THEN sem' = new /\ Goto(t, next) /\ UNCHANGED local
  ELSE Load(t) /\ Goto(t, again) /\ UNCHANGED sem

Init == /\ sem = Zero
        /\ local = [t \in Threads |-> Zero]
        /\ pc = [t \in Threads |-> "idle"]

-----------------------------------------------------------------------------
(* gomp_sem_wait. *)

Slow(word) == IF word = Zero THEN "first" ELSE "loop"

FastOrSlow(word) == IF word.count # 0 THEN "fast" ELSE Slow(word)

Wait(t) == /\ pc[t] = "idle"
           /\ Load(t)
           /\ Goto(t, FastOrSlow(sem))
           /\ UNCHANGED sem

(* The flag, if set, stays set. *)
FastTake(t) ==
  /\ pc[t] = "fast"
  /\ Swap(t, [sem EXCEPT !.count = @ - 1], "idle", FastOrSlow(sem))

(* A weak compare and swap may fail though the word is the expected one.   *)
Spurious(t) == /\ pc[t] \in {"fast", "post"}
               /\ sem = local[t]
               /\ UNCHANGED vars

-----------------------------------------------------------------------------
(* gomp_sem_wait_slow: the first loop. *)

SpinTimeout(t) == /\ pc[t] = "first"
                  /\ Goto(t, "flag")
                  /\ UNCHANGED <<sem, local>>

SpinChanged(t) == /\ pc[t] = "first"
                  /\ sem # Zero
                  /\ Goto(t, "look")
                  /\ UNCHANGED <<sem, local>>

SetFlag(t) == /\ pc[t] = "flag"
              /\ Swap(t, SEM_WAIT, "fwait", "look")

(* Something changed: with the flag, or with nothing to take, on to the    *)
(* second or once more round the first loop.                               *)
Look(t) ==
  /\ pc[t] = "look"
  /\ Load(t)
  /\ Goto(t, IF ~sem.wait /\ sem.count # 0 THEN "take" ELSE Slow(sem))
  /\ UNCHANGED sem

Take(t) == /\ pc[t] = "take"
           /\ Swap(t, [sem EXCEPT !.count = @ - 1], "idle", Slow(sem))

-----------------------------------------------------------------------------
(* The second loop, which is left with the flag set. *)

(* mutant: the post behind a sleep is taken without setting the flag *)
LoopSwap_DropsFlag(t) ==
  /\ pc[t] = "loop"
  /\ IF local[t].count # 0
     THEN Swap(t, [sem EXCEPT !.count = @ - 1], IF local[t].count > 1 THEN "more" ELSE "idle", "loop")
     ELSE Swap(t, SEM_WAIT, "spin", "loop")

LoopSwap(t) ==
  /\ pc[t] = "loop"
  /\ IF local[t].count # 0
     THEN Swap(t, [count |-> sem.count - 1, wait |-> TRUE],
               IF local[t].count > 1 THEN "more" ELSE "idle", "loop")
     ELSE Swap(t, SEM_WAIT, "spin", "loop")

DoWaitTimeout(t) == /\ pc[t] = "spin"
                    /\ Goto(t, "fwait")
                    /\ UNCHANGED <<sem, local>>

DoWaitChanged(t) == /\ pc[t] = "spin"
                    /\ sem # SEM_WAIT
                    /\ Goto(t, "reload")
                    /\ UNCHANGED <<sem, local>>

(* mutant: the thread sleeps whatever the word holds by now *)
FutexWait_Unconditional(t) == /\ pc[t] = "fwait"
                              /\ Goto(t, "asleep")
                              /\ UNCHANGED <<sem, local>>

FutexWait(t) == /\ pc[t] = "fwait"
                /\ Goto(t, IF sem = SEM_WAIT THEN "asleep" ELSE "reload")
                /\ UNCHANGED <<sem, local>>

Interrupted(t) == /\ pc[t] = "asleep"
                  /\ Goto(t, "reload")
                  /\ UNCHANGED <<sem, local>>

Reload(t) == /\ pc[t] = "reload"
             /\ Load(t)
             /\ Goto(t, "loop")
             /\ UNCHANGED sem

-----------------------------------------------------------------------------
(* gomp_sem_post and gomp_sem_post_slow. *)

Post(t) == /\ pc[t] = "idle"
           /\ Load(t)
           /\ Goto(t, "post")
           /\ UNCHANGED sem

PostSwap(t) ==
  /\ pc[t] = "post" /\ sem.count < MaxCount
  /\ Swap(t, [count |-> sem.count + 1, wait |-> FALSE], IF sem.wait THEN "wake" ELSE "idle",
          "post")

(* futex_wake (sem, 1), by a poster or by a waiter that has seen more. *)
FutexWake(t) ==
  /\ pc[t] \in {"wake", "more"}
  /\ \/ /\ \A u \in Threads : pc[u] # "asleep"
        /\ Goto(t, "idle")
     \/ \E u \in Threads :
          /\ pc[u] = "asleep"
          /\ pc' = [pc EXCEPT ![t] = "idle", ![u] = "reload"]
  /\ UNCHANGED <<sem, local>>

-----------------------------------------------------------------------------

(* The steps a running thread takes on its own. *)
Step(t) == \/ FastTake(t) \/ SpinTimeout(t) \/ SpinChanged(t) \/ SetFlag(t) \/ Look(t) \/ Take(t)
           \/ LoopSwap(t) \/ DoWaitTimeout(t) \/ DoWaitChanged(t) \/ FutexWait(t) \/ Reload(t)
           \/ PostSwap(t) \/ FutexWake(t)

Next == \E t \in Threads : Wait(t) \/ Post(t) \/ Step(t) \/ Spurious(t) \/ Interrupted(t)

Spec == Init /\ [][Next]_vars

(* The operating system runs every thread that is not blocked; a weak      *)
(* compare and swap does not fail spuriously for ever.                     *)
FairSpec == Spec /\ \A t \in Threads : WF_vars(Step(t))

-----------------------------------------------------------------------------

Places == {"idle", "fast", "first", "flag", "look", "take", "loop", "spin", "fwait", "asleep",
           "reload", "more", "post", "wake"}

TypeOK == /\ sem \in Words
          /\ local \in [Threads -> Words]
          /\ pc \in [Threads -> Places]

(* The comment in gomp_sem_post: a post that finds several waiters clears  *)
(* the flag of them all, and the one that is woken will set it again and   *)
(* pass further posts on.  So while threads sleep, the word is the bare    *)
(* flag, or a wake is on its way, or a woken thread that is yet to pass    *)
(* through the second loop: no forgotten sleeper, no sleeper beside a post.*)
NoLostWakeup ==
  (\E t \in Threads : pc[t] = "asleep")
    => sem = SEM_WAIT \/ \E t \in Threads : pc[t] \in {"wake", "more", "reload", "loop"}

Status == [t \in Threads |-> IF pc[t] \in {"idle", "more", "post", "wake"} THEN "out" ELSE "waiting"]

Abstract == INSTANCE AbstractSemaphore WITH count <- sem.count, status <- Status

(* The futex semaphore is a semaphore: every post and every wait counts    *)
(* once, whatever copies of the word the threads hold.                     *)
ImplementsSemaphore == Abstract!Spec

(* And no post is lost on the way: threads that wait and posts they could  *)
(* use are not left together.                                              *)
ImplementsFairSemaphore == Abstract!FairSpec
=============================================================================
