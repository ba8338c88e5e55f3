------------------------------ MODULE GompMutex ------------------------------
(***************************************************************************)
(* The futex mutex gomp_mutex_t of config/linux/mutex.{h,c}, which guards  *)
(* every shared structure of the library (team->task_lock, ws->lock, the   *)
(* thread-pool lock, omp_set_lock).  One action per atomic access of the   *)
(* mutex word; a thread's place between two accesses is its pc:            *)
(*                                                                         *)
(*   "idle"    not using the mutex       "cas"   before a 0 -> 1 CAS       *)
(*   "spin"    do_spin (mutex, 1)        "flag"  before the xchg of -1     *)
(*                                               that follows the spin     *)
(*   "xchg"    second loop's xchg of -1  "wait"  do_wait: spinning on -1   *)
(*   "fwait"   entering futex_wait (-1)  "asleep" blocked in the kernel    *)
(*   "cs"      inside                    "wake"  unlocked, will futex_wake *)
(***************************************************************************)
EXTENDS Integers

CONSTANT Threads
ASSUME ThreadsAssumption == Threads # {}

VARIABLES
  word,     \* the mutex: 0 free, 1 locked, -1 locked and perhaps waited for
  pc        \* pc[t]: where thread t is

vars == <<word, pc>>

Places == {"idle", "cas", "spin", "flag", "xchg", "wait", "fwait", "asleep", "cs", "wake"}

Goto(t, place) == pc' = [pc EXCEPT ![t] = place]

Init == /\ word = 0
        /\ pc = [t \in Threads |-> "idle"]

-----------------------------------------------------------------------------
(* Entering: gomp_mutex_lock and gomp_mutex_lock_slow. *)

Lock(t) == /\ pc[t] = "idle"
           /\ Goto(t, "cas")
           /\ UNCHANGED word

(* The CAS of the inline fast path, and the one the first loop retries     *)
(* after seeing a change.  A failure leaves the value seen in oldval,      *)
(* which alone decides whether the first loop goes on.                     *)
CompareExchange(t) ==
  /\ pc[t] = "cas"
  /\ \/ word = 0  /\ word' = 1       /\ Goto(t, "cs")
     \/ word = 1  /\ UNCHANGED word  /\ Goto(t, "spin")
     \/ word = -1 /\ UNCHANGED word  /\ Goto(t, "xchg")

(* do_spin (mutex, 1) gives up whenever its count, which may be 0, runs    *)
(* out, and returns 0 once it reads another value.                         *)
SpinTimeout(t) == /\ pc[t] = "spin"
                  /\ Goto(t, "flag")
                  /\ UNCHANGED word

SpinChanged(t) == /\ pc[t] = "spin"
                  /\ word # 1
                  /\ Goto(t, "cas")
                  /\ UNCHANGED word

SetWaitFlag(t) ==
  /\ pc[t] = "flag"
  /\ word' = -1
  /\ Goto(t, IF word = 0 THEN "cs" ELSE "fwait")

(* mutant: the woken thread takes the mutex as uncontended *)
ExchangeLoop_DropsFlag(t) ==
  /\ pc[t] = "xchg"
  /\ word' = IF word = 0 THEN 1 ELSE -1
  /\ Goto(t, IF word = 0 THEN "cs" ELSE "wait")

ExchangeLoop(t) ==
  /\ pc[t] = "xchg"
  /\ word' = -1
  /\ Goto(t, IF word = 0 THEN "cs" ELSE "wait")

DoWaitChanged(t) == /\ pc[t] = "wait"
                    /\ word # -1
                    /\ Goto(t, "xchg")
                    /\ UNCHANGED word

DoWaitTimeout(t) == /\ pc[t] = "wait"
                    /\ Goto(t, "fwait")
                    /\ UNCHANGED word

(* mutant: the thread sleeps whatever the word holds by now *)
FutexWait_Unconditional(t) ==
  /\ pc[t] = "fwait"
  /\ Goto(t, "asleep")
  /\ UNCHANGED word

(* The kernel compares the word with -1 and sleeps in one atomic step.     *)
FutexWait(t) ==
  /\ pc[t] = "fwait"
  /\ Goto(t, IF word = -1 THEN "asleep" ELSE "xchg")
  /\ UNCHANGED word

(* A signal ends a futex_wait, which the code does not tell from a wake.   *)
Interrupted(t) == /\ pc[t] = "asleep"
                  /\ Goto(t, "xchg")
                  /\ UNCHANGED word

-----------------------------------------------------------------------------
(* Leaving: gomp_mutex_unlock and gomp_mutex_unlock_slow. *)

Unlock(t) == /\ pc[t] = "cs"
             /\ word' = 0
             /\ Goto(t, IF word < 0 THEN "wake" ELSE "idle")

FutexWake(t) ==
  /\ pc[t] = "wake"
  /\ \/ /\ \A u \in Threads : pc[u] # "asleep"
        /\ Goto(t, "idle")
     \/ \E u \in Threads :
          /\ pc[u] = "asleep"
          /\ pc' = [pc EXCEPT ![t] = "idle", ![u] = "xchg"]
  /\ UNCHANGED word

(* mutant: omp_test_lock takes a mutex it finds flagged *)
TestLock_IgnoresFlag(t) ==
  /\ pc[t] = "idle"
  /\ word # 1
  /\ word' = 1
  /\ Goto(t, "cs")

(* omp_test_lock; a failure changes nothing. *)
TestLock(t) == /\ pc[t] = "idle"
               /\ word = 0
               /\ word' = 1
               /\ Goto(t, "cs")

(* The program lets another thread do the unlocking. *)
HandOver(t, u) == /\ pc[t] = "cs"
                  /\ pc[u] = "idle"
                  /\ pc' = [pc EXCEPT ![t] = "idle", ![u] = "cs"]
                  /\ UNCHANGED word

-----------------------------------------------------------------------------

(* The steps a running thread takes on its own. *)
Step(t) == \/ CompareExchange(t)
           \/ SpinTimeout(t)
           \/ SpinChanged(t)
           \/ SetWaitFlag(t)
           \/ ExchangeLoop(t)
           \/ DoWaitChanged(t)
           \/ DoWaitTimeout(t)
           \/ FutexWait(t)
           \/ Unlock(t)
           \/ FutexWake(t)

Next == \/ \E t \in Threads : Lock(t) \/ TestLock(t) \/ Step(t) \/ Interrupted(t)
        \/ \E t, u \in Threads : HandOver(t, u)

Spec == Init /\ [][Next]_vars

(* The operating system runs every thread that is not blocked, and every   *)
(* critical section ends, in whichever thread; nobody has to ask for the   *)
(* mutex, and no signal has to arrive.                                     *)
FairSpec == /\ Spec
            /\ \A t \in Threads : WF_vars(Step(t))
            /\ WF_vars(\E t \in Threads : Unlock(t))

-----------------------------------------------------------------------------

TypeOK == /\ word \in {-1, 0, 1}
          /\ pc \in [Threads -> Places]

(* Two threads are never inside together, whatever path let them in: the   *)
(* fast CAS, the flagging exchange, the exchange of the second loop, or    *)
(* omp_test_lock.                                                          *)
MutualExclusion ==
  \A t, u \in Threads : pc[t] = "cs" /\ pc[u] = "cs" => t = u

(* The word says locked exactly while somebody is inside: no path leaves   *)
(* the flag -1 behind on a mutex nobody will unlock.                       *)
LockedIffHeld == (word # 0) <=> (\E t \in Threads : pc[t] = "cs")

(* A thread asleep on the futex is never forgotten: either the word still  *)
(* carries the flag that makes the unlocker wake someone, or a wake is on  *)
(* its way, or a thread already woken is about to set the flag again.      *)
NoLostWakeup ==
  (\E t \in Threads : pc[t] = "asleep")
    => \/ word = -1
       \/ \E t \in Threads : pc[t] \in {"wake", "xchg"}

Status == [t \in Threads |->
             IF pc[t] = "cs" THEN "in"
             ELSE IF pc[t] \in {"idle", "wake"} THEN "out" ELSE "waiting"]

Abstract == INSTANCE AbstractLock WITH status <- Status

(* The futex mutex is a lock: every step is a step of AbstractLock or is   *)
(* invisible to it.                                                        *)
ImplementsLock == Abstract!Spec

(* And it makes progress: a mutex that is free while threads wait for it   *)
(* is taken by one of them (or by a newcomer), asleep or not.              *)
ImplementsFairLock == Abstract!FairSpec
=============================================================================
