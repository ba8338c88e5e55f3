-------------------------- MODULE AbstractSemaphore --------------------------
(***************************************************************************)
(* What the semaphores of libgomp promise: a wait returns only against a   *)
(* post of its own, and, under FairSpec, posts and waiting threads are not *)
(* left together.  No promise is made to an individual waiter.             *)
(***************************************************************************)
EXTENDS Naturals

CONSTANTS Threads, MaxCount   \* MaxCount: the posts a semaphore can hold

VARIABLES
  count,      \* posts that no wait has used yet
  status      \* status[t]: "out" or "waiting"

vars == <<count, status>>

Init == /\ count = 0
        /\ status = [t \in Threads |-> "out"]

Post == /\ count < MaxCount
        /\ count' = count + 1
        /\ UNCHANGED status

Request(t) == /\ status[t] = "out"
              /\ status' = [status EXCEPT ![t] = "waiting"]
              /\ UNCHANGED count

Acquire(t) == /\ status[t] = "waiting"
              /\ count > 0
              /\ count' = count - 1
              /\ status' = [status EXCEPT ![t] = "out"]

Next == Post \/ \E t \in Threads : Request(t) \/ Acquire(t)

Spec == Init /\ [][Next]_vars

FairSpec == Spec /\ WF_vars(\E t \in Threads : Acquire(t))
=============================================================================
