-------------------------- MODULE AbstractNestLock --------------------------
(***************************************************************************)
(* What an OpenMP nestable lock promises: whoever holds it may set it any  *)
(* number of times more and holds it until it has been unset as often, and *)
(* nobody else gets in meanwhile.  Under FairSpec a lock that a waiter may *)
(* enter, because it is free or the waiter's own, is eventually entered.   *)
(***************************************************************************)
EXTENDS Naturals

CONSTANT Threads

VARIABLES depth,     \* depth[t]: the settings of t that are not yet unset
          waiting    \* the threads in omp_set_nest_lock

vars == <<depth, waiting>>

Init == /\ depth = [t \in Threads |-> 0]
        /\ waiting = {}

(* t holds the lock or nobody does. *)
Enterable(t) == \A u \in Threads : u # t => depth[u] = 0

Request(t) == /\ t \notin waiting
              /\ waiting' = waiting \cup {t}
              /\ UNCHANGED depth

Enter(t) == /\ t \in waiting
            /\ Enterable(t)
            /\ depth' = [depth EXCEPT ![t] = @ + 1]
            /\ waiting' = waiting \ {t}

TryEnter(t) == /\ t \notin waiting
               /\ Enterable(t)
               /\ depth' = [depth EXCEPT ![t] = @ + 1]
               /\ UNCHANGED waiting

Leave(t) == /\ depth[t] > 0
            /\ depth' = [depth EXCEPT ![t] = @ - 1]
            /\ UNCHANGED waiting

Next == \E t \in Threads : Request(t) \/ Enter(t) \/ TryEnter(t) \/ Leave(t)

Spec == Init /\ [][Next]_vars

FairSpec == Spec /\ WF_vars(\E t \in Threads : Enter(t))
=============================================================================
