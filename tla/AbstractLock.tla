---------------------------- MODULE AbstractLock ----------------------------
(***************************************************************************)
(* What every lock of libgomp promises its callers: at most one thread is  *)
(* inside, a thread gets in only after asking (or by an immediate try),    *)
(* and, under FairSpec, a lock that is free while somebody waits is        *)
(* eventually taken.  The lock is not first-come first-served: no promise  *)
(* is made to an individual waiter.  A lock may be released by another     *)
(* thread than the one that took it (config/linux/lock.c says so of the    *)
(* OpenMP 2.5 locks): HandOver passes the right to release it on.          *)
(***************************************************************************)
CONSTANT Threads

VARIABLE status     \* status[t]: "out", "waiting" or "in"

TypeOK == status \in [Threads -> {"out", "waiting", "in"}]

Free == \A t \in Threads : status[t] # "in"

Init == status = [t \in Threads |-> "out"]

Request(t) == /\ status[t] = "out"
              /\ status' = [status EXCEPT ![t] = "waiting"]

Acquire(t) == /\ status[t] = "waiting"
              /\ Free
              /\ status' = [status EXCEPT ![t] = "in"]

TryAcquire(t) == /\ status[t] = "out"
                 /\ Free
                 /\ status' = [status EXCEPT ![t] = "in"]

HandOver(t, u) == /\ status[t] = "in"
                  /\ status[u] = "out"
                  /\ status' = [status EXCEPT ![t] = "out", ![u] = "in"]

Release(t) == /\ status[t] = "in"
              /\ status' = [status EXCEPT ![t] = "out"]

Next == \/ \E t \in Threads : Request(t) \/ Acquire(t) \/ TryAcquire(t) \/ Release(t)
        \/ \E t, u \in Threads : HandOver(t, u)

Spec == Init /\ [][Next]_status

FairSpec == /\ Spec
            /\ WF_status(\E t \in Threads : Acquire(t))
            /\ WF_status(\E t \in Threads : Release(t))
=============================================================================
