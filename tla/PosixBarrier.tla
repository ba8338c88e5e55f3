----------------------------- MODULE PosixBarrier -----------------------------
(***************************************************************************)
(* The barrier for systems without futexes (config/posix/bar.{h,c}), under *)
(* a nested team as in TeamBarrier: the same constructs, on a mutex and    *)
(* two semaphores.  Whoever arrives last, or cancels a barrier that others *)
(* wait in, keeps mutex1 until all of them have left.  Kinds of barriers:  *)
(*                                                                         *)
(*   "plain"   gomp_barrier_wait: the start and the very end of a nested   *)
(*             team                                                        *)
(*   "wait"    gomp_team_barrier_wait: GOMP_barrier, and the end of the    *)
(*             region (gomp_team_barrier_wait_final)                       *)
(*   "cancel"  gomp_team_barrier_wait_cancel: GOMP_barrier_cancel          *)
(*                                                                         *)
(* The places of a thread:                                                 *)
(*                                                                         *)
(*   "body"     before its next barrier     "end"  at the end of a         *)
(*              cancelled region, before the barrier there                 *)
(*   "open"     last at the barrier: to store the next generation          *)
(*   "post"     to post sem1 for each waiter, "sem2" waiting for the last  *)
(*              of them to leave; "cpost", "csem2" the same in a           *)
(*              cancellation                                               *)
(*   "sem1"     waiting                     "look"    at the generation    *)
(*   "leave"    to take itself off arrived, "cleave" if it has seen the    *)
(*              cancellation; "post2", "cpost2" having been the last       *)
(*   "cancel"   in gomp_team_barrier_cancel "done"    behind all barriers  *)
(*                                                                         *)
(* The semaphores are those of AbstractSemaphore; there are no explicit    *)
(* tasks.                                                                  *)
(***************************************************************************)
EXTENDS Integers, Sequences, FiniteSets

CONSTANTS
  Threads, Master,
  Regions,   \* [barriers |-> those of its body, cancellers |-> the threads
             \*  whose code holds a cancel directive]
  Wrap       \* the number of phases before the generation wraps around

TeamAssumption == /\ Master \in Threads /\ "free" \notin Threads
                  /\ IsFiniteSet(Threads) /\ Cardinality(Threads) > 1
RegionAssumption ==
  \A r \in Regions : /\ r.barriers \in Seq({"wait", "cancel"})
                     /\ r.cancellers \subseteq Threads
WrapAssumption == Wrap \in Nat /\ Wrap >= 2

VARIABLES
  region,
  generation,      \* bar->generation: phase and the bit BAR_CANCELLED
  arrived, cancellable, sem1, sem2,
  mutex1,          \* the thread that holds it, or "free"
  team_cancelled, freed,
  state,           \* state[t]: the phase in which t has arrived
  n,               \* n[t]: how many posts t still owes
  pos,             \* pos[t]: index in Program of t's next or current barrier
  pc

bar  == <<generation, arrived, cancellable, sem1, sem2, mutex1>>
team == <<region, team_cancelled, freed>>
vars == <<bar, team, state, n, pos, pc>>

total    == Cardinality(Threads)
Program  == <<"plain">> \o region.barriers \o <<"wait", "plain">>
FinalPos == Len(region.barriers) + 2
LastPos  == Len(region.barriers) + 3
Kind(t)  == IF pos[t] > LastPos THEN "none" ELSE Program[pos[t]]

Following(phase) == [phase |-> (phase + 1) % Wrap, cancelled |-> FALSE]

Goto(t, place) == pc' = [pc EXCEPT ![t] = place]
Leave(t) == /\ pos' = [pos EXCEPT ![t] = @ + 1]
            /\ Goto(t, IF pos[t] = LastPos THEN "done" ELSE "body")
SkipToEnd(t) == pos' = [pos EXCEPT ![t] = FinalPos] /\ Goto(t, "end")

Init == /\ region \in Regions
        /\ generation = [phase |-> 0, cancelled |-> FALSE]
        /\ arrived = 0 /\ sem1 = 0 /\ sem2 = 0
        /\ cancellable = FALSE
        /\ mutex1 = "free"
        /\ team_cancelled = FALSE
        /\ freed = FALSE
        /\ state = [t \in Threads |-> 0]
        /\ n = [t \in Threads |-> 0]
        /\ pos = [t \in Threads |-> 1]
        /\ pc = [t \in Threads |-> "body"]

-----------------------------------------------------------------------------

(* gomp_barrier_wait_start and gomp_barrier_wait_cancel_start, up to the   *)
(* unlock of mutex1 if t is not the last.  At a cancellable barrier of a   *)
(* cancelled region a thread does not count itself.                        *)
Arrive(t) ==
  /\ pc[t] \in {"body", "end"}
  /\ mutex1 = "free"
  /\ IF Kind(t) = "cancel" /\ generation.cancelled
     THEN SkipToEnd(t) /\ UNCHANGED <<arrived, cancellable, mutex1, state, n>>
     ELSE /\ state' = [state EXCEPT ![t] = generation.phase]
          /\ IF arrived + 1 = total
             THEN /\ arrived' = arrived
                  /\ n' = [n EXCEPT ![t] = total - 1]
                  /\ mutex1' = t
                  /\ cancellable' = IF Kind(t) = "cancel" THEN FALSE ELSE cancellable
                  /\ Goto(t, IF Kind(t) = "plain" THEN "post" ELSE "open")
             ELSE /\ arrived' = arrived + 1
                  /\ cancellable' = IF Kind(t) = "cancel" THEN TRUE ELSE cancellable
                  /\ Goto(t, "sem1")
                  /\ UNCHANGED <<mutex1, n>>
          /\ UNCHANGED pos
  /\ UNCHANGED <<generation, sem1, sem2, team>>

(* The last thread stores the next generation, without BAR_CANCELLED. *)
Open(t) ==
  /\ pc[t] = "open"
  /\ generation' = Following(state[t])
  /\ Goto(t, "post")
  /\ UNCHANGED <<arrived, cancellable, sem1, sem2, mutex1, team, state, n, pos>>

(* ... and lets the others go one by one. *)
Post(t) ==
  /\ pc[t] \in {"post", "cpost"}
  /\ sem1' = sem1 + 1
  /\ n' = [n EXCEPT ![t] = @ - 1]
  /\ Goto(t, IF n[t] > 1 THEN pc[t] ELSE IF pc[t] = "post" THEN "sem2" ELSE "csem2")
  /\ UNCHANGED <<generation, arrived, cancellable, sem2, mutex1, team, state, pos>>

(* mutant: the last thread does not wait for the others to leave *)
AllLeft_NotAwaited(t) ==
  /\ pc[t] = "sem2"
  /\ sem2' = sem2
  /\ mutex1' = "free"
  /\ Leave(t)
  /\ UNCHANGED <<generation, arrived, cancellable, sem1, team, state, n>>

AllLeft(t) ==
  /\ pc[t] = "sem2"
  /\ sem2 > 0
  /\ sem2' = sem2 - 1
  /\ mutex1' = "free"
  /\ Leave(t)
  /\ UNCHANGED <<generation, arrived, cancellable, sem1, team, state, n>>

(* A waiter takes a post; in a team barrier it looks at the generation. *)
Sem1(t) ==
  /\ pc[t] = "sem1"
  /\ sem1 > 0
  /\ sem1' = sem1 - 1
  /\ Goto(t, IF Kind(t) = "plain" THEN "leave" ELSE "look")
  /\ UNCHANGED <<generation, arrived, cancellable, sem2, mutex1, team, state, n, pos>>

(* mutant: a waiter overlooks the cancellation *)
Look_MissesCancel(t) ==
  /\ pc[t] = "look"
  /\ Goto(t, IF generation = Following(state[t]) THEN "leave" ELSE "sem1")
  /\ UNCHANGED <<bar, team, state, n, pos>>

Look(t) ==
  /\ pc[t] = "look"
  /\ Goto(t, IF Kind(t) = "cancel" /\ generation.cancelled THEN "cleave"
             ELSE IF generation = Following(state[t]) THEN "leave" ELSE "sem1")
  /\ UNCHANGED <<bar, team, state, n, pos>>

(* The fetch-and-decrement of arrived; the last one to leave posts sem2.   *)
TakeOff(t) ==
  /\ pc[t] \in {"leave", "cleave"}
  /\ arrived' = arrived - 1
  /\ IF arrived = 1 THEN Goto(t, IF pc[t] = "leave" THEN "post2" ELSE "cpost2") /\ UNCHANGED pos
     ELSE IF pc[t] = "leave" THEN Leave(t) ELSE SkipToEnd(t)
  /\ UNCHANGED <<generation, cancellable, sem1, sem2, mutex1, team, state, n>>

Post2(t) ==
  /\ pc[t] \in {"post2", "cpost2"}
  /\ sem2' = sem2 + 1
  /\ IF pc[t] = "post2" THEN Leave(t) ELSE SkipToEnd(t)
  /\ UNCHANGED <<generation, arrived, cancellable, sem1, mutex1, team, state, n>>

-----------------------------------------------------------------------------
(* GOMP_cancel (GOMP_CANCEL_PARALLEL) and gomp_team_barrier_cancel.  Those *)
(* who wait in a cancellable barrier are let go; those in another one, as  *)
(* at the end of the region, go on waiting.                                *)

InBody(t) == pc[t] = "body" /\ pos[t] \in 2 .. FinalPos

(* Where a program may cancel the region: with cancellable barriers ahead. *)
MayCancel(t) == /\ t \in region.cancellers
                /\ InBody(t)
                /\ \A k \in pos[t] .. FinalPos - 1 : Program[k] = "cancel"

Cancel(t) ==
  /\ MayCancel(t)
  /\ team_cancelled' = TRUE
  /\ IF generation.cancelled THEN SkipToEnd(t) ELSE Goto(t, "cancel") /\ UNCHANGED pos
  /\ UNCHANGED <<bar, region, freed, state, n>>

CancelSet(t) ==
  /\ pc[t] = "cancel"
  /\ mutex1 = "free"
  /\ generation' = [generation EXCEPT !.cancelled = TRUE]
  /\ IF ~generation.cancelled /\ cancellable /\ arrived > 0
     THEN /\ mutex1' = t
          /\ n' = [n EXCEPT ![t] = arrived]
          /\ Goto(t, "cpost")
          /\ UNCHANGED <<cancellable, pos>>
     ELSE /\ cancellable' = (cancellable /\ generation.cancelled)
          /\ SkipToEnd(t)
          /\ UNCHANGED <<mutex1, n>>
  /\ UNCHANGED <<arrived, sem1, sem2, team, state>>

CancelledLeft(t) ==
  /\ pc[t] = "csem2"
  /\ sem2 > 0
  /\ sem2' = sem2 - 1
  /\ cancellable' = FALSE
  /\ mutex1' = "free"
  /\ SkipToEnd(t)
  /\ UNCHANGED <<generation, arrived, sem1, team, state, n>>

(* GOMP_cancellation_point *)
CancellationPoint(t) ==
  /\ InBody(t)
  /\ generation.cancelled
  /\ SkipToEnd(t)
  /\ UNCHANGED <<bar, team, state, n>>

(* mutant: the barrier is destroyed without a look at mutex1 *)
FreeTeam_AtOnce ==
  /\ pc[Master] = "done"
  /\ ~freed
  /\ freed' = TRUE
  /\ UNCHANGED <<bar, region, team_cancelled, state, n, pos, pc>>

(* gomp_team_end: gomp_barrier_destroy takes mutex1 once. *)
FreeTeam ==
  /\ pc[Master] = "done"
  /\ ~freed
  /\ mutex1 = "free"
  /\ freed' = TRUE
  /\ UNCHANGED <<bar, region, team_cancelled, state, n, pos, pc>>

-----------------------------------------------------------------------------

Step(t) == \/ Arrive(t) \/ Open(t) \/ Post(t) \/ AllLeft(t)
           \/ Sem1(t) \/ Look(t) \/ TakeOff(t) \/ Post2(t)
           \/ CancelSet(t) \/ CancelledLeft(t)

AllDone == freed /\ \A t \in Threads : pc[t] = "done"

Next == \/ \E t \in Threads : Step(t) \/ Cancel(t) \/ CancellationPoint(t)
        \/ FreeTeam
        \/ AllDone /\ UNCHANGED vars

Spec == Init /\ [][Next]_vars

(* Every thread that is not blocked runs. *)
FairSpec == Spec /\ \A t \in Threads : WF_vars(Step(t)) /\ WF_vars(FreeTeam)

-----------------------------------------------------------------------------

(* u has counted itself at the barrier with index k. *)
Arrived(u, k) ==
  \/ pos[u] > k
  \/ pos[u] = k /\ pc[u] \notin {"body", "end", "cancel", "cpost", "csem2"}

(* No thread gets past a barrier before every thread of the team has       *)
(* arrived there, but the one that saw the cancellation and went to the    *)
(* end of the region.                                                      *)
BarrierSync ==
  \A t, u \in Threads : \A k \in 1 .. LastPos :
    /\ pos[t] > k
    /\ k \in 2 .. FinalPos - 1 => pos[t] < FinalPos \/ ~team_cancelled
    => Arrived(u, k)

(* Once the barrier has been destroyed nobody is in it. *)
FreedTeamUntouched == freed => \A t \in Threads : pc[t] = "done"

(* Every thread gets through the region, cancelled or not. *)
RegionEnds == <>AllDone

(* The barrier that t waits in has let another thread go. *)
Overtaken(t) == Kind(t) = "wait" /\ \E u \in Threads : pos[u] > pos[t]

(* A barrier that lets one thread go lets all go, also if the region is    *)
(* cancelled behind it.                                                    *)
CompletedWaitReturns == \A t \in Threads : []<>~Overtaken(t)
=============================================================================
