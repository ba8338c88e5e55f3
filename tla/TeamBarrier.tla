----------------------------- MODULE TeamBarrier -----------------------------
(***************************************************************************)
(* The barrier of a nested team, from the moment its threads exist until   *)
(* the master frees the team: gomp_barrier_t of config/linux/bar.{h,c} as  *)
(* team.c, barrier.c, single.c and GOMP_cancel use it.  Every thread goes  *)
(* through the same barriers, those of one of the Regions between those of *)
(* the team:                                                               *)
(*                                                                         *)
(*   "plain"   gomp_barrier_wait: the start of a nested team, and the      *)
(*             master's side of the very end                               *)
(*   "wait"    gomp_team_barrier_wait: GOMP_barrier, GOMP_single_copy_*    *)
(*   "cancel"  gomp_team_barrier_wait_cancel: GOMP_barrier_cancel          *)
(*   "final"   gomp_team_barrier_wait_final, on a counter of its own       *)
(*   "last"    gomp_barrier_wait_last: the workers' side of the very end   *)
(*                                                                         *)
(* The generation word is a record: phase counts modulo Wrap (in the code  *)
(* 2^29), cancelled is the bit BAR_CANCELLED.  Explicit tasks, with their  *)
(* bits BAR_TASK_PENDING and BAR_WAITING_FOR_TASK, are not in this module: *)
(* team->task_count is 0 throughout.                                       *)
(***************************************************************************)
EXTENDS Integers, Sequences, FiniteSets

CONSTANTS
  Threads,      \* the threads of the team
  Master,       \* the one that ends and frees the team
  Regions,      \* the regions the team may be started for, each with the barriers
                \* of its body and the threads whose code holds a directive that
                \* cancels the region or, between two barriers, a loop
  Wrap          \* the number of phases before the counter wraps around

(* What the constants are; MCParallel assumes it of its instance.          *)
TeamAssumption == Master \in Threads /\ IsFiniteSet(Threads) /\ "free" \notin Threads
RegionAssumption ==
  \A r \in Regions : r \in [barriers : Seq({"wait", "cancel"}),
                           cancellers : SUBSET Threads, loop_cancellers : SUBSET Threads]
WrapAssumption == Wrap \in Nat /\ Wrap >= 2

VARIABLES
  region,         \* the region of this team
  generation,     \* bar->generation
  awaited,        \* bar->awaited
  awaited_final,  \* bar->awaited_final
  team_cancelled, \* team->team_cancelled
  work_share_cancelled,  \* team->work_share_cancelled: 0, or the index in Program
                  \* of the barrier behind the loop that was cancelled
  task_lock,      \* the thread that holds team->task_lock, or "free"
  freed,          \* the master has freed the team
  state,          \* state[t]: the generation t loaded in wait_start
  pos,            \* pos[t]: index in Program of t's next or current barrier
  pc              \* pc[t]: the step t is about to take

flags  == <<team_cancelled, work_share_cancelled>>
shared == <<region, generation, awaited, awaited_final, flags, task_lock, freed>>
vars   == <<shared, state, pos, pc>>

total == Cardinality(Threads)

Program  == <<"plain">> \o region.barriers \o <<"final", "last">>
FinalPos == Len(region.barriers) + 2
LastPos  == Len(region.barriers) + 3

Kind(t) == CASE pos[t] > LastPos -> "none"
             [] pos[t] = LastPos /\ t = Master -> "plain"
             [] OTHER -> Program[pos[t]]

(* state + BAR_INCR with the given cancelled bit. *)
Incremented(g, bit) == [phase |-> (g.phase + 1) % Wrap, cancelled |-> bit]

Goto(t, place) == pc' = [pc EXCEPT ![t] = place]

(* Thread t is through with its barrier and runs on to the next.           *)
Leave(t) == /\ pos' = [pos EXCEPT ![t] = pos[t] + 1]
            /\ Goto(t, IF pos[t] = LastPos THEN "done" ELSE "body")

(* Thread t branches to the end of the cancelled region.                   *)
SkipToEnd(t) == /\ pos' = [pos EXCEPT ![t] = FinalPos]
                /\ Goto(t, "end")

Init == /\ region \in Regions
        /\ generation = [phase |-> 0, cancelled |-> FALSE]
        /\ awaited = total
        /\ awaited_final = total
        /\ team_cancelled = FALSE
        /\ work_share_cancelled = 0
        /\ task_lock = "free"
        /\ freed = FALSE
        /\ state = [t \in Threads |-> generation]
        /\ pos = [t \in Threads |-> 1]
        /\ pc = [t \in Threads |-> "body"]

-----------------------------------------------------------------------------
(* Arriving: gomp_barrier_wait_start and gomp_barrier_wait_final_start. *)

LoadGeneration(t) ==
  /\ pc[t] \in {"body", "end"}
  /\ state' = [state EXCEPT ![t] = generation]
  /\ Goto(t, "arrive")
  /\ UNCHANGED <<shared, pos>>

(* What a thread that is not the last one does with its state: the wait    *)
(* functions differ only here, in Advance and in Check.                    *)
NotLast(t) ==
  CASE Kind(t) = "last" -> Leave(t)
    [] Kind(t) = "cancel" /\ state[t].cancelled -> SkipToEnd(t)
    [] OTHER -> Goto(t, "spin") /\ UNCHANGED pos

(* mutant: the end of the region counts on the ordinary counter *)
Arrive_OneCounter(t) ==
  /\ pc[t] = "arrive"
  /\ awaited' = awaited - 1
  /\ IF awaited = 1 THEN Goto(t, "reset") /\ UNCHANGED pos ELSE NotLast(t)
  /\ UNCHANGED <<region, generation, awaited_final, flags, task_lock, freed, state>>

(* The decrement of awaited, or of awaited_final for "final". *)
Arrive(t) ==
  /\ pc[t] = "arrive"
  /\ IF Kind(t) = "final"
     THEN /\ awaited_final' = awaited_final - 1
          /\ UNCHANGED awaited
          /\ IF awaited_final = 1
             THEN Goto(t, "reset_final") /\ UNCHANGED pos
             ELSE NotLast(t)
     ELSE /\ awaited' = awaited - 1
          /\ UNCHANGED awaited_final
          /\ IF awaited = 1
             THEN Goto(t, "reset") /\ UNCHANGED pos
             ELSE NotLast(t)
  /\ UNCHANGED <<region, generation, flags, task_lock, freed, state>>

-----------------------------------------------------------------------------
(* The last thread to arrive. *)

ResetFinal(t) ==
  /\ pc[t] = "reset_final"
  /\ awaited_final' = total
  /\ Goto(t, "reset")
  /\ UNCHANGED <<region, generation, awaited, flags, task_lock, freed, state, pos>>

(* mutant: a cancelled region leaves the counter as it is *)
ResetAwaited_NotFinal(t) ==
  /\ pc[t] = "reset"
  /\ awaited' = IF Kind(t) = "final" THEN awaited ELSE total
  /\ work_share_cancelled' = IF Kind(t) \in {"plain", "last"} THEN work_share_cancelled ELSE 0
  /\ Goto(t, "advance")
  /\ UNCHANGED <<region, generation, awaited_final, team_cancelled, task_lock, freed, state, pos>>

(* mutant: a cancellable barrier leaves the cancellation of the loop *)
ResetAwaited_KeepsLoop(t) ==
  /\ pc[t] = "reset"
  /\ awaited' = total
  /\ work_share_cancelled' = IF Kind(t) \in {"wait", "final"} THEN 0 ELSE work_share_cancelled
  /\ Goto(t, "advance")
  /\ UNCHANGED <<region, generation, awaited_final, team_cancelled, task_lock, freed, state, pos>>

(* The team versions also take back the cancellation of a loop. *)
ResetAwaited(t) ==
  /\ pc[t] = "reset"
  /\ awaited' = total
  /\ work_share_cancelled' = IF Kind(t) \in {"plain", "last"} THEN work_share_cancelled ELSE 0
  /\ Goto(t, "advance")
  /\ UNCHANGED <<region, generation, awaited_final, team_cancelled, task_lock, freed, state, pos>>

(* The store of the next generation.  gomp_barrier_wait_end adds to what   *)
(* the word holds now; the team versions add to the state loaded on        *)
(* arrival, without the cancelled bit in all but the cancellable one.      *)
NextGeneration(t) ==
  Incremented(generation,
              CASE Kind(t) \in {"plain", "last"}  -> generation.cancelled
                [] Kind(t) \in {"wait", "final"}  -> FALSE
                [] Kind(t) = "cancel"             -> state[t].cancelled)

Advance(t) ==
  /\ pc[t] = "advance"
  /\ generation' = NextGeneration(t)
  /\ Goto(t, "wake")
  /\ UNCHANGED <<region, awaited, awaited_final, flags, task_lock, freed, state, pos>>

(* futex_wake (INT_MAX): every sleeper goes on to look at the word.        *)
Woken == [u \in Threads |-> IF pc[u] = "asleep" THEN "check" ELSE pc[u]]

(* mutant: one sleeper is woken *)
WakeAll_One(t) ==
  /\ pc[t] = "wake"
  /\ pos' = [pos EXCEPT ![t] = pos[t] + 1]
  /\ \E u \in Threads :
       /\ pc[u] = "asleep" \/ \A w \in Threads : pc[w] # "asleep"
       /\ pc' = [pc EXCEPT ![u] = Woken[u],
                           ![t] = IF pos[t] = LastPos THEN "done" ELSE "body"]
  /\ UNCHANGED <<shared, state>>

WakeAll(t) ==
  /\ pc[t] = "wake"
  /\ pos' = [pos EXCEPT ![t] = pos[t] + 1]
  /\ pc' = [Woken EXCEPT ![t] = IF pos[t] = LastPos THEN "done" ELSE "body"]
  /\ UNCHANGED <<shared, state>>

-----------------------------------------------------------------------------
(* The others: do_wait on the state, then another look at the word. *)

SpinChanged(t) ==
  /\ pc[t] = "spin"
  /\ generation # state[t]
  /\ Goto(t, "check")
  /\ UNCHANGED <<shared, state, pos>>

SpinTimeout(t) ==
  /\ pc[t] = "spin"
  /\ Goto(t, "fwait")
  /\ UNCHANGED <<shared, state, pos>>

FutexWait(t) ==
  /\ pc[t] = "fwait"
  /\ Goto(t, IF generation = state[t] THEN "asleep" ELSE "check")
  /\ UNCHANGED <<shared, state, pos>>

Interrupted(t) ==
  /\ pc[t] = "asleep"
  /\ Goto(t, "check")
  /\ UNCHANGED <<shared, state, pos>>

(* mutant: any change of the word lets a waiter go *)
Check_AnyChange(t) ==
  /\ pc[t] = "check"
  /\ IF generation # state[t]
     THEN Leave(t)
     ELSE Goto(t, "spin") /\ UNCHANGED pos
  /\ UNCHANGED <<shared, state>>

(* mutant: a waiter leaves only on exactly the next generation, whatever   *)
(* the kind of barrier                                                     *)
Check_MissesCancel(t) ==
  /\ pc[t] = "check"
  /\ IF generation = Incremented(state[t], FALSE)
     THEN Leave(t)
     ELSE Goto(t, "spin") /\ UNCHANGED pos
  /\ UNCHANGED <<shared, state>>

(* The team versions leave when the word is exactly state + BAR_INCR, the  *)
(* cancellable one also, and first, when it shows BAR_CANCELLED.           *)
Check(t) ==
  /\ pc[t] = "check"
  /\ CASE Kind(t) = "plain" /\ generation # state[t] -> Leave(t)
       [] Kind(t) = "cancel" /\ generation.cancelled -> SkipToEnd(t)
       [] Kind(t) \in {"wait", "cancel", "final"}
            /\ generation = Incremented(state[t], FALSE) -> Leave(t)
       [] OTHER -> Goto(t, "spin") /\ UNCHANGED pos
  /\ UNCHANGED <<shared, state>>

-----------------------------------------------------------------------------
(* GOMP_cancel (GOMP_CANCEL_PARALLEL): the word is read and written back   *)
(* under task_lock, which the last thread of a barrier does not take.  The *)
(* canceller then branches to the end of the region.                       *)

InBody(t) == pc[t] = "body" /\ pos[t] \in 2 .. FinalPos

(* Where a program may cancel the region: with cancellable barriers ahead. *)
MayCancel(t) == /\ t \in region.cancellers
                /\ InBody(t)
                /\ \A k \in pos[t] .. FinalPos - 1 : Program[k] = "cancel"

Cancel(t) ==
  /\ MayCancel(t)
  /\ team_cancelled' = TRUE
  /\ Goto(t, "cancel_lock")
  /\ UNCHANGED <<region, generation, awaited, awaited_final, work_share_cancelled, task_lock, freed,
                 state, pos>>

CancelRead(t) ==
  /\ pc[t] = "cancel_lock"
  /\ task_lock = "free"
  /\ IF generation.cancelled
     THEN SkipToEnd(t) /\ UNCHANGED <<task_lock, state>>
     ELSE /\ task_lock' = t
          /\ state' = [state EXCEPT ![t] = generation]
          /\ Goto(t, "cancel_set")
          /\ UNCHANGED pos
  /\ UNCHANGED <<region, generation, awaited, awaited_final, flags, freed>>

CancelSet(t) ==
  /\ pc[t] = "cancel_set"
  /\ generation' = [state[t] EXCEPT !.cancelled = TRUE]
  /\ task_lock' = "free"
  /\ Goto(t, "cancel_wake")
  /\ UNCHANGED <<region, awaited, awaited_final, flags, freed, state, pos>>

CancelWake(t) ==
  /\ pc[t] = "cancel_wake"
  /\ pos' = [pos EXCEPT ![t] = FinalPos]
  /\ pc' = [Woken EXCEPT ![t] = "end"]
  /\ UNCHANGED <<shared, state>>

(* GOMP_cancel (GOMP_CANCEL_LOOP), in a loop that ends with a cancellable  *)
(* barrier, to which the canceller branches.  Another thread does so at    *)
(* its next cancellation point if it sees work_share_cancelled.            *)
CancelLoop(t) ==
  /\ t \in region.loop_cancellers
  /\ InBody(t) /\ Kind(t) = "cancel"
  /\ work_share_cancelled' = pos[t]
  /\ UNCHANGED <<region, generation, awaited, awaited_final, team_cancelled, task_lock, freed,
                 state, pos, pc>>

(* GOMP_cancellation_point: a thread that sees the bit goes to the end. *)
CancellationPoint(t) ==
  /\ InBody(t)
  /\ generation.cancelled
  /\ SkipToEnd(t)
  /\ UNCHANGED <<shared, state>>

(* gomp_team_end, past the last barrier. *)
FreeTeam ==
  /\ pc[Master] = "done"
  /\ ~freed
  /\ freed' = TRUE
  /\ UNCHANGED <<region, generation, awaited, awaited_final, flags, task_lock, state, pos, pc>>

-----------------------------------------------------------------------------

(* Every step a thread cannot refuse to take. *)
Step(t) == \/ LoadGeneration(t)
           \/ Arrive(t)
           \/ ResetFinal(t)
           \/ ResetAwaited(t)
           \/ Advance(t)
           \/ WakeAll(t)
           \/ SpinChanged(t)
           \/ SpinTimeout(t)
           \/ FutexWait(t)
           \/ Check(t)
           \/ CancelRead(t)
           \/ CancelSet(t)
           \/ CancelWake(t)

AllDone == freed /\ \A t \in Threads : pc[t] = "done"

Next == \/ \E t \in Threads : \/ Step(t) \/ Interrupted(t)
                             \/ Cancel(t) \/ CancelLoop(t) \/ CancellationPoint(t)
        \/ FreeTeam
        \/ AllDone /\ UNCHANGED vars

Spec == Init /\ [][Next]_vars

(* Every thread that is not blocked runs, and the region's code between    *)
(* two barriers ends.                                                      *)
FairSpec == Spec /\ \A t \in Threads : WF_vars(Step(t)) /\ WF_vars(FreeTeam)

-----------------------------------------------------------------------------

(* u has counted itself at the barrier with index k. *)
Arrived(u, k) ==
  \/ pos[u] > k
  \/ pos[u] = k /\ pc[u] \notin {"body", "end", "arrive", "cancel_lock", "cancel_set",
                                "cancel_wake"}

(* No thread gets past a barrier before every thread of the team has       *)
(* arrived there.  The exceptions are the code's own: a thread that saw    *)
(* the cancellation goes from anywhere in the body straight to the end of  *)
(* the region, and workers do not wait at the very last barrier.           *)
BarrierSync ==
  \A t, u \in Threads : \A k \in 1 .. LastPos :
    /\ pos[t] > k
    /\ k \in 2 .. FinalPos - 1 => pos[t] < FinalPos \/ ~team_cancelled
    /\ k = LastPos => t = Master
    => Arrived(u, k)

(* Nobody writes the generation between the canceller's read and write, or *)
(* between the load and the store of a last thread: neither update undoes  *)
(* the other.                                                              *)
NoLostUpdate ==
  \A t \in Threads :
    \/ pc[t] = "cancel_set"
    \/ pc[t] = "advance" /\ Kind(t) \notin {"plain", "last", "final"}
    => generation = state[t]

(* Once the master has freed the team, the workers never look at it again: *)
(* what is left to the one that let the master go is a futex_wake, which   *)
(* only names the address.                                                 *)
FreedTeamUntouched ==
  freed => \A t \in Threads : pc[t] \in {"wake", "done"}

(* Whoever sees a cancelled loop at a cancellation point is in that loop:  *)
(* the last thread of its barrier takes the cancellation back before any   *)
(* thread gets to the next loop.                                           *)
LoopCancelStays ==
  \A t \in Threads : InBody(t) /\ work_share_cancelled # 0 => work_share_cancelled = pos[t]

(* Every thread gets through the whole region and the team is freed,       *)
(* cancelled or not.                                                       *)
RegionEnds == <>AllDone

(* The barrier that t waits in has let another thread go. *)
Overtaken(t) == Kind(t) = "wait" /\ \E u \in Threads : pos[u] > pos[t]

(* What single.c says of GOMP_single_copy_start, and barrier.c of orphaned *)
(* barriers: once the last thread has arrived and opened the barrier, the  *)
(* others return from it.                                                  *)
CompletedWaitReturns == \A t \in Threads : []<>~Overtaken(t)
=============================================================================
