---------------------------- MODULE ParallelProofs ----------------------------
(***************************************************************************)
(* The theorems about the pool, the number of threads of a region and the  *)
(* two barriers of a nested team, carried over to the composition.         *)
(***************************************************************************)
EXTENDS Parallel, TeamPoolProofs

(* The steps of the others leave a side as it is. *)

LEMMA PoolRefined == ParallelSpec => Spec
<1>1. ParallelInit => Init
  BY DEF ParallelInit
<1>2. [ParallelNext]_allVars => [Next]_vars
  BY DEF ParallelNext, allVars, PoolSide, LimitSide, PlacesSide, BarrierSide, PosixSide
<1> QED
  BY <1>1, <1>2, PTL DEF ParallelSpec, Spec

LEMMA LimitRefined == ParallelSpec => L!Spec
<1>1. ParallelInit => L!Init
  BY DEF ParallelInit
<1>2. [ParallelNext]_allVars => [L!Next]_(L!vars)
  BY DEF ParallelNext, allVars, limitVars, PoolSide, LimitSide, PlacesSide, BarrierSide,
         PosixSide, L!vars, L!cap, L!locals
<1> QED
  BY <1>1, <1>2, PTL DEF ParallelSpec, L!Spec

LEMMA BarrierRefined == ParallelSpec => B!Spec
<1>1. ParallelInit => B!Init
  BY DEF ParallelInit
<1>2. [ParallelNext]_allVars => [B!Next]_(B!vars)
  BY DEF ParallelNext, allVars, teamVars, PoolSide, LimitSide, PlacesSide, BarrierSide,
         PosixSide, B!vars, B!shared, B!flags
<1> QED
  BY <1>1, <1>2, PTL DEF ParallelSpec, B!Spec

LEMMA PosixRefined == ParallelSpec => X!Spec
<1>1. ParallelInit => X!Init
  BY DEF ParallelInit
<1>2. [ParallelNext]_allVars => [X!Next]_(X!vars)
  BY DEF ParallelNext, allVars, posixVars, PoolSide, LimitSide, PlacesSide, BarrierSide,
         PosixSide, X!vars, X!bar, X!team
<1> QED
  BY <1>1, <1>2, PTL DEF ParallelSpec, X!Spec

-----------------------------------------------------------------------------

(* However the pool grows, shrinks and is left: gomp_team_end waits for    *)
(* the whole team, gomp_thread_start runs no stale function, no team that  *)
(* gomp_team_end or gomp_free_thread has freed is used, and the dock of a  *)
(* pool that gomp_free_thread has freed by nobody but threads that have    *)
(* been let go, when each team is made for as many threads as it is        *)
(* started with.                                                           *)
THEOREM PoolKeepsTogether ==
  ASSUME WholeTeams
  PROVE  ParallelSpec => [](/\ TeamEndWaits /\ NoStaleFunction
                            /\ TeamOutlivesUse /\ OnlyLetGoAtFreedDock)
<1>1. Spec => []TeamEndWaits
  BY TeamsAreWaitedFor
<1>2. Spec => []NoStaleFunction
  BY NobodyIsStale
<1>3. Spec => []TeamOutlivesUse
  BY NobodyUsesAFreedTeam
<1>4. Spec => []OnlyLetGoAtFreedDock
  BY FreedDockLeftToLetGo
<1> QED
  BY <1>1, <1>2, <1>3, <1>4, PoolRefined, PTL

(* Whatever the programs and the limit, and however the members reserve:   *)
(* the threads that run in a contention group are reserved and no more     *)
(* than thread_limit_var (gomp_resolve_num_threads, GOMP_parallel_end), as *)
(* long as GOMP_parallel raises no number; and where the initial threads   *)
(* agree on the first number it never does.                                *)
THEOREM ReservedWithinLimit ==
  ASSUME LimitAssumptions
  PROVE  ParallelSpec => ThreadLimitHeld /\ [](L!FirstAgreed => L!NeverRaised)
<1>1. L!Spec => L!LimitHeldUnlessRaised
  BY L!GroupsWithinLimit DEF LimitAssumptions
<1>2. L!Spec => [](L!FirstAgreed => L!NeverRaised)
  BY L!AgreedNeverRaised DEF LimitAssumptions
<1> QED
  BY <1>1, <1>2, LimitRefined, PTL DEF ThreadLimitHeld

(* Where the initial threads begin with GOMP_parallel, none of its teams   *)
(* is larger than the largest first one (examples/readme), whatever comes  *)
(* later and whoever races for FIRST; the combined constructs do not ask.  *)
THEOREM FirstDirectiveLimits ==
  ASSUME LimitAssumptions
  PROVE  ParallelSpec => []FirstLimitsAll
<1>1. L!Spec => []L!FirstLimitsAll
  BY L!FirstRegionLimits DEF LimitAssumptions
<1>2. L!FirstLimitsAll => FirstLimitsAll
  BY DEF FirstLimitsAll
<1> QED
  BY <1>1, <1>2, LimitRefined, PTL

(* In a nested team of any size nobody passes a barrier before all are     *)
(* there, with futexes (config/linux/bar.c) or without (config/posix).     *)
THEOREM TeamsKeepTogether ==
  ASSUME BarrierAssumptions, PosixAssumptions
  PROVE  ParallelSpec => []BarrierSync
<1>1. B!Spec => []B!BarrierSync
  BY B!BarrierKeepsTogether DEF BarrierAssumptions
<1>2. X!Spec => []X!BarrierSync
  BY X!PosixBarrierKeepsTogether DEF PosixAssumptions
<1>3. B!BarrierSync /\ X!BarrierSync => BarrierSync
  BY DEF BarrierSync
<1> QED
  BY <1>1, <1>2, <1>3, BarrierRefined, PosixRefined, PTL

(* The canceller and the last thread at a barrier both replace the whole   *)
(* generation, and neither update is lost (gomp_team_barrier_cancel).      *)
THEOREM GenerationUpdatesKept ==
  ASSUME BarrierAssumptions
  PROVE  ParallelSpec => []NoLostUpdate
<1>1. B!Spec => []B!NoLostUpdate
  BY B!UpdatesKept DEF BarrierAssumptions
<1>2. B!NoLostUpdate => NoLostUpdate
  BY DEF NoLostUpdate
<1> QED
  BY <1>1, <1>2, BarrierRefined, PTL

(* Whoever finds at a cancellation point that a loop is cancelled is in    *)
(* that loop: the last thread of the barrier behind it takes the flag back *)
(* before any thread gets past (gomp_team_barrier_wait_cancel_end).        *)
THEOREM LoopCancellationEnds ==
  ASSUME BarrierAssumptions
  PROVE  ParallelSpec => []LoopCancelStays
<1>1. B!Spec => []B!LoopCancelStays
  BY B!LoopCancellationStays DEF BarrierAssumptions
<1>2. B!LoopCancelStays => LoopCancelStays
  BY DEF LoopCancelStays
<1> QED
  BY <1>1, <1>2, BarrierRefined, PTL

(* The master frees a team only when no thread will look at it any more    *)
(* (gomp_team_end), with a barrier of either kind.                         *)
THEOREM FreedTeamsUntouched ==
  ASSUME BarrierAssumptions, PosixAssumptions
  PROVE  ParallelSpec => []FreedTeamUntouched
<1>1. B!Spec => []B!FreedTeamUntouched
  BY B!FreedTeamLeftAlone DEF BarrierAssumptions
<1>2. X!Spec => []X!FreedTeamUntouched
  BY X!DestroyedBarrierEmpty DEF PosixAssumptions
<1>3. B!FreedTeamUntouched /\ X!FreedTeamUntouched => FreedTeamUntouched
  BY DEF FreedTeamUntouched
<1> QED
  BY <1>1, <1>2, <1>3, BarrierRefined, PosixRefined, PTL
=============================================================================
