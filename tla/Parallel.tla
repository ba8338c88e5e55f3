------------------------------- MODULE Parallel -------------------------------
(***************************************************************************)
(* The sides of a parallel region: TeamPool, the threads a region gets     *)
(* from the pool; ThreadLimit (L), how many they are; Places (P), where    *)
(* they run; TeamBarrier (B), the barriers of a nested team and its        *)
(* cancellation; and PosixBarrier (X), the same without futexes.  They     *)
(* share no state, so a behaviour is one of the side chosen at the start,  *)
(* with the variables of the others at rest.  L, B and X come with the     *)
(* theorems about them, which ParallelProofs uses.                         *)
(***************************************************************************)
EXTENDS TeamPool

CONSTANTS
  Initials, Programs, Calls, Limit, MaxTeam,        \* of ThreadLimit
  NumPlaces, MaxLevels, PlacedPrograms,             \* of Places
  TeamThreads, NestedRegions, PosixRegions,         \* of the nested team, whose master is
  NumPhases                                         \* also called Master

VARIABLES side,
          program, FIRST, ARINC_MAX_THREADS, threads_busy, has_pool, size, nested, step,
          calls, request, num_threads, busy, place,
          place_program, place_pool, place_dock, place_managed, levels, place_pc,
          place_local, threads,
          team_region, generation, awaited, awaited_final, team_cancelled, work_share_cancelled,
          task_lock, freed, state, pos, body,
          posix_region, posix_generation, arrived, cancellable, sem1, sem2, mutex1,
          posix_cancelled, posix_freed, posix_state, owed, posix_pos, posix_pc

L == INSTANCE ThreadLimitProofs WITH pool <- has_pool, pc <- place

B == INSTANCE TeamBarrierProofs WITH
       Threads <- TeamThreads, Regions <- NestedRegions, Wrap <- NumPhases,
       region <- team_region, pc <- body

X == INSTANCE PosixBarrierProofs WITH
       Threads <- TeamThreads, Regions <- PosixRegions, Wrap <- NumPhases,
       region <- posix_region, generation <- posix_generation, team_cancelled <- posix_cancelled,
       freed <- posix_freed, state <- posix_state, n <- owed, pos <- posix_pos, pc <- posix_pc

P == INSTANCE Places WITH Programs <- PlacedPrograms,
                          program <- place_program, pool <- place_pool, dock <- place_dock,
                          managed <- place_managed, local <- place_local, pc <- place_pc

LimitAssumptions == L!LimitAssumption /\ L!ProgramsAssumption
BarrierAssumptions == B!TeamAssumption /\ B!RegionAssumption /\ B!WrapAssumption
PosixAssumptions == X!TeamAssumption /\ X!RegionAssumption /\ X!WrapAssumption

-----------------------------------------------------------------------------

Sides == {"pool", "limit", "places", "barrier", "posix"}

ParallelInit == /\ side \in Sides
                /\ side # "limit" => program = CHOOSE p \in Programs : TRUE
                /\ side # "places" => place_program = CHOOSE p \in PlacedPrograms : TRUE
                /\ side # "barrier" => team_region = CHOOSE r \in NestedRegions : TRUE
                /\ side # "posix" => posix_region = CHOOSE r \in PosixRegions : TRUE
                /\ Init
                /\ L!Init
                /\ P!Init
                /\ B!Init
                /\ X!Init

limitVars == <<program, FIRST, ARINC_MAX_THREADS, threads_busy, has_pool, size, nested, step,
               calls, request, num_threads, busy, place>>
placeVars == <<place_program, place_pool, place_dock, place_managed, levels, place_pc,
               place_local, threads>>
teamVars  == <<team_region, generation, awaited, awaited_final, team_cancelled,
               work_share_cancelled, task_lock, freed, state, pos, body>>
posixVars == <<posix_region, posix_generation, arrived, cancellable, sem1, sem2, mutex1,
               posix_cancelled, posix_freed, posix_state, owed, posix_pos, posix_pc>>
allVars   == <<side, vars, limitVars, placeVars, teamVars, posixVars>>

PoolSide(Action) ==
  side = "pool" /\ Action /\ UNCHANGED <<side, limitVars, placeVars, teamVars, posixVars>>
LimitSide(Action) ==
  side = "limit" /\ Action /\ UNCHANGED <<side, vars, placeVars, teamVars, posixVars>>
PlacesSide(Action) ==
  side = "places" /\ Action /\ UNCHANGED <<side, vars, limitVars, teamVars, posixVars>>
BarrierSide(Action) ==
  side = "barrier" /\ Action /\ UNCHANGED <<side, vars, limitVars, placeVars, posixVars>>
PosixSide(Action) ==
  side = "posix" /\ Action /\ UNCHANGED <<side, vars, limitVars, placeVars, teamVars>>

ParallelNext == \/ PoolSide(Next)
                \/ LimitSide(L!Next)
                \/ PlacesSide(P!Next)
                \/ BarrierSide(B!Next)
                \/ PosixSide(X!Next)

(* The operating system runs every thread of the pool and of the nested    *)
(* team that is not blocked.                                               *)
ParallelSpec == /\ ParallelInit
                /\ [][ParallelNext]_allVars
                /\ WF_vars(PoolSide(MasterStep))
                /\ \A w \in Workers : WF_vars(PoolSide(WorkerStep(w)))
                /\ \A t \in TeamThreads : /\ WF_teamVars(BarrierSide(B!Step(t)))
                                           /\ WF_posixVars(PosixSide(X!Step(t)))
                /\ WF_teamVars(BarrierSide(B!FreeTeam))
                /\ WF_posixVars(PosixSide(X!FreeTeam))

-----------------------------------------------------------------------------

(* Every region ends and every thread the library has created exits: the   *)
(* pool never waits at the dock for a thread that has left.                *)
PoolExits == side = "pool" => AllExit

(* However the members' reservations interleave, the threads that run in a *)
(* contention group are all reserved and never more than thread_limit_var, *)
(* as long as GOMP_parallel raises no number above what is reserved.       *)
ThreadLimitHeld == side = "limit" => L!LimitHeldUnlessRaised

(* No GOMP_parallel makes a team of more threads than the first of an      *)
(* initial thread, whoever wins the race for FIRST.                        *)
FirstLimitsAll == side = "limit" => L!FirstLimitsAll

(* Whatever teams the pool has served before, every thread of a team is    *)
(* where its number and the policy of the region put it, but for those     *)
(* created behind a pool that had to be put in another order; the          *)
(* partitions of a spread team share out that of its master, and the dock  *)
(* waits for the threads that come and for no more.                        *)
PlacesRight == side = "places" => P!PlacedUnlessAhead /\ P!PartitionsDisjoint /\ P!ThreadsCounted

(* No thread gets past a barrier of either kind before the whole team is   *)
(* there, but those that go to the end of a cancelled region.              *)
BarrierSync == /\ side = "barrier" => B!BarrierSync
               /\ side = "posix" => X!BarrierSync

(* The canceller and the last thread at a barrier do not undo each other's *)
(* update of the generation.                                               *)
NoLostUpdate == side = "barrier" => B!NoLostUpdate

(* The cancellation of a loop is over when a thread gets to the next one.  *)
LoopCancelStays == side = "barrier" => B!LoopCancelStays

(* A freed team is looked at by nobody, with a barrier of either kind.     *)
FreedTeamUntouched == /\ side = "barrier" => B!FreedTeamUntouched
                      /\ side = "posix" => X!FreedTeamUntouched

(* A nested region, cancelled or not, ends for all of its threads.         *)
RegionEnds == <>((side = "barrier" => B!AllDone) /\ (side = "posix" => X!AllDone))

(* A barrier that the last thread has opened lets all its threads go; the  *)
(* one without futexes also those that a cancellation overtakes.           *)
CompletedWaitReturns ==
  \A t \in TeamThreads : []<>~\/ side = "barrier" /\ B!Overtaken(t)
                              \/ side = "posix" /\ X!Overtaken(t)
=============================================================================
