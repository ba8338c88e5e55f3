----------------------------- MODULE MCParallel -----------------------------
(***************************************************************************)
(* Parallel for TLC.                                                       *)
(***************************************************************************)
EXTENDS Parallel

MCMaster  == "master"
MCWorkers == {"w1", "w2", "w3"}

OfThreads(n) == [threads |-> n, team |-> n]   \* GOMP_parallel

(* The pool is filled, its team is used again, it loses a thread, stays as *)
(* it is, sits out a team of one and gets a new thread.                    *)
ShrinkGrow == <<OfThreads(3), OfThreads(3), OfThreads(2), OfThreads(2), OfThreads(1), OfThreads(3)>>

(* GOMP_parallel_start, whose team is made for one thread. *)
ParallelStart(n) == [threads |-> n, team |-> 1]
OldEntryPoint == <<ParallelStart(3)>>

(* The pool loses a thread and is freed. *)
ShrinkExit == <<OfThreads(3), OfThreads(2)>>

MCInitials == {"g1", "g2"}

Par(n) == [construct |-> "parallel", threads |-> n]
Wsh(n) == [construct |-> "workshare", threads |-> n]

(* g1 alone runs these outer regions. *)
Alone(regions, nestedRegions) ==
  [outer |-> [g \in MCInitials |-> IF g = "g1" THEN regions ELSE <<>>], nested |-> nestedRegions]

(* All start with the same region at the same time. *)
Each(first, nestedRegions) ==
  [outer |-> [g \in MCInitials |-> <<first>>], nested |-> nestedRegions]

(* The initial threads start with regions of their own at the same time.   *)
Apart(regions1, regions2, nestedRegions) ==
  [outer |-> [g \in MCInitials |-> IF g = "g1" THEN regions1 ELSE regions2],
   nested |-> nestedRegions]

(* Three members compete for the limit; later regions ask for more than    *)
(* the first one, and are lowered, or for less, also of one thread and as  *)
(* a combined construct; two groups reserve from limits of their own.  In  *)
(* the last two the initial threads begin with different numbers: a later  *)
(* region, or a nested one, can be raised.                                 *)
MCPrograms == {Alone(<<Par(3), Par(2)>>, {Par(1), Wsh(3)}),
               Alone(<<Par(2), Par(4)>>, {Par(2), Par(4)}),
               Each(Par(2), {Par(2)}),
               Apart(<<Par(2), Par(3)>>, <<Par(4)>>, {}),
               Apart(<<Par(2)>>, <<Par(1)>>, {Par(2)})}

MCTeamThreads == {MCMaster, "w1", "w2"}

Region(barriers, cancellers, loopCancellers) ==
  [barriers |-> barriers, cancellers |-> cancellers, loop_cancellers |-> loopCancellers]

(* Two cancellable barriers, behind loops of which two threads may cancel  *)
(* any, in a region that anyone may cancel; plain ones, and one of each,   *)
(* where nobody does.                                                      *)
MCNestedRegions == {Region(<<"cancel", "cancel">>, MCTeamThreads, {MCMaster, "w1"}),
                    Region(<<"wait", "wait">>, {}, {}),
                    Region(<<"wait", "cancel">>, {}, {})}

PosixRegion(barriers, cancellers) == [barriers |-> barriers, cancellers |-> cancellers]

(* Here a region may also be cancelled behind a plain barrier.             *)
MCPosixRegions == {PosixRegion(<<"cancel", "cancel">>, MCTeamThreads),
                   PosixRegion(<<"wait", "wait">>, {}),
                   PosixRegion(<<"wait", "cancel">>, MCTeamThreads)}

Placed(policies, outer, inner) == [policies |-> policies, outer |-> outer, nested |-> inner]

(* Six places, in teams of all sizes up to twice as many threads; regions  *)
(* without a policy of their own, under OMP_PROC_BIND=true, up to three.   *)
MCPlacedPrograms == {Placed({"true", "close", "spread"}, 1 .. 3, {1}),
                     Placed({"close", "master", "spread"}, 1 .. 12, 1 .. 3)}

ASSUME SideAssumptions ==
  LimitAssumptions /\ BarrierAssumptions /\ PosixAssumptions /\ P!PlacesAssumption
=============================================================================
