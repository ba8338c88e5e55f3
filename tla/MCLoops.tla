------------------------------- MODULE MCLoops -------------------------------
(***************************************************************************)
(* The two halves of work-sharing loops for TLC: sequences of ordered and  *)
(* doacross loops (MCOrdered), and how one loop without these clauses is   *)
(* shared out at the ends of the range of its type (LoopIter, as I).  They *)
(* are different entry points of loop.c on different work shares, so a     *)
(* behaviour is one of the side chosen at the start, with the other's      *)
(* variables at rest.                                                      *)
(***************************************************************************)
EXTENDS MCOrdered

CONSTANTS W, Loops,
          MaxCount, MaxChunk   \* bounds: iterations of a loop, chunk_size

VARIABLES side, lp, share, block, static_trip, given, twice, place

I == INSTANCE LoopIter WITH ws <- share, local <- block, trip <- static_trip, pc <- place

(* The arithmetic of LoopIter alone, for the choice of the loops. *)
Arith == INSTANCE LoopIter WITH Loops <- {}, ws <- share, local <- block, trip <- static_trip,
                                pc <- place

(* All proper loops with few iterations whose bounds are at the ends of    *)
(* the range of their type or in the middle of it.                         *)
Few(S) == {l \in S : Arith!Proper(l) /\ Arith!Count(l) <= MaxCount}

LongBounds == {Arith!LONG_MIN, Arith!LONG_MIN + 1, Arith!LONG_MIN + 4, -1, 0, 3,
               Arith!LONG_MAX - 3, Arith!LONG_MAX - 1, Arith!LONG_MAX}
UllBounds  == {0, 1, 4, 2 ^ (W - 1), 2 ^ (W - 1) + 3, Arith!ULL_MAX - 3, Arith!ULL_MAX - 1, Arith!ULL_MAX}

LongLoops ==
  [type : {"long"}, start : LongBounds, end : LongBounds, incr : {-2, -1, 1, 2},
   chunk : 0 .. MaxChunk, up : BOOLEAN, sched : {"static", "dynamic", "guided"}]
UllLoops ==
  [type : {"ull"}, start : UllBounds, end : UllBounds, incr : {1, 2, Arith!ULL_MAX, Arith!ULL_MAX - 1},
   chunk : 0 .. MaxChunk, up : BOOLEAN, sched : {"static", "dynamic", "guided"}]
SectionsLoops ==
  [type : {"long"}, start : {1}, end : 1 .. MaxCount + 1, incr : {1}, chunk : {1}, up : {TRUE},
   sched : {"sections"}]

SmallLoops == Few(LongLoops) \cup Few(UllLoops) \cup Few(SectionsLoops)

ASSUME IterAssumptions == I!NAssumption /\ I!WAssumption /\ I!LoopsAssumption

-----------------------------------------------------------------------------

LoopsInit == /\ side \in {"ordered", "iter"}
             /\ IF side = "ordered" THEN lp = CHOOSE l \in Loops : TRUE
                                    ELSE program = CHOOSE p \in Programs : TRUE
             /\ CrossInit
             /\ I!Init

iterVars == <<lp, share, block, static_trip, given, twice, place>>

OrderedSide(Action) == side = "ordered" /\ Action /\ UNCHANGED <<side, iterVars>>
IterSide(Action)    == side = "iter" /\ Action /\ UNCHANGED <<side, allVars>>

LoopsNext == OrderedSide(CrossNext) \/ IterSide(I!Next)

(* The operating system runs every thread that is not blocked. *)
LoopsSpec == /\ LoopsInit
             /\ [][LoopsNext]_<<side, allVars, iterVars>>
             /\ \A t \in Ids : WF_allVars(OrderedSide(AnyStep(t)))

-----------------------------------------------------------------------------

(* Every thread gets through every sequence of ordered and doacross loops, *)
(* and no post of a release semaphore is left behind.                      *)
LoopsFinish == side = "ordered" => AllFinish

(* Each iteration is given out once, and nothing else is, and the next     *)
(* start of a loop does not run past its end by more than the overflow     *)
(* protection of the code allows for.                                      *)
EachOnce == I!EachOnce /\ I!NextInReach
=============================================================================
