-------------------------- MODULE TeamBarrierProofs --------------------------
(***************************************************************************)
(* The barrier of a nested team keeps its threads together, loses no       *)
(* update of the generation, takes back the cancellation of a loop before  *)
(* the next one, and is not looked at in a freed team: for every finite    *)
(* team, every list of barriers and every number of phases.                *)
(***************************************************************************)
EXTENDS TeamBarrier, FiniteSetTheorems, TLAPS

Waits   == {"spin", "fwait", "asleep", "check"}
Lasts   == {"reset_final", "reset", "advance"}
Cancels == {"cancel_lock", "cancel_set", "cancel_wake"}
Comes   == {"body", "end", "arrive"} \cup Cancels

Generations == [phase : 0 .. Wrap - 1, cancelled : BOOLEAN]

TypeOK ==
  /\ region \in Regions
  /\ generation \in Generations
  /\ awaited \in Int
  /\ awaited_final \in Int
  /\ team_cancelled \in BOOLEAN
  /\ work_share_cancelled \in {0} \cup 2 .. FinalPos - 1
  /\ task_lock \in Threads \cup {"free"}
  /\ freed \in BOOLEAN
  /\ state \in [Threads -> Generations]
  /\ pos \in [Threads -> 1 .. LastPos + 1]
  /\ pc \in [Threads -> Comes \cup Waits \cup Lasts \cup {"wake", "done"}]

(* Which steps belong to which barriers.                                   *)
StepsFit ==
  \A t \in Threads :
    /\ pc[t] = "end" => pos[t] = FinalPos
    /\ pc[t] = "reset_final" => pos[t] = FinalPos
    /\ pc[t] \in Cancels => pos[t] \in 2 .. FinalPos /\ team_cancelled
    /\ pc[t] \in Waits /\ pos[t] = LastPos => t = Master

(* A canceller that holds the lock has the generation that is in force.    *)
CancelHolds ==
  \A t \in Threads :
    /\ pc[t] = "cancel_set" =>
         task_lock = t /\ state[t] = generation /\ ~generation.cancelled
    /\ pc[t] = "cancel_wake" => generation.cancelled

(* The invariant is about the barrier m that is being counted: the first   *)
(* one that no last thread has opened yet.                                 *)

(* At place c of the barrier at p, a thread still waits in the barrier     *)
(* before m, or wakes its sleepers.                                        *)
Leaving(p, c, m) == p = m - 1 /\ c \in Waits \cup {"wake"}

At(p, c, m) == p = m /\ m <= LastPos /\ c \in Comes \cup Waits \cup Lasts

(* It has gone from an earlier barrier to the end of the cancelled region. *)
Skipped(p, c, m) == /\ p = FinalPos /\ m < FinalPos
                    /\ generation.cancelled
                    /\ c \in {"end", "arrive"} \cup Waits

Ended(t, p, c, m) == /\ p = LastPos + 1
                     /\ c = "done"
                     /\ m >= LastPos
                     /\ m = LastPos => t # Master

Located(t, p, c, m) ==
  Leaving(p, c, m) \/ At(p, c, m) \/ Skipped(p, c, m) \/ Ended(t, p, c, m)

AllLocated(m) == \A t \in Threads : Located(t, pos[t], pc[t], m)

NoLast == \A t \in Threads : pc[t] \notin Lasts

(* While a last thread is at work everybody else waits for it, and nobody  *)
(* has cancelled the region unless it is at its end.                       *)
LastAlone(m) ==
  \A t \in Threads :
    pc[t] \in Lasts =>
      /\ pos[t] = m
      /\ \A u \in Threads \ {t} : (pos[u] = m /\ pc[u] \in Waits) \/ pos[u] > m
      /\ generation.cancelled => m = FinalPos

CancelledInBody(m) == generation.cancelled => m \in 2 .. FinalPos /\ team_cancelled

(* The threads that awaited, and awaited_final, still count on.            *)
Counts(p, c, m)   == p = m - 1 \/ (p = m /\ c \in Comes \ {"cancel_wake"})
CountsFinal(p, c) == p < FinalPos \/ (p = FinalPos /\ c \in Comes)

Pending(m)   == {t \in Threads : Counts(pos[t], pc[t], m)}
PendingFinal == {t \in Threads : CountsFinal(pos[t], pc[t])}

(* In a cancelled region somebody that is counted on will not come.        *)
Counted(m) ==
  /\ NoLast /\ m <= LastPos /\ m # FinalPos =>
       IF generation.cancelled THEN awaited > Cardinality(Pending(m))
                               ELSE awaited = Cardinality(Pending(m))
  /\ \A t \in Threads : pc[t] = "advance" => awaited = total

FinalCounted(m) ==
  /\ m < FinalPos \/ (m = FinalPos /\ NoLast) => awaited_final = Cardinality(PendingFinal)
  /\ m = FinalPos => \A t \in Threads : pc[t] \in {"reset", "advance"} => awaited_final = total
  /\ m > FinalPos => awaited_final = total

(* A thread has the generation of the barrier it counts itself at; only    *)
(* the cancelled bit may have come since.                                  *)
StatesFit(m) ==
  \A t \in Threads :
    /\ pos[t] >= m /\ pc[t] \in {"arrive"} \cup Waits \cup Lasts =>
         /\ state[t].phase = generation.phase
         /\ state[t].cancelled => generation.cancelled
    /\ pos[t] = m - 1 /\ pc[t] \in Waits => generation.phase = (state[t].phase + 1) % Wrap

LoopCancelled(m) ==
  /\ m < FinalPos \/ (m = FinalPos /\ NoLast) => work_share_cancelled \in {0, m}
  /\ m < LastPos => \A t \in Threads : pc[t] = "advance" => work_share_cancelled = 0

Counting(m) ==
  /\ AllLocated(m)
  /\ LastAlone(m)
  /\ CancelledInBody(m)
  /\ Counted(m)
  /\ FinalCounted(m)
  /\ StatesFit(m)
  /\ LoopCancelled(m)

IInv == /\ TypeOK
        /\ StepsFit
        /\ CancelHolds
        /\ freed => pc[Master] = "done"
        /\ \E m \in 1 .. LastPos + 1 : Counting(m)

-----------------------------------------------------------------------------

LEMMA Positions ==
  ASSUME RegionAssumption, region \in Regions
  PROVE  /\ FinalPos \in Nat /\ FinalPos >= 2
         /\ LastPos = FinalPos + 1
<1>1. region.barriers \in Seq({"wait", "cancel"})
  BY DEF RegionAssumption
<1>2. Len(region.barriers) \in Nat
  BY <1>1
<1> QED
  BY <1>2 DEF FinalPos, LastPos

(* Which kind of barrier a thread is at.                                   *)
LEMMA Kinds ==
  ASSUME RegionAssumption, region \in Regions,
         NEW t \in Threads, pos[t] \in 1 .. LastPos
  PROVE  /\ pos[t] = 1 => Kind(t) = "plain"
         /\ pos[t] \in 2 .. FinalPos - 1 => Kind(t) \in {"wait", "cancel"}
         /\ pos[t] = FinalPos => Kind(t) = "final"
         /\ pos[t] = LastPos => Kind(t) = IF t = Master THEN "plain" ELSE "last"
<1>1. region.barriers \in Seq({"wait", "cancel"})
  BY DEF RegionAssumption
<1>2. Len(region.barriers) \in Nat
  BY <1>1
<1>3. /\ Program[1] = "plain"
      /\ \A k \in 2 .. FinalPos - 1 : Program[k] = region.barriers[k - 1]
      /\ Program[FinalPos] = "final"
      /\ Program[LastPos] = "last"
  BY <1>1, <1>2 DEF Program, FinalPos, LastPos
<1>4. \A k \in 2 .. FinalPos - 1 : region.barriers[k - 1] \in {"wait", "cancel"}
  BY <1>1, <1>2 DEF FinalPos
<1> QED
  BY <1>2, <1>3, <1>4 DEF Kind, FinalPos, LastPos

LEMMA InitIInv ==
  ASSUME TeamAssumption, RegionAssumption, WrapAssumption
  PROVE  Init => IInv
<1> SUFFICES ASSUME Init
             PROVE  IInv
  OBVIOUS
<1>1. region \in Regions
  BY DEF Init
<1>2. FinalPos \in Nat /\ FinalPos >= 2 /\ LastPos = FinalPos + 1
  BY <1>1, Positions
<1>3. TypeOK /\ StepsFit /\ CancelHolds /\ ~freed
  <2>1. Cardinality(Threads) \in Int
    BY FS_CardinalityType DEF TeamAssumption
  <2>2. [phase |-> 0, cancelled |-> FALSE] \in Generations
    BY DEF Generations, WrapAssumption
  <2>3. TypeOK
    <3>1. pos \in [Threads -> 1 .. LastPos + 1]
      BY <1>2 DEF Init
    <3>2. state \in [Threads -> Generations] /\ generation \in Generations
      BY <2>2 DEF Init
    <3>3. pc \in [Threads -> Comes \cup Waits \cup Lasts \cup {"wake", "done"}]
      BY DEF Init, Comes
    <3>4. awaited \in Int /\ awaited_final \in Int
      BY <2>1 DEF Init, total
    <3> QED
      BY <3>1, <3>2, <3>3, <3>4 DEF Init, TypeOK
  <2>4. StepsFit /\ CancelHolds
    BY DEF Init, StepsFit, CancelHolds, Cancels, Waits
  <2> QED
    BY <2>3, <2>4 DEF Init
<1>4. Counting(1)
  <2>1. Pending(1) = Threads /\ PendingFinal = Threads
    BY <1>2 DEF Init, Pending, PendingFinal, Counts, CountsFinal, Comes, Cancels
  <2> QED
    BY <1>2, <2>1 DEF Init, Counting, AllLocated, Located, At, LastAlone, CancelledInBody, Counted, FinalCounted,
                     StatesFit, LoopCancelled, Comes, Waits, Lasts, Cancels, total
<1> QED
  BY <1>2, <1>3, <1>4 DEF IInv

-----------------------------------------------------------------------------
(* One step of one thread. *)

(* t goes to place c of the barrier at p; of the others at most sleepers   *)
(* are woken.                                                              *)
Moves(t, p, c) ==
  /\ pos'[t] = p /\ pc'[t] = c
  /\ \A u \in Threads \ {t} :
       /\ pos'[u] = pos[u]
       /\ state'[u] = state[u]
       /\ pc'[u] = pc[u] \/ (pc[u] \in Waits /\ pc'[u] \in Waits)

LEMMA MovesTyped ==
  ASSUME TypeOK, RegionAssumption, NEW t \in Threads,
         NEW p \in 1 .. LastPos + 1, NEW c \in Comes \cup Waits \cup Lasts \cup {"wake", "done"},
         pos' = [pos EXCEPT ![t] = p],
         pc' = [pc EXCEPT ![t] = c] \/ pc' = [Woken EXCEPT ![t] = c],
         state' = state \/ state' = [state EXCEPT ![t] = generation],
         UNCHANGED region
  PROVE  /\ Moves(t, p, c)
         /\ pos' \in [Threads -> 1 .. LastPos' + 1]
         /\ pc' \in [Threads -> Comes \cup Waits \cup Lasts \cup {"wake", "done"}]
         /\ state' \in [Threads -> Generations]
         /\ FinalPos' = FinalPos /\ LastPos' = LastPos
<1>1. FinalPos' = FinalPos /\ LastPos' = LastPos
  BY DEF FinalPos, LastPos
<1>2. Woken \in [Threads -> Comes \cup Waits \cup Lasts \cup {"wake", "done"}]
  BY DEF TypeOK, Woken, Waits
<1>3. \A u \in Threads : Woken[u] = pc[u] \/ (pc[u] \in Waits /\ Woken[u] \in Waits)
  BY DEF Woken, Waits
<1> QED
  BY <1>1, <1>2, <1>3 DEF Moves, TypeOK

LEMMA PendingMoves ==
  ASSUME NEW t \in Threads, NEW p, NEW c, Moves(t, p, c), UNCHANGED region, NEW m
  PROVE  /\ Pending(m)' = IF Counts(p, c, m) THEN Pending(m) \cup {t} ELSE Pending(m) \ {t}
         /\ PendingFinal' =
              IF CountsFinal(p, c) THEN PendingFinal \cup {t} ELSE PendingFinal \ {t}
<1>1. FinalPos' = FinalPos
  BY DEF FinalPos
<1>2. \A u \in Threads \ {t} :
        /\ pos'[u] = pos[u]
        /\ pc'[u] \in Comes <=> pc[u] \in Comes
        /\ pc'[u] \in Comes \ {"cancel_wake"} <=> pc[u] \in Comes \ {"cancel_wake"}
  BY DEF Moves, Comes, Waits, Cancels
<1>3. \A u \in Threads \ {t} : /\ Counts(pos'[u], pc'[u], m) <=> Counts(pos[u], pc[u], m)
                               /\ CountsFinal(pos'[u], pc'[u]) <=> CountsFinal(pos[u], pc[u])
  BY <1>2 DEF Counts, CountsFinal
<1>4. /\ Pending(m)' = {u \in Threads : Counts(pos'[u], pc'[u], m)}
      /\ PendingFinal' = {u \in Threads : CountsFinal(pos'[u], pc'[u])}
  BY <1>1 DEF Pending, PendingFinal, Counts, CountsFinal
<1>5. pos'[t] = p /\ pc'[t] = c
  BY DEF Moves
<1>6. Pending(m)' = IF Counts(p, c, m) THEN Pending(m) \cup {t} ELSE Pending(m) \ {t}
  BY <1>3, <1>4, <1>5 DEF Pending
<1>7. PendingFinal' =
        IF CountsFinal(p, c) THEN PendingFinal \cup {t} ELSE PendingFinal \ {t}
  BY <1>3, <1>4, <1>5 DEF PendingFinal
<1> QED
  BY <1>6, <1>7

LEMMA PendingCounted ==
  ASSUME TeamAssumption, NEW m
  PROVE  /\ Cardinality(Pending(m)) \in Nat
         /\ Cardinality(PendingFinal) \in Nat
         /\ \A t \in Pending(m) : Cardinality(Pending(m) \ {t}) = Cardinality(Pending(m)) - 1
         /\ \A t \in PendingFinal : Cardinality(PendingFinal \ {t}) = Cardinality(PendingFinal) - 1
         /\ Cardinality(Pending(m)) = 1 => \A t, u \in Pending(m) : t = u
         /\ Cardinality(PendingFinal) = 1 => \A t, u \in PendingFinal : t = u
<1>1. IsFiniteSet(Pending(m)) /\ IsFiniteSet(PendingFinal)
  BY FS_Subset DEF Pending, PendingFinal, TeamAssumption
<1>2. ASSUME NEW S, IsFiniteSet(S)
      PROVE  /\ Cardinality(S) \in Nat
             /\ \A t \in S : Cardinality(S \ {t}) = Cardinality(S) - 1
             /\ Cardinality(S) = 1 => \A t, u \in S : t = u
  <2>1. Cardinality(S) \in Nat
    BY <1>2, FS_CardinalityType
  <2>2. \A t \in S : Cardinality(S \ {t}) = Cardinality(S) - 1 /\ IsFiniteSet(S \ {t})
    BY <1>2, FS_RemoveElement
  <2>3. ASSUME Cardinality(S) = 1, NEW t \in S, NEW u \in S
        PROVE  t = u
    <3>1. Cardinality(S \ {t}) = 0 /\ IsFiniteSet(S \ {t})
      BY <2>2, <2>3
    <3>2. S \ {t} = {}
      BY <3>1, FS_EmptySet
    <3> QED
      BY <3>2
  <2> QED
    BY <2>1, <2>2, <2>3
<1> QED
  BY <1>1, <1>2

(* What lets t go to place c of the barrier at p while everything else     *)
(* stays: if it no longer counts among those still to come, the region is  *)
(* cancelled.                                                              *)
Suits(t, p, c, m) ==
  /\ Located(t, p, c, m)
  /\ p >= m /\ c \in {"arrive"} \cup Waits =>
       /\ state'[t].phase = generation.phase
       /\ state'[t].cancelled => generation.cancelled
  /\ p = m - 1 /\ c \in Waits => generation.phase = (state'[t].phase + 1) % Wrap
  /\ pos[t] = m /\ pc[t] \in Waits =>
       (p = m /\ c \in Waits) \/ (generation.cancelled /\ m < FinalPos)
  /\ m # FinalPos /\ m <= LastPos =>
       /\ Counts(p, c, m) => Counts(pos[t], pc[t], m)
       /\ Counts(pos[t], pc[t], m) /\ ~generation.cancelled => Counts(p, c, m)
  /\ CountsFinal(p, c) <=> CountsFinal(pos[t], pc[t])

LEMMA MovePreservesCounting ==
  ASSUME TeamAssumption, RegionAssumption, TypeOK, NEW m \in 1 .. LastPos + 1, Counting(m),
         NEW t \in Threads, pc[t] \notin Lasts \cup {"done"},
         NEW p \in 1 .. LastPos + 1, NEW c \in Comes \cup Waits \cup {"wake", "done"},
         Moves(t, p, c), Suits(t, p, c, m),
         UNCHANGED <<region, generation, awaited, awaited_final, work_share_cancelled>>,
         team_cancelled => team_cancelled'
  PROVE  Counting(m)'
<1>1. FinalPos' = FinalPos /\ LastPos' = LastPos
  BY DEF FinalPos, LastPos
<1>2. FinalPos \in Nat /\ FinalPos >= 2 /\ LastPos = FinalPos + 1
  BY Positions DEF TypeOK
<1>3. \A u \in Threads : pc'[u] \in Lasts => u # t /\ pc[u] = pc'[u] /\ pos'[u] = pos[u]
  BY DEF Moves, Waits, Lasts, Comes, Cancels
<1>4. NoLast' <=> NoLast
  <2>1. NoLast => NoLast'
    BY <1>3 DEF NoLast
  <2>2. NoLast' => NoLast
    BY DEF NoLast, Moves, Waits, Lasts
  <2> QED
    BY <2>1, <2>2
<1>5. \A u \in Threads : pc'[u] \in {"reset", "advance"} => pc[u] = pc'[u]
  BY <1>3 DEF Lasts
<1>6. AllLocated(m)'
  <2>1. \A u \in Threads \ {t} : Located(u, pos'[u], pc'[u], m)
    BY DEF Moves, Counting, AllLocated, Located, Leaving, At, Skipped, Ended, Waits
  <2>2. \A u \in Threads : Located(u, pos'[u], pc'[u], m)
    BY <2>1 DEF Moves, Suits
  <2> QED
    BY <1>1, <2>2 DEF AllLocated, Located, Leaving, At, Skipped, Ended
<1>7. LastAlone(m)'
  <2>1. ASSUME NEW u \in Threads, pc'[u] \in Lasts
        PROVE  /\ pos[t] = m /\ pc[t] \in Waits
               /\ p = m /\ c \in Waits
               /\ generation.cancelled => m = FinalPos
    <3>1. /\ u # t /\ pc[u] \in Lasts
          /\ (pos[t] = m /\ pc[t] \in Waits) \/ pos[t] > m
          /\ generation.cancelled => m = FinalPos
      BY <1>3, <2>1 DEF Counting, LastAlone
    <3>2. Leaving(pos[t], pc[t], m) \/ At(pos[t], pc[t], m) \/ Skipped(pos[t], pc[t], m)
      BY DEF Counting, AllLocated, Located, Ended
    <3>3. pos[t] = m /\ pc[t] \in Waits
      BY <1>2, <3>1, <3>2 DEF Leaving, At, Skipped
    <3> QED
      BY <1>2, <3>1, <3>3 DEF Suits
  <2> QED
    BY <1>1, <1>3, <2>1 DEF Moves, Counting, LastAlone
<1>8. CancelledInBody(m)'
  BY <1>1 DEF Counting, CancelledInBody
<1>9. ASSUME m # FinalPos, m <= LastPos
      PROVE  /\ Cardinality(Pending(m)) \in Nat
             /\ IF generation.cancelled
                THEN /\ Cardinality(Pending(m)') <= Cardinality(Pending(m))
                     /\ Cardinality(Pending(m)') \in Nat
                ELSE Pending(m)' = Pending(m)
  <2>1. Cardinality(Pending(m)) \in Nat
    BY PendingCounted
  <2>2. Pending(m)' = IF Counts(p, c, m) THEN Pending(m) \cup {t} ELSE Pending(m) \ {t}
    BY PendingMoves
  <2>3. CASE Pending(m)' = Pending(m)
    BY <2>1, <2>3
  <2>4. CASE Pending(m)' # Pending(m)
    <3>1. Pending(m)' = Pending(m) \ {t} /\ t \in Pending(m) /\ generation.cancelled
      BY <1>9, <2>2, <2>4 DEF Suits, Pending
    <3>2. Cardinality(Pending(m) \ {t}) = Cardinality(Pending(m)) - 1
      BY <3>1, PendingCounted
    <3>3. Cardinality(Pending(m) \ {t}) \in Nat
      BY FS_Subset, FS_CardinalityType DEF Pending, TeamAssumption
    <3> QED
      BY <2>1, <3>1, <3>2, <3>3
  <2> QED
    BY <2>1, <2>3, <2>4
<1>10. PendingFinal' = PendingFinal
  <2>1. PendingFinal' = IF CountsFinal(p, c) THEN PendingFinal \cup {t} ELSE PendingFinal \ {t}
    BY PendingMoves
  <2> QED
    BY <2>1 DEF Suits, PendingFinal
<1>11. Counted(m)'
  BY <1>1, <1>4, <1>5, <1>9 DEF Counting, Counted, TypeOK, total
<1>12. FinalCounted(m)'
  BY <1>1, <1>4, <1>5, <1>10 DEF Counting, FinalCounted, total
<1>13. StatesFit(m)'
  <2>1. c \notin Lasts
    BY DEF Waits, Comes, Cancels, Lasts
  <2>2. \A u \in Threads \ {t} : /\ pc'[u] \in {"arrive"} \cup Waits \cup Lasts =>
                                    pc[u] \in {"arrive"} \cup Waits \cup Lasts
                                 /\ pc'[u] \in Waits => pc[u] \in Waits
    BY DEF Moves
  <2> QED
    BY <2>1, <2>2 DEF Moves, Suits, Counting, StatesFit
<1>14. LoopCancelled(m)'
  BY <1>1, <1>4, <1>5 DEF Counting, LoopCancelled
<1> QED
  BY <1>6, <1>7, <1>8, <1>11, <1>12, <1>13, <1>14 DEF Counting

(* The same with the rest of the invariant, for the form the actions have. *)
LEMMA MovePreservesIInv ==
  ASSUME TeamAssumption, RegionAssumption, IInv, NEW m \in 1 .. LastPos + 1, Counting(m),
         NEW t \in Threads, pc[t] \notin Lasts \cup {"done"},
         NEW p \in 1 .. LastPos + 1, NEW c \in Comes \cup Waits \cup {"wake", "done"},
         pos' = [pos EXCEPT ![t] = p],
         pc' = [pc EXCEPT ![t] = c] \/ pc' = [Woken EXCEPT ![t] = c],
         state' = state \/ state' = [state EXCEPT ![t] = generation],
         Suits(t, p, c, m),
         UNCHANGED <<region, generation, awaited, awaited_final, work_share_cancelled, freed>>,
         team_cancelled => team_cancelled', team_cancelled' \in BOOLEAN,
         task_lock' = task_lock \/ (task_lock = "free" /\ task_lock' = t),
         c = "end" => p = FinalPos,
         c \in Cancels => p \in 2 .. FinalPos /\ team_cancelled',
         c \in Waits /\ p = LastPos => t = Master,
         c = "cancel_set" => task_lock' = t /\ state'[t] = generation /\ ~generation.cancelled,
         c # "cancel_wake"
  PROVE  IInv'
<1>1. TypeOK /\ StepsFit /\ CancelHolds
  BY DEF IInv
<1>2. /\ Moves(t, p, c)
      /\ pos' \in [Threads -> 1 .. LastPos' + 1]
      /\ pc' \in [Threads -> Comes \cup Waits \cup Lasts \cup {"wake", "done"}]
      /\ state' \in [Threads -> Generations]
      /\ FinalPos' = FinalPos /\ LastPos' = LastPos
  <2>1. UNCHANGED region /\ c \in Comes \cup Waits \cup Lasts \cup {"wake", "done"}
    OBVIOUS
  <2> QED
    BY <1>1, <2>1, MovesTyped
<1>3. TypeOK'
  BY <1>1, <1>2 DEF TypeOK
<1>4. StepsFit'
  <2>1. c # "reset_final"
    BY DEF Comes, Cancels, Waits
  <2>2. \A u \in Threads \ {t} : pos'[u] = pos[u] /\ (pc'[u] # pc[u] => pc[u] \in Waits /\ pc'[u] \in Waits)
    BY <1>2 DEF Moves
  <2> SUFFICES ASSUME NEW u \in Threads
               PROVE  /\ pc'[u] = "end" => pos'[u] = FinalPos
                      /\ pc'[u] = "reset_final" => pos'[u] = FinalPos
                      /\ pc'[u] \in Cancels => pos'[u] \in 2 .. FinalPos /\ team_cancelled'
                      /\ pc'[u] \in Waits /\ pos'[u] = LastPos => u = Master
    BY <1>2 DEF StepsFit
  <2>3. CASE u = t
    BY <1>2, <2>1, <2>3 DEF Moves
  <2>4. CASE u # t
    BY <1>1, <2>2, <2>4 DEF StepsFit, Cancels, Waits
  <2> QED
    BY <2>3, <2>4
<1>5. CancelHolds'
  <2>1. \A u \in Threads \ {t} : /\ pc'[u] = "cancel_set" => pc[u] = "cancel_set"
                                 /\ pc'[u] = "cancel_wake" => pc[u] = "cancel_wake"
                                 /\ state'[u] = state[u]
    BY <1>2 DEF Moves, Waits
  <2>2. \A u \in Threads : u # "free"
    BY DEF TeamAssumption
  <2> SUFFICES ASSUME NEW u \in Threads
               PROVE  /\ pc'[u] = "cancel_set" =>
                           task_lock' = u /\ state'[u] = generation /\ ~generation.cancelled
                      /\ pc'[u] = "cancel_wake" => generation.cancelled
    BY DEF CancelHolds
  <2>3. CASE u = t
    BY <1>2, <2>3 DEF Moves
  <2>4. CASE u # t
    BY <1>1, <2>1, <2>2, <2>4 DEF CancelHolds
  <2> QED
    BY <2>3, <2>4
<1>6. freed' => pc'[Master] = "done"
  BY <1>2 DEF IInv, Moves, TeamAssumption, Waits
<1>7. Counting(m)'
  <2>1. /\ UNCHANGED <<region, generation, awaited, awaited_final, work_share_cancelled>>
        /\ team_cancelled => team_cancelled'
    OBVIOUS
  <2> QED
    BY <1>1, <1>2, <2>1, MovePreservesCounting
<1> QED
  BY <1>2, <1>3, <1>4, <1>5, <1>6, <1>7 DEF IInv

-----------------------------------------------------------------------------
(* The steps that move one thread. *)

LEMMA NextPhase ==
  ASSUME WrapAssumption, NEW n \in 0 .. Wrap - 1
  PROVE  (n + 1) % Wrap \in 0 .. Wrap - 1 /\ (n + 1) % Wrap # n
<1>1. CASE n + 1 < Wrap
  <2>1. (n + 1) % Wrap = n + 1
    BY <1>1 DEF WrapAssumption
  <2> QED
    BY <1>1, <2>1 DEF WrapAssumption
<1>2. CASE n + 1 = Wrap
  <2>1. (n + 1) % Wrap = 0
    BY <1>2 DEF WrapAssumption
  <2> QED
    BY <1>2, <2>1 DEF WrapAssumption
<1> QED
  BY <1>1, <1>2 DEF WrapAssumption

(* A thread at work in a barrier, or on its way to one, has arrived in     *)
(* none but the one before m and its own.                                  *)
LEMMA Whereabouts ==
  ASSUME RegionAssumption, TypeOK, NEW m \in 1 .. LastPos + 1, Counting(m), NEW t \in Threads
  PROVE  /\ FinalPos \in Nat /\ FinalPos >= 2 /\ LastPos = FinalPos + 1
         /\ m \in Nat /\ pos[t] \in Nat /\ pos[t] \in 1 .. LastPos + 1
         /\ pc[t] = "done" \/ pos[t] <= LastPos
         /\ Located(t, pos[t], pc[t], m)
<1>1. FinalPos \in Nat /\ FinalPos >= 2 /\ LastPos = FinalPos + 1
  BY Positions DEF TypeOK
<1>2. Located(t, pos[t], pc[t], m)
  BY DEF Counting, AllLocated
<1>3. pos[t] \in 1 .. LastPos + 1
  BY DEF TypeOK
<1> QED
  BY <1>1, <1>2, <1>3 DEF Located, Leaving, At, Skipped, Ended

(* A thread that goes on waiting changes nothing the invariant is about.   *)
LEMMA StaysWaiting ==
  ASSUME TeamAssumption, RegionAssumption, IInv,
         NEW t \in Threads, pc[t] \in Waits, NEW c \in Waits,
         pc' = [pc EXCEPT ![t] = c], UNCHANGED <<shared, state, pos>>
  PROVE  IInv'
<1>1. TypeOK /\ StepsFit
  BY DEF IInv
<1>2. PICK m \in 1 .. LastPos + 1 : Counting(m)
  BY DEF IInv
<1>3. /\ FinalPos \in Nat /\ FinalPos >= 2 /\ LastPos = FinalPos + 1
      /\ m \in Nat /\ pos[t] \in Nat /\ pos[t] \in 1 .. LastPos + 1
      /\ Located(t, pos[t], pc[t], m)
  BY <1>1, <1>2, Whereabouts
<1>4. pos' = [pos EXCEPT ![t] = pos[t]]
  BY <1>1 DEF TypeOK
<1>5. c \notin Comes \cup {"wake", "done"} \cup Lasts /\ pc[t] \notin Comes \cup {"wake", "done"} \cup Lasts
  BY DEF Waits, Comes, Cancels, Lasts
<1>6. Suits(t, pos[t], c, m)
  <2>1. Located(t, pos[t], c, m)
    BY <1>3, <1>5 DEF Located, Leaving, At, Skipped, Ended
  <2>2. state' = state /\ StatesFit(m)
    BY <1>2 DEF Counting
  <2>3. (pos[t] = m => c \in Waits) /\ c \notin Comes /\ pc[t] \notin Comes
    BY <1>5
  <2> QED
    BY <2>1, <2>2, <2>3 DEF Suits, StatesFit, Counts, CountsFinal
<1>7. /\ UNCHANGED <<region, generation, awaited, awaited_final, work_share_cancelled, freed>>
      /\ state' = state /\ task_lock' = task_lock /\ team_cancelled' = team_cancelled
  BY DEF shared, flags
<1>8. /\ pos[t] = LastPos => t = Master
      /\ team_cancelled \in BOOLEAN
  BY <1>1 DEF StepsFit, TypeOK
<1>9. c \notin Cancels /\ c # "end" /\ c # "cancel_set" /\ c # "cancel_wake"
  BY DEF Waits, Cancels
<1> QED
  BY <1>2, <1>3, <1>4, <1>5, <1>6, <1>7, <1>8, <1>9, MovePreservesIInv

(* A thread leaves the barrier before m, and only that one.                *)
LEMMA LeavingSuits ==
  ASSUME RegionAssumption, TypeOK, NEW m \in 1 .. LastPos + 1, Counting(m), NEW t \in Threads,
         pos[t] = m - 1, pc[t] \in Waits \cup {"wake"},
         NEW c, c = IF pos[t] = LastPos THEN "done" ELSE "body"
  PROVE  pos[t] + 1 \in 1 .. LastPos + 1 /\ Suits(t, pos[t] + 1, c, m)
<1>1. /\ FinalPos \in Nat /\ FinalPos >= 2 /\ LastPos = FinalPos + 1
      /\ m \in Nat /\ pos[t] \in Nat
  BY Whereabouts
<1>2. pc[t] \notin Comes \cup Lasts \cup {"done"} /\ c \notin {"arrive"} \cup Waits
  BY DEF Comes, Cancels, Waits, Lasts
<1>3. Located(t, pos[t] + 1, c, m)
  BY <1>1 DEF Located, At, Ended, Comes
<1> QED
  BY <1>1, <1>2, <1>3 DEF Suits, Counts, CountsFinal, Comes, Cancels

(* A thread that counts as one still to come may skip the rest of a        *)
(* cancelled region.                                                       *)
LEMMA SkippingSuits ==
  ASSUME RegionAssumption, TypeOK, NEW m \in 1 .. LastPos + 1, Counting(m), NEW t \in Threads,
         CountsFinal(pos[t], pc[t]), generation.cancelled
  PROVE  FinalPos \in 1 .. LastPos + 1 /\ Suits(t, FinalPos, "end", m)
<1>1. /\ FinalPos \in Nat /\ FinalPos >= 2 /\ LastPos = FinalPos + 1
      /\ m \in Nat /\ pos[t] \in Nat
  BY Whereabouts
<1>2. m \in 2 .. FinalPos
  BY DEF Counting, CancelledInBody
<1>3. "end" \in Comes \ {"cancel_wake"} /\ "end" \notin {"arrive"} \cup Waits
  BY DEF Comes, Cancels, Waits
<1>4. Located(t, FinalPos, "end", m)
  BY <1>1, <1>2, <1>3 DEF Located, At, Skipped
<1>5. pos[t] = m /\ pc[t] \in Waits => m < FinalPos
  BY <1>1, <1>2 DEF CountsFinal, Comes, Cancels, Waits
<1> QED
  BY <1>1, <1>2, <1>3, <1>4, <1>5 DEF Suits, Counts, CountsFinal

LEMMA LoadGenerationPreserves ==
  ASSUME TeamAssumption, RegionAssumption, IInv, NEW t \in Threads, LoadGeneration(t)
  PROVE  IInv'
<1>1. TypeOK /\ StepsFit
  BY DEF IInv
<1>2. PICK m \in 1 .. LastPos + 1 : Counting(m)
  BY DEF IInv
<1>3. /\ FinalPos \in Nat /\ FinalPos >= 2 /\ LastPos = FinalPos + 1
      /\ m \in Nat /\ pos[t] \in Nat /\ pos[t] \in 1 .. LastPos + 1
      /\ Located(t, pos[t], pc[t], m)
  BY <1>1, <1>2, Whereabouts
<1>4. /\ pc[t] \in {"body", "end"}
      /\ state' = [state EXCEPT ![t] = generation] /\ state'[t] = generation
      /\ pc' = [pc EXCEPT ![t] = "arrive"]
      /\ pos' = [pos EXCEPT ![t] = pos[t]]
      /\ UNCHANGED <<region, generation, awaited, awaited_final, work_share_cancelled, freed>>
      /\ task_lock' = task_lock /\ team_cancelled' = team_cancelled /\ team_cancelled \in BOOLEAN
  BY <1>1 DEF LoadGeneration, TypeOK, shared, flags, Goto
<1>5. Suits(t, pos[t], "arrive", m)
  <2>1. At(pos[t], pc[t], m) \/ (Skipped(pos[t], pc[t], m) /\ pc[t] = "end")
    BY <1>3, <1>4 DEF Located, Leaving, At, Skipped, Ended, Waits
  <2> QED
    BY <1>3, <1>4, <2>1 DEF Suits, Located, At, Skipped, Counts, CountsFinal, Comes, Cancels, Waits
<1> QED
  BY <1>2, <1>3, <1>4, <1>5, MovePreservesIInv DEF Comes, Cancels, Waits, Lasts

LEMMA WakeAllPreserves ==
  ASSUME TeamAssumption, RegionAssumption, IInv, NEW t \in Threads, WakeAll(t)
  PROVE  IInv'
<1>1. TypeOK /\ StepsFit
  BY DEF IInv
<1>2. PICK m \in 1 .. LastPos + 1 : Counting(m)
  BY DEF IInv
<1>3. /\ FinalPos \in Nat /\ FinalPos >= 2 /\ LastPos = FinalPos + 1
      /\ m \in Nat /\ pos[t] \in Nat /\ pos[t] \in 1 .. LastPos + 1
      /\ Located(t, pos[t], pc[t], m)
  BY <1>1, <1>2, Whereabouts
<1> DEFINE c == IF pos[t] = LastPos THEN "done" ELSE "body"
<1>4. /\ pc[t] = "wake" /\ state' = state
      /\ pc' = [Woken EXCEPT ![t] = c]
      /\ pos' = [pos EXCEPT ![t] = pos[t] + 1]
      /\ UNCHANGED <<region, generation, awaited, awaited_final, work_share_cancelled, freed>>
      /\ task_lock' = task_lock /\ team_cancelled' = team_cancelled /\ team_cancelled \in BOOLEAN
  BY <1>1 DEF WakeAll, TypeOK, shared, flags
<1>5. pos[t] = m - 1
  BY <1>3, <1>4 DEF Located, Leaving, At, Skipped, Ended, Waits, Comes, Cancels, Lasts
<1>6. pos[t] + 1 \in 1 .. LastPos + 1 /\ Suits(t, pos[t] + 1, c, m)
  BY <1>1, <1>2, <1>4, <1>5, LeavingSuits
<1>7. c \in {"body", "done"}
  OBVIOUS
<1> HIDE DEF c
<1> QED
  BY <1>2, <1>4, <1>6, <1>7, MovePreservesIInv DEF Comes, Cancels, Waits, Lasts

LEMMA CheckPreserves ==
  ASSUME TeamAssumption, RegionAssumption, WrapAssumption, IInv, NEW t \in Threads, Check(t)
  PROVE  IInv'
<1>1. TypeOK /\ StepsFit
  BY DEF IInv
<1>2. PICK m \in 1 .. LastPos + 1 : Counting(m)
  BY DEF IInv
<1>3. /\ FinalPos \in Nat /\ FinalPos >= 2 /\ LastPos = FinalPos + 1
      /\ m \in Nat /\ pos[t] \in Nat /\ pos[t] \in 1 .. LastPos + 1
      /\ pc[t] = "done" \/ pos[t] <= LastPos
      /\ Located(t, pos[t], pc[t], m)
  BY <1>1, <1>2, Whereabouts
<1>4. pc[t] = "check" /\ UNCHANGED <<shared, state>>
  BY DEF Check
<1>5. /\ state' = state
      /\ UNCHANGED <<region, generation, awaited, awaited_final, work_share_cancelled, freed>>
      /\ task_lock' = task_lock /\ team_cancelled' = team_cancelled /\ team_cancelled \in BOOLEAN
  BY <1>1, <1>4 DEF TypeOK, shared, flags
<1>6. /\ pos[t] = 1 => Kind(t) = "plain"
      /\ pos[t] \in 2 .. FinalPos - 1 => Kind(t) \in {"wait", "cancel"}
      /\ pos[t] = FinalPos => Kind(t) = "final"
      /\ pos[t] = LastPos => Kind(t) \in {"plain", "last"}
      /\ pos[t] \in 1 .. LastPos
  <2>1. pos[t] \in 1 .. LastPos /\ region \in Regions
    BY <1>1, <1>3, <1>4 DEF TypeOK
  <2> QED
    BY <2>1, Kinds
<1>7. generation \in Generations /\ state[t] \in Generations
  BY <1>1 DEF TypeOK
<1>8. ASSUME Leave(t), pos[t] = m - 1
      PROVE  IInv'
  <2> DEFINE c == IF pos[t] = LastPos THEN "done" ELSE "body"
  <2>1. pos[t] + 1 \in 1 .. LastPos + 1 /\ Suits(t, pos[t] + 1, c, m)
    BY <1>1, <1>2, <1>4, <1>8, LeavingSuits DEF Waits
  <2>2. pos' = [pos EXCEPT ![t] = pos[t] + 1] /\ pc' = [pc EXCEPT ![t] = c]
    BY <1>8 DEF Leave, Goto
  <2>3. c \in {"body", "done"}
    OBVIOUS
  <2> HIDE DEF c
  <2> QED
    BY <1>2, <1>4, <1>5, <2>1, <2>2, <2>3, MovePreservesIInv DEF Comes, Cancels, Waits, Lasts
<1>9. pos[t] = m - 1 \/ (pos[t] >= m /\ state[t].phase = generation.phase
                           /\ (state[t].cancelled => generation.cancelled))
  BY <1>2, <1>3, <1>4 DEF Located, Leaving, At, Skipped, Ended, Counting, StatesFit, Waits
<1>10. CASE Kind(t) = "plain" /\ generation # state[t] /\ Leave(t)
  <2>1. pos[t] = 1 \/ pos[t] = LastPos
    BY <1>3, <1>6, <1>10
  <2>2. ~(pos[t] = m /\ generation.cancelled)
    BY <1>2, <1>3, <2>1 DEF Counting, CancelledInBody
  <2>3. pos[t] = m - 1 \/ pos[t] = m
    BY <1>3, <1>4, <2>1 DEF Located, Leaving, At, Skipped, Ended
  <2>4. pos[t] = m - 1
    BY <1>3, <1>7, <1>9, <1>10, <2>2, <2>3 DEF Generations
  <2> QED
    BY <1>8, <1>10, <2>4
<1>11. CASE Kind(t) = "cancel" /\ generation.cancelled /\ SkipToEnd(t)
  <2>1. CountsFinal(pos[t], pc[t])
    BY <1>3, <1>6, <1>11 DEF CountsFinal
  <2>2. FinalPos \in 1 .. LastPos + 1 /\ Suits(t, FinalPos, "end", m)
    BY <1>1, <1>2, <1>11, <2>1, SkippingSuits
  <2>3. pos' = [pos EXCEPT ![t] = FinalPos] /\ pc' = [pc EXCEPT ![t] = "end"]
    BY <1>11 DEF SkipToEnd, Goto
  <2> QED
    BY <1>2, <1>4, <1>5, <2>2, <2>3, MovePreservesIInv DEF Comes, Cancels, Waits, Lasts
<1>12. CASE generation = Incremented(state[t], FALSE) /\ Leave(t)
  <2>1. generation.phase # state[t].phase
    BY <1>7, <1>12, NextPhase DEF Incremented, Generations
  <2> QED
    BY <1>8, <1>9, <1>12, <2>1
<1>13. CASE Goto(t, "spin") /\ UNCHANGED pos
  BY <1>4, <1>13, StaysWaiting DEF Goto, Waits
<1> QED
  BY <1>10, <1>11, <1>12, <1>13 DEF Check

LEMMA CancelPreserves ==
  ASSUME TeamAssumption, RegionAssumption, IInv, NEW t \in Threads, Cancel(t)
  PROVE  IInv'
<1>1. TypeOK /\ StepsFit /\ CancelHolds
  BY DEF IInv
<1>2. PICK m \in 1 .. LastPos + 1 : Counting(m)
  BY DEF IInv
<1>3. /\ FinalPos \in Nat /\ FinalPos >= 2 /\ LastPos = FinalPos + 1
      /\ m \in Nat /\ pos[t] \in Nat /\ pos[t] \in 1 .. LastPos + 1
      /\ Located(t, pos[t], pc[t], m)
  BY <1>1, <1>2, Whereabouts
<1>4. /\ pc[t] = "body" /\ pos[t] \in 2 .. FinalPos
      /\ pos' = [pos EXCEPT ![t] = pos[t]] /\ pc' = [pc EXCEPT ![t] = "cancel_lock"]
      /\ UNCHANGED <<region, generation, awaited, awaited_final, work_share_cancelled, freed>>
      /\ state' = state /\ task_lock' = task_lock /\ team_cancelled' = TRUE
  BY <1>1 DEF Cancel, MayCancel, InBody, Goto, TypeOK
<1>5. Suits(t, pos[t], "cancel_lock", m)
  BY <1>3, <1>4 DEF Suits, Located, Leaving, At, Skipped, Ended, Counts, CountsFinal, Comes, Cancels,
                    Waits
<1> QED
  BY <1>2, <1>3, <1>4, <1>5, MovePreservesIInv DEF Comes, Cancels, Waits, Lasts

LEMMA CancelReadPreserves ==
  ASSUME TeamAssumption, RegionAssumption, IInv, NEW t \in Threads, CancelRead(t)
  PROVE  IInv'
<1>1. TypeOK /\ StepsFit /\ CancelHolds
  BY DEF IInv
<1>2. PICK m \in 1 .. LastPos + 1 : Counting(m)
  BY DEF IInv
<1>3. /\ FinalPos \in Nat /\ FinalPos >= 2 /\ LastPos = FinalPos + 1
      /\ m \in Nat /\ pos[t] \in Nat /\ pos[t] \in 1 .. LastPos + 1
      /\ Located(t, pos[t], pc[t], m)
  BY <1>1, <1>2, Whereabouts
<1>4. /\ pc[t] = "cancel_lock" /\ pos[t] \in 2 .. FinalPos
      /\ task_lock = "free" /\ team_cancelled
      /\ UNCHANGED <<region, generation, awaited, awaited_final, work_share_cancelled, freed>>
      /\ team_cancelled' = team_cancelled /\ team_cancelled \in BOOLEAN
  BY <1>1 DEF CancelRead, StepsFit, TypeOK, flags, Cancels
<1>5. CASE generation.cancelled
  <2>1. CountsFinal(pos[t], pc[t])
    BY <1>3, <1>4 DEF CountsFinal, Comes, Cancels
  <2>2. FinalPos \in 1 .. LastPos + 1 /\ Suits(t, FinalPos, "end", m)
    BY <1>1, <1>2, <1>5, <2>1, SkippingSuits
  <2>3. /\ pos' = [pos EXCEPT ![t] = FinalPos] /\ pc' = [pc EXCEPT ![t] = "end"]
        /\ state' = state /\ task_lock' = task_lock
    BY <1>5 DEF CancelRead, SkipToEnd, Goto
  <2> QED
    BY <1>2, <1>4, <2>2, <2>3, MovePreservesIInv DEF Comes, Cancels, Waits, Lasts
<1>6. CASE ~generation.cancelled
  <2>1. /\ pos' = [pos EXCEPT ![t] = pos[t]] /\ pc' = [pc EXCEPT ![t] = "cancel_set"]
        /\ state' = [state EXCEPT ![t] = generation] /\ state'[t] = generation
        /\ task_lock' = t
    BY <1>1, <1>6 DEF CancelRead, Goto, TypeOK
  <2>2. Suits(t, pos[t], "cancel_set", m)
    BY <1>3, <1>4 DEF Suits, Located, Leaving, At, Skipped, Ended, Counts, CountsFinal, Comes,
                      Cancels, Waits
  <2> QED
    BY <1>2, <1>3, <1>4, <1>6, <2>1, <2>2, MovePreservesIInv DEF Comes, Cancels, Waits, Lasts
<1> QED
  BY <1>5, <1>6

LEMMA CancelWakePreserves ==
  ASSUME TeamAssumption, RegionAssumption, IInv, NEW t \in Threads, CancelWake(t)
  PROVE  IInv'
<1>1. TypeOK /\ StepsFit /\ CancelHolds
  BY DEF IInv
<1>2. PICK m \in 1 .. LastPos + 1 : Counting(m)
  BY DEF IInv
<1>3. /\ FinalPos \in Nat /\ FinalPos >= 2 /\ LastPos = FinalPos + 1
      /\ m \in Nat /\ pos[t] \in Nat /\ pos[t] \in 1 .. LastPos + 1
      /\ Located(t, pos[t], pc[t], m)
  BY <1>1, <1>2, Whereabouts
<1>4. /\ pc[t] = "cancel_wake" /\ pos[t] \in 2 .. FinalPos /\ generation.cancelled
      /\ pos' = [pos EXCEPT ![t] = FinalPos] /\ pc' = [Woken EXCEPT ![t] = "end"]
      /\ UNCHANGED <<region, generation, awaited, awaited_final, work_share_cancelled, freed>>
      /\ state' = state /\ task_lock' = task_lock
      /\ team_cancelled' = team_cancelled /\ team_cancelled \in BOOLEAN
  BY <1>1 DEF CancelWake, CancelHolds, StepsFit, TypeOK, shared, flags, Cancels
<1>5. CountsFinal(pos[t], pc[t])
  BY <1>3, <1>4 DEF CountsFinal, Comes, Cancels
<1>6. FinalPos \in 1 .. LastPos + 1 /\ Suits(t, FinalPos, "end", m)
  BY <1>1, <1>2, <1>4, <1>5, SkippingSuits
<1> QED
  BY <1>2, <1>4, <1>6, MovePreservesIInv DEF Comes, Cancels, Waits, Lasts

LEMMA CancellationPointPreserves ==
  ASSUME TeamAssumption, RegionAssumption, IInv, NEW t \in Threads, CancellationPoint(t)
  PROVE  IInv'
<1>1. TypeOK /\ StepsFit /\ CancelHolds
  BY DEF IInv
<1>2. PICK m \in 1 .. LastPos + 1 : Counting(m)
  BY DEF IInv
<1>3. /\ FinalPos \in Nat /\ FinalPos >= 2 /\ LastPos = FinalPos + 1
      /\ m \in Nat /\ pos[t] \in Nat /\ pos[t] \in 1 .. LastPos + 1
      /\ Located(t, pos[t], pc[t], m)
  BY <1>1, <1>2, Whereabouts
<1>4. /\ pc[t] = "body" /\ pos[t] \in 2 .. FinalPos /\ generation.cancelled
      /\ pos' = [pos EXCEPT ![t] = FinalPos] /\ pc' = [pc EXCEPT ![t] = "end"]
      /\ UNCHANGED <<region, generation, awaited, awaited_final, work_share_cancelled, freed>>
      /\ state' = state /\ task_lock' = task_lock
      /\ team_cancelled' = team_cancelled /\ team_cancelled \in BOOLEAN
  BY <1>1 DEF CancellationPoint, InBody, SkipToEnd, Goto, TypeOK, shared, flags
<1>5. CountsFinal(pos[t], pc[t])
  BY <1>3, <1>4 DEF CountsFinal, Comes
<1>6. FinalPos \in 1 .. LastPos + 1 /\ Suits(t, FinalPos, "end", m)
  BY <1>1, <1>2, <1>4, <1>5, SkippingSuits
<1> QED
  BY <1>2, <1>4, <1>6, MovePreservesIInv DEF Comes, Cancels, Waits, Lasts

(* While t is on its way to the barrier m nobody is its last thread.       *)
LEMMA NoLastYet ==
  ASSUME RegionAssumption, TypeOK, NEW m \in 1 .. LastPos + 1, Counting(m), NEW t \in Threads,
         pc[t] \in Comes, pos[t] = m
  PROVE  NoLast
<1>1. pc[t] \notin Waits \cup Lasts
  BY DEF Comes, Cancels, Waits, Lasts
<1>2. m \in Nat /\ pos[t] \in Nat
  BY Whereabouts
<1> QED
  BY <1>1, <1>2 DEF Counting, LastAlone, NoLast

LEMMA CancelLoopPreserves ==
  ASSUME TeamAssumption, RegionAssumption, IInv, NEW t \in Threads, CancelLoop(t)
  PROVE  IInv'
<1>1. TypeOK /\ StepsFit /\ CancelHolds
  BY DEF IInv
<1>2. PICK m \in 1 .. LastPos + 1 : Counting(m)
  BY DEF IInv
<1>3. /\ FinalPos \in Nat /\ FinalPos >= 2 /\ LastPos = FinalPos + 1
      /\ m \in Nat /\ pos[t] \in Nat /\ pos[t] \in 1 .. LastPos + 1
      /\ Located(t, pos[t], pc[t], m)
  BY <1>1, <1>2, Whereabouts
<1>4. /\ pc[t] = "body" /\ pos[t] \in 2 .. FinalPos /\ Kind(t) = "cancel"
      /\ work_share_cancelled' = pos[t]
      /\ UNCHANGED <<region, generation, awaited, awaited_final, team_cancelled, task_lock, freed,
                     state, pos, pc>>
  BY DEF CancelLoop, InBody
<1>5. pos[t] < FinalPos
  <2>1. pos[t] = FinalPos => Kind(t) = "final"
    BY <1>1, <1>3, Kinds DEF TypeOK
  <2> QED
    BY <1>3, <1>4, <2>1
<1>6. pos[t] = m
  BY <1>3, <1>4 DEF Located, Leaving, At, Skipped, Ended, Waits
<1>7. FinalPos' = FinalPos /\ LastPos' = LastPos /\ (NoLast' <=> NoLast)
  BY <1>4 DEF FinalPos, LastPos, NoLast
<1>8. NoLast
  BY <1>1, <1>2, <1>4, <1>6, NoLastYet DEF Comes
<1>9. TypeOK' /\ StepsFit' /\ CancelHolds'
  BY <1>1, <1>3, <1>4, <1>5, <1>7 DEF TypeOK, StepsFit, CancelHolds
<1>10. Counting(m)'
  <2>1. Pending(m)' = Pending(m) /\ PendingFinal' = PendingFinal
    BY <1>4, <1>7 DEF Pending, PendingFinal, Counts, CountsFinal
  <2>2. AllLocated(m)' /\ LastAlone(m)' /\ CancelledInBody(m)'
    BY <1>2, <1>4, <1>7 DEF Counting, AllLocated, Located, Leaving, At, Skipped, Ended, LastAlone,
                            CancelledInBody
  <2>3. Counted(m)' /\ FinalCounted(m)' /\ StatesFit(m)'
    BY <1>2, <1>4, <1>7, <2>1 DEF Counting, Counted, FinalCounted, StatesFit, total
  <2>4. LoopCancelled(m)'
    BY <1>4, <1>6, <1>7, <1>8 DEF LoopCancelled, NoLast, Lasts
  <2> QED
    BY <2>2, <2>3, <2>4 DEF Counting
<1> QED
  BY <1>4, <1>7, <1>9, <1>10 DEF IInv

LEMMA FreeTeamPreserves ==
  ASSUME TeamAssumption, RegionAssumption, IInv, FreeTeam
  PROVE  IInv'
<1>1. /\ pc[Master] = "done" /\ freed' = TRUE
      /\ UNCHANGED <<region, generation, awaited, awaited_final, flags, task_lock, state, pos, pc>>
      /\ UNCHANGED <<team_cancelled, work_share_cancelled>>
  BY DEF FreeTeam, flags
<1>2. PICK m \in 1 .. LastPos + 1 : Counting(m)
  BY DEF IInv
<1>3. FinalPos' = FinalPos /\ LastPos' = LastPos /\ (NoLast' <=> NoLast)
  BY <1>1 DEF FinalPos, LastPos, NoLast
<1>4. TypeOK' /\ StepsFit' /\ CancelHolds'
  BY <1>1, <1>3 DEF IInv, TypeOK, StepsFit, CancelHolds
<1>5. Pending(m)' = Pending(m) /\ PendingFinal' = PendingFinal
  BY <1>1, <1>3 DEF Pending, PendingFinal, Counts, CountsFinal
<1>6. Counting(m)'
  BY <1>1, <1>2, <1>3, <1>5 DEF Counting, AllLocated, Located, Leaving, At, Skipped, Ended, LastAlone,
         CancelledInBody, Counted, FinalCounted, StatesFit, LoopCancelled, total
<1> QED
  BY <1>1, <1>3, <1>4, <1>6 DEF IInv

LEMMA CancelSetPreserves ==
  ASSUME TeamAssumption, RegionAssumption, IInv, NEW t \in Threads, CancelSet(t)
  PROVE  IInv'
<1>1. TypeOK /\ StepsFit /\ CancelHolds
  BY DEF IInv
<1>2. PICK m \in 1 .. LastPos + 1 : Counting(m)
  BY DEF IInv
<1>3. /\ FinalPos \in Nat /\ FinalPos >= 2 /\ LastPos = FinalPos + 1
      /\ m \in Nat /\ pos[t] \in Nat /\ pos[t] \in 1 .. LastPos + 1
      /\ Located(t, pos[t], pc[t], m)
  BY <1>1, <1>2, Whereabouts
<1>4. /\ pc[t] = "cancel_set" /\ pos[t] \in 2 .. FinalPos /\ team_cancelled
      /\ task_lock = t /\ task_lock' = "free" /\ state[t] = generation /\ ~generation.cancelled
      /\ generation' = [state[t] EXCEPT !.cancelled = TRUE]
      /\ pc' = [pc EXCEPT ![t] = "cancel_wake"]
      /\ UNCHANGED <<region, awaited, awaited_final, team_cancelled, work_share_cancelled, freed,
                     state, pos>>
  BY <1>1 DEF CancelSet, StepsFit, CancelHolds, Goto, flags, Cancels
<1>5. /\ generation' \in Generations
      /\ generation'.cancelled /\ generation'.phase = generation.phase
  <2>1. generation \in Generations
    BY <1>1 DEF TypeOK
  <2> QED
    BY <1>4, <2>1 DEF Generations
<1>6. /\ pos' = [pos EXCEPT ![t] = pos[t]]
      /\ Moves(t, pos[t], "cancel_wake")
      /\ pc' \in [Threads -> Comes \cup Waits \cup Lasts \cup {"wake", "done"}]
      /\ FinalPos' = FinalPos /\ LastPos' = LastPos
  <2>1. pos' = [pos EXCEPT ![t] = pos[t]] /\ UNCHANGED region
    BY <1>1, <1>4 DEF TypeOK
  <2>2. "cancel_wake" \in Comes \cup Waits \cup Lasts \cup {"wake", "done"}
    BY DEF Comes, Cancels
  <2> QED
    BY <1>1, <1>3, <1>4, <2>1, <2>2, MovesTyped
<1>7. \A u \in Threads \ {t} : pc'[u] = pc[u] /\ pos'[u] = pos[u]
  BY <1>4
<1>8. pos[t] = m /\ NoLast /\ NoLast'
  <2>1. pos[t] = m
    BY <1>3, <1>4 DEF Located, Leaving, At, Skipped, Ended, Waits
  <2>2. NoLast
    BY <1>1, <1>2, <1>4, <2>1, NoLastYet DEF Comes, Cancels
  <2> QED
    BY <1>6, <1>7, <2>1, <2>2 DEF NoLast, Moves, Lasts
<1>9. TypeOK'
  BY <1>1, <1>4, <1>5, <1>6 DEF TypeOK
<1>10. StepsFit'
  <2>1. pc'[t] = "cancel_wake"
    BY <1>6 DEF Moves
  <2> QED
    BY <1>1, <1>4, <1>6, <1>7, <2>1 DEF StepsFit, Cancels, Waits
<1>11. CancelHolds'
  <2>1. \A u \in Threads \ {t} : pc[u] # "cancel_set"
    BY <1>1, <1>4 DEF CancelHolds
  <2>2. pc'[t] = "cancel_wake"
    BY <1>6 DEF Moves
  <2> QED
    BY <1>5, <1>7, <2>1, <2>2 DEF CancelHolds
<1>12. Pending(m)' = Pending(m) \ {t} /\ t \in Pending(m) /\ PendingFinal' = PendingFinal
  <2>1. /\ ~Counts(pos[t], "cancel_wake", m)
        /\ Counts(pos[t], pc[t], m)
        /\ CountsFinal(pos[t], "cancel_wake") /\ CountsFinal(pos[t], pc[t])
    BY <1>3, <1>4, <1>8 DEF Counts, CountsFinal, Comes, Cancels
  <2> QED
    BY <1>4, <1>6, <2>1, PendingMoves DEF Pending, PendingFinal
<1>13. Counting(m)'
  <2>1. AllLocated(m)'
    <3>1. \A u \in Threads : Located(u, pos[u], pc[u], m)'
      <4>1. ASSUME NEW u \in Threads \ {t}
            PROVE  Located(u, pos[u], pc[u], m)'
        <5>1. Located(u, pos[u], pc[u], m)
          BY <1>2 DEF Counting, AllLocated
        <5> QED
          BY <1>4, <1>5, <1>6, <1>7, <5>1 DEF Located, Leaving, At, Skipped, Ended
      <4>2. Located(t, pos[t], pc[t], m)'
        BY <1>3, <1>4, <1>6, <1>8 DEF Moves, Located, At, Comes, Cancels
      <4> QED
        BY <4>1, <4>2
    <3> QED
      BY <3>1 DEF AllLocated
  <2>2. LastAlone(m)' /\ CancelledInBody(m)'
    BY <1>3, <1>4, <1>6, <1>8 DEF LastAlone, NoLast, CancelledInBody
  <2>3. Counted(m)'
    <3>1. \A u \in Threads : pc'[u] # "advance"
      BY <1>8 DEF NoLast, Lasts
    <3>2. ASSUME m <= LastPos, m # FinalPos
          PROVE  awaited > Cardinality(Pending(m)')
      <4>1. awaited = Cardinality(Pending(m))
        BY <1>2, <1>4, <1>8, <3>2 DEF Counting, Counted
      <4>2. /\ Cardinality(Pending(m)) \in Nat
            /\ Cardinality(Pending(m) \ {t}) = Cardinality(Pending(m)) - 1
        BY <1>12, PendingCounted
      <4> QED
        BY <1>12, <4>1, <4>2
    <3> QED
      BY <1>4, <1>5, <1>6, <3>1, <3>2 DEF Counted
  <2>4. FinalCounted(m)'
    <3>1. \A u \in Threads : pc'[u] \notin {"reset", "advance"}
      BY <1>8 DEF NoLast, Lasts
    <3> QED
      BY <1>2, <1>4, <1>6, <1>8, <1>12, <3>1 DEF Counting, FinalCounted, total
  <2>5. StatesFit(m)'
    BY <1>2, <1>4, <1>5, <1>6, <1>7 DEF Moves, Counting, StatesFit, Waits, Lasts
  <2>6. LoopCancelled(m)'
    <3>1. \A u \in Threads : pc'[u] # "advance"
      BY <1>8 DEF NoLast, Lasts
    <3> QED
      BY <1>2, <1>4, <1>6, <1>8, <3>1 DEF Counting, LoopCancelled
  <2> QED
    BY <2>1, <2>2, <2>3, <2>4, <2>5, <2>6 DEF Counting
<1>14. freed' => pc'[Master] = "done"
  BY <1>4, <1>6, <1>7 DEF IInv, TeamAssumption
<1> QED
  BY <1>6, <1>9, <1>10, <1>11, <1>13, <1>14 DEF IInv

(* While a last thread is at work all the others wait in its barrier, but  *)
(* for the workers that do not wait at the very last one.                  *)
LEMMA OthersWait ==
  ASSUME RegionAssumption, TypeOK, NEW m \in 1 .. LastPos + 1, Counting(m),
         NEW t \in Threads, pc[t] \in Lasts
  PROVE  /\ pos[t] = m /\ m <= LastPos
         /\ generation.cancelled => m = FinalPos
         /\ \A u \in Threads \ {t} :
              \/ pos[u] = m /\ pc[u] \in Waits
              \/ pos[u] = LastPos + 1 /\ pc[u] = "done" /\ m = LastPos /\ u # Master
<1>1. /\ FinalPos \in Nat /\ LastPos = FinalPos + 1 /\ m \in Nat
      /\ Located(t, pos[t], pc[t], m)
  BY Whereabouts
<1>2. /\ pos[t] = m
      /\ generation.cancelled => m = FinalPos
      /\ \A u \in Threads \ {t} : (pos[u] = m /\ pc[u] \in Waits) \/ pos[u] > m
  BY DEF Counting, LastAlone
<1>3. m <= LastPos
  BY <1>1, <1>2 DEF Located, Leaving, At, Skipped, Ended, Waits, Lasts
<1>4. ASSUME NEW u \in Threads \ {t}, pos[u] > m
      PROVE  pos[u] = LastPos + 1 /\ pc[u] = "done" /\ m = LastPos /\ u # Master
  <2>1. Located(u, pos[u], pc[u], m)
    BY DEF Counting, AllLocated
  <2>2. Ended(u, pos[u], pc[u], m)
    BY <1>1, <1>2, <1>4, <2>1 DEF Located, Leaving, At, Skipped
  <2> QED
    BY <1>1, <1>3, <2>2 DEF Ended
<1> QED
  BY <1>2, <1>3, <1>4

(* The steps of a last thread before it opens the barrier.                 *)
LEMMA LastPreserves ==
  ASSUME TeamAssumption, RegionAssumption, IInv, NEW t \in Threads, ResetFinal(t) \/ ResetAwaited(t)
  PROVE  IInv'
<1>1. TypeOK /\ StepsFit /\ CancelHolds
  BY DEF IInv
<1>2. PICK m \in 1 .. LastPos + 1 : Counting(m)
  BY DEF IInv
<1>3. /\ FinalPos \in Nat /\ FinalPos >= 2 /\ LastPos = FinalPos + 1
      /\ m \in Nat /\ pos[t] \in Nat /\ pos[t] \in 1 .. LastPos + 1
  BY <1>1, <1>2, Whereabouts
<1>4. /\ pos[t] = m /\ m <= LastPos
      /\ generation.cancelled => m = FinalPos
      /\ \A u \in Threads \ {t} :
           \/ pos[u] = m /\ pc[u] \in Waits
           \/ pos[u] = LastPos + 1 /\ pc[u] = "done" /\ m = LastPos /\ u # Master
  BY <1>1, <1>2, OthersWait DEF ResetFinal, ResetAwaited, Lasts
<1>5. /\ pc[t] \in {"reset_final", "reset"} /\ pc[t] \in Lasts
      /\ UNCHANGED <<region, generation, team_cancelled, task_lock, freed, state, pos>>
      /\ FinalPos' = FinalPos /\ LastPos' = LastPos
      /\ total \in Nat /\ total' = total
  <2>1. total \in Nat /\ total' = total
    BY FS_CardinalityType DEF total, TeamAssumption
  <2> QED
    BY <2>1 DEF ResetFinal, ResetAwaited, FinalPos, LastPos, flags, Lasts
<1>6. PICK c \in {"reset", "advance"} : pc' = [pc EXCEPT ![t] = c]
  BY DEF ResetFinal, ResetAwaited, Goto
<1>7. /\ c \in Lasts /\ c \notin Comes \cup Cancels \cup Waits \cup {"end", "reset_final"}
      /\ pc[t] \notin Comes
      /\ pc'[t] = c /\ \A u \in Threads \ {t} : pc'[u] = pc[u] /\ pc[u] \notin Lasts
  BY <1>1, <1>4, <1>6, <1>5 DEF TypeOK, Comes, Cancels, Waits, Lasts
<1>8. /\ awaited' \in Int /\ awaited_final' \in Int
      /\ c = "advance" => awaited' = total
      /\ m = FinalPos => awaited_final' = total
      /\ m # FinalPos => awaited_final' = awaited_final
  <2>1. CASE ResetFinal(t)
    <3>1. m = FinalPos /\ awaited_final' = total /\ awaited' = awaited /\ c = "reset"
      BY <1>1, <1>4, <1>6, <1>7, <2>1 DEF ResetFinal, StepsFit, Goto
    <3> QED
      BY <1>1, <1>5, <3>1 DEF TypeOK
  <2>2. CASE ResetAwaited(t)
    <3>1. pc[t] = "reset" /\ awaited_final' = awaited_final /\ awaited' = total
      BY <2>2 DEF ResetAwaited
    <3> QED
      BY <1>1, <1>2, <1>5, <3>1 DEF TypeOK, Counting, FinalCounted
  <2> QED
    BY <2>1, <2>2
<1>9. /\ work_share_cancelled' \in {0, work_share_cancelled}
      /\ c = "advance" /\ m < LastPos => work_share_cancelled' = 0
  <2>1. CASE ResetFinal(t)
    <3>1. m = FinalPos /\ work_share_cancelled' = work_share_cancelled /\ c = "reset"
      BY <1>1, <1>4, <1>6, <1>7, <2>1 DEF ResetFinal, StepsFit, Goto, flags
    <3> QED
      BY <3>1
  <2>2. CASE ResetAwaited(t)
    <3>1. work_share_cancelled' = IF Kind(t) \in {"plain", "last"} THEN work_share_cancelled ELSE 0
      BY <2>2 DEF ResetAwaited
    <3>2. CASE m = 1
      <4>1. work_share_cancelled \in {0, 1}
        BY <1>2, <1>3, <3>2 DEF Counting, LoopCancelled
      <4>2. work_share_cancelled \in {0} \cup 2 .. FinalPos - 1
        BY <1>1 DEF TypeOK
      <4>3. work_share_cancelled = 0
        BY <4>1, <4>2
      <4> QED
        BY <3>1, <4>3
    <3>3. CASE m # 1
      <4>1. m < LastPos => Kind(t) \in {"wait", "cancel", "final"}
        <5>1. pos[t] \in 1 .. LastPos /\ region \in Regions
          BY <1>1, <1>3, <1>4 DEF TypeOK
        <5> QED
          BY <1>3, <1>4, <3>3, <5>1, Kinds
      <4> QED
        BY <3>1, <4>1
    <3> QED
      BY <3>2, <3>3
  <2> QED
    BY <2>1, <2>2
<1>10. TypeOK'
  <2>1. pc' \in [Threads -> Comes \cup Waits \cup Lasts \cup {"wake", "done"}]
    BY <1>1, <1>6, <1>7 DEF TypeOK
  <2>2. work_share_cancelled' \in {0} \cup 2 .. FinalPos' - 1
    BY <1>1, <1>5, <1>9 DEF TypeOK
  <2> QED
    BY <1>1, <1>5, <1>8, <2>1, <2>2 DEF TypeOK
<1>11. StepsFit' /\ CancelHolds'
  BY <1>1, <1>5, <1>7 DEF StepsFit, CancelHolds, Cancels
<1>12. Counting(m)'
  <2>1. AllLocated(m)'
    BY <1>2, <1>4, <1>5, <1>7 DEF Counting, AllLocated, Located, Leaving, At, Skipped, Ended
  <2>2. LastAlone(m)'
    BY <1>3, <1>4, <1>5, <1>7 DEF LastAlone
  <2>3. CancelledInBody(m)'
    BY <1>2, <1>5 DEF Counting, CancelledInBody
  <2>4. ~NoLast'
    BY <1>7 DEF NoLast
  <2>5. Counted(m)'
    BY <1>5, <1>7, <1>8, <2>4 DEF Counted, Lasts
  <2>6. PendingFinal' = PendingFinal
    BY <1>5, <1>7 DEF PendingFinal, CountsFinal
  <2>7. FinalCounted(m)'
    BY <1>2, <1>5, <1>8, <2>4, <2>6 DEF Counting, FinalCounted
  <2>8. StatesFit(m)'
    BY <1>2, <1>5, <1>7 DEF Counting, StatesFit, Waits, Lasts
  <2>9. LoopCancelled(m)'
    <3>1. \A u \in Threads \ {t} : pc'[u] # "advance"
      BY <1>7 DEF Lasts
    <3>2. m < FinalPos => work_share_cancelled \in {0, m}
      BY <1>2 DEF Counting, LoopCancelled
    <3> QED
      BY <1>5, <1>7, <1>9, <2>4, <3>1, <3>2 DEF LoopCancelled
  <2> QED
    BY <2>1, <2>2, <2>3, <2>5, <2>7, <2>8, <2>9 DEF Counting
<1>13. freed' => pc'[Master] = "done"
  BY <1>5, <1>7 DEF IInv, TeamAssumption, Lasts
<1> QED
  BY <1>5, <1>10, <1>11, <1>12, <1>13 DEF IInv

(* The next barrier is counted from the moment this one is opened.         *)
LEMMA AdvancePreserves ==
  ASSUME TeamAssumption, RegionAssumption, WrapAssumption, IInv, NEW t \in Threads, Advance(t)
  PROVE  IInv'
<1>1. TypeOK /\ StepsFit /\ CancelHolds
  BY DEF IInv
<1>2. PICK m \in 1 .. LastPos + 1 : Counting(m)
  BY DEF IInv
<1>3. /\ FinalPos \in Nat /\ FinalPos >= 2 /\ LastPos = FinalPos + 1
      /\ m \in Nat /\ pos[t] \in Nat /\ pos[t] \in 1 .. LastPos + 1
  BY <1>1, <1>2, Whereabouts
<1>4. /\ pos[t] = m /\ m <= LastPos
      /\ generation.cancelled => m = FinalPos
      /\ \A u \in Threads \ {t} :
           \/ pos[u] = m /\ pc[u] \in Waits
           \/ pos[u] = LastPos + 1 /\ pc[u] = "done" /\ m = LastPos /\ u # Master
  BY <1>1, <1>2, OthersWait DEF Advance, Lasts
<1>5. /\ pc[t] = "advance"
      /\ generation' = NextGeneration(t)
      /\ UNCHANGED <<region, awaited, awaited_final, team_cancelled, work_share_cancelled, task_lock,
                     freed, state, pos>>
      /\ pc' = [pc EXCEPT ![t] = "wake"]
      /\ FinalPos' = FinalPos /\ LastPos' = LastPos
  BY DEF Advance, Goto, flags, FinalPos, LastPos
<1>6. total \in Nat /\ total' = total
  BY FS_CardinalityType DEF total, TeamAssumption
<1>7. /\ pc'[t] = "wake" /\ \A u \in Threads \ {t} : pc'[u] = pc[u]
      /\ NoLast'
      /\ \A u \in Threads : pc'[u] \notin Comes /\ pc'[u] # "reset_final"
  BY <1>1, <1>4, <1>5 DEF TypeOK, NoLast, Comes, Cancels, Waits, Lasts
<1>8. /\ generation \in Generations /\ generation.phase \in 0 .. Wrap - 1
      /\ generation.cancelled \in BOOLEAN
      /\ state[t].phase = generation.phase
      /\ state[t].cancelled => generation.cancelled
  <2>1. generation \in Generations
    BY <1>1 DEF TypeOK
  <2> QED
    BY <1>2, <1>3, <1>4, <1>5, <2>1 DEF Counting, StatesFit, Generations, Lasts
<1>9. generation' = [phase |-> (generation.phase + 1) % Wrap, cancelled |-> FALSE]
  <2>1. pos[t] \in 1 .. LastPos /\ region \in Regions
    BY <1>1, <1>3, <1>4 DEF TypeOK
  <2>2. /\ Kind(t) \in {"plain", "last"} => pos[t] # FinalPos
        /\ Kind(t) = "cancel" => pos[t] # FinalPos
        /\ Kind(t) \in {"plain", "last", "wait", "final", "cancel"}
    BY <1>3, <2>1, Kinds
  <2>3. CASE Kind(t) \in {"plain", "last"}
    <3>1. generation.cancelled = FALSE
      BY <1>4, <1>8, <2>2, <2>3
    <3> QED
      BY <1>5, <2>3, <3>1 DEF NextGeneration, Incremented
  <2>4. CASE Kind(t) \in {"wait", "final"}
    BY <1>5, <2>4 DEF NextGeneration, Incremented
  <2>5. CASE Kind(t) = "cancel"
    <3>1. state[t] \in Generations
      BY <1>1 DEF TypeOK
    <3>2. state[t].cancelled = FALSE
      BY <1>4, <1>8, <2>2, <2>5, <3>1 DEF Generations
    <3> QED
      BY <1>5, <2>5, <3>2 DEF NextGeneration, Incremented
  <2> QED
    BY <2>2, <2>3, <2>4, <2>5
<1>10. /\ generation' \in Generations
       /\ generation'.phase = (generation.phase + 1) % Wrap /\ generation'.cancelled = FALSE
  <2>1. (generation.phase + 1) % Wrap \in 0 .. Wrap - 1
    BY <1>8, NextPhase
  <2> QED
    BY <1>9, <2>1 DEF Generations
<1>11. TypeOK'
  <2>1. pc' \in [Threads -> Comes \cup Waits \cup Lasts \cup {"wake", "done"}]
    BY <1>1, <1>5 DEF TypeOK
  <2> QED
    BY <1>1, <1>5, <1>10, <2>1 DEF TypeOK
<1>12. StepsFit' /\ CancelHolds'
  <2>1. \A u \in Threads : pc'[u] \notin Cancels \cup {"end"}
    BY <1>7 DEF Comes
  <2> QED
    BY <1>1, <1>5, <1>7, <2>1 DEF StepsFit, CancelHolds, Cancels, Waits
<1>13. m + 1 \in 1 .. LastPos' + 1
  BY <1>3, <1>4, <1>5
<1>14. m < LastPos => \A u \in Threads : pos'[u] = m
  BY <1>3, <1>4, <1>5
<1>15. Counting(m + 1)'
  <2>1. AllLocated(m + 1)'
    BY <1>3, <1>4, <1>5, <1>7 DEF AllLocated, Located, Leaving, Ended
  <2>2. LastAlone(m + 1)' /\ CancelledInBody(m + 1)'
    BY <1>7, <1>10 DEF LastAlone, NoLast, CancelledInBody
  <2>3. \A u \in Threads : pc'[u] \notin {"reset", "advance"}
    BY <1>7 DEF NoLast, Lasts
  <2>4. Counted(m + 1)'
    <3>1. awaited = total
      BY <1>2, <1>5 DEF Counting, Counted
    <3>2. m < LastPos => Pending(m + 1)' = Threads
      BY <1>3, <1>14 DEF Pending, Counts
    <3> QED
      BY <1>3, <1>5, <1>10, <2>3, <3>1, <3>2 DEF Counted, total
  <2>5. FinalCounted(m + 1)'
    <3>1. CASE m < FinalPos
      <4>1. awaited_final = Cardinality(PendingFinal)
        BY <1>2, <3>1 DEF Counting, FinalCounted
      <4>2. /\ \A u \in Threads : pos[u] < FinalPos
            /\ \A u \in Threads : pos'[u] < FinalPos'
        BY <1>3, <1>5, <1>14, <3>1
      <4>3. PendingFinal = Threads /\ PendingFinal' = Threads
        BY <4>2 DEF PendingFinal, CountsFinal
      <4> QED
        BY <1>3, <1>5, <2>3, <3>1, <4>1, <4>3 DEF FinalCounted
    <3>2. CASE m >= FinalPos
      <4>1. awaited_final = total
        BY <1>2, <1>3, <1>5, <3>2 DEF Counting, FinalCounted
      <4> QED
        BY <1>3, <1>5, <1>6, <3>2, <4>1 DEF FinalCounted
    <3> QED
      BY <1>3, <3>1, <3>2
  <2>6. StatesFit(m + 1)'
    <3>1. \A u \in Threads : /\ pos'[u] >= m + 1 => pc'[u] = "done"
                             /\ pos'[u] = m /\ pc'[u] \in Waits => state[u].phase = generation.phase
      <4>1. pc'[t] \notin Waits /\ pos'[t] = m
        BY <1>4, <1>5, <1>7 DEF Waits
      <4>2. \A u \in Threads : pos[u] = m /\ pc[u] \in Waits => state[u].phase = generation.phase
        BY <1>2, <1>3 DEF Counting, StatesFit
      <4> QED
        BY <1>3, <1>4, <1>5, <1>7, <4>1, <4>2
    <3> QED
      BY <1>3, <1>5, <1>10, <3>1 DEF StatesFit, Waits, Lasts
  <2>7. LoopCancelled(m + 1)'
    <3>1. m < LastPos => work_share_cancelled = 0
      BY <1>2, <1>5 DEF Counting, LoopCancelled
    <3> QED
      BY <1>3, <1>5, <2>3, <3>1 DEF LoopCancelled
  <2> QED
    BY <2>1, <2>2, <2>4, <2>5, <2>6, <2>7 DEF Counting
<1>16. freed' => pc'[Master] = "done"
  BY <1>5, <1>7 DEF IInv, TeamAssumption
<1> QED
  BY <1>11, <1>12, <1>13, <1>15, <1>16 DEF IInv

(* What an arriving thread leaves alone, and what it finds.                *)
LEMMA ArriveChanges ==
  ASSUME RegionAssumption, TypeOK, NEW m \in 1 .. LastPos + 1, Counting(m),
         NEW t \in Threads, Arrive(t)
  PROVE  /\ pc[t] = "arrive"
         /\ UNCHANGED <<region, generation, team_cancelled, work_share_cancelled, task_lock, freed,
                        state>>
         /\ FinalPos' = FinalPos /\ LastPos' = LastPos
         /\ pos[t] \in 1 .. LastPos
         /\ NoLast
         /\ pos[t] = m \/ (pos[t] = FinalPos /\ m < FinalPos /\ generation.cancelled)
         /\ state[t].cancelled => generation.cancelled
<1>1. pc[t] = "arrive" /\ pc[t] \in Comes /\ pc[t] \notin Waits \cup {"wake", "done"}
  BY DEF Arrive, Comes, Waits
<1>2. /\ UNCHANGED <<region, generation, team_cancelled, work_share_cancelled, task_lock, freed,
                     state>>
      /\ FinalPos' = FinalPos /\ LastPos' = LastPos
  BY DEF Arrive, flags, FinalPos, LastPos
<1>3. /\ m \in Nat /\ pos[t] \in Nat /\ FinalPos \in Nat
      /\ pos[t] \in 1 .. LastPos
      /\ Located(t, pos[t], pc[t], m)
  BY <1>1, Whereabouts
<1>4. pos[t] = m \/ (pos[t] = FinalPos /\ m < FinalPos /\ generation.cancelled)
  BY <1>1, <1>3 DEF Located, Leaving, At, Skipped, Ended
<1>5. NoLast
  <2>1. CASE pos[t] = m
    BY <1>1, <2>1, NoLastYet
  <2>2. CASE m < FinalPos /\ generation.cancelled
    BY <1>3, <2>2 DEF Counting, LastAlone, NoLast
  <2> QED
    BY <1>4, <2>1, <2>2
<1>6. state[t].cancelled => generation.cancelled
  BY <1>1, <1>3, <1>4 DEF Counting, StatesFit
<1> QED
  BY <1>1, <1>2, <1>3, <1>4, <1>5, <1>6

LEMMA ArrivePreserves ==
  ASSUME TeamAssumption, RegionAssumption, IInv, NEW t \in Threads, Arrive(t)
  PROVE  IInv'
<1>1. TypeOK /\ StepsFit /\ CancelHolds
  BY DEF IInv
<1>2. PICK m \in 1 .. LastPos + 1 : Counting(m)
  BY DEF IInv
<1>3. /\ FinalPos \in Nat /\ FinalPos >= 2 /\ LastPos = FinalPos + 1
      /\ m \in Nat /\ pos[t] \in Nat /\ pos[t] \in 1 .. LastPos + 1
      /\ Located(t, pos[t], pc[t], m)
  BY <1>1, <1>2, Whereabouts
<1>4. /\ pc[t] = "arrive"
      /\ UNCHANGED <<region, generation, team_cancelled, work_share_cancelled, task_lock, freed, state>>
      /\ FinalPos' = FinalPos /\ LastPos' = LastPos
      /\ pos[t] \in 1 .. LastPos
      /\ NoLast
      /\ pos[t] = m \/ (pos[t] = FinalPos /\ m < FinalPos /\ generation.cancelled)
      /\ state[t].cancelled => generation.cancelled
  BY <1>1, <1>2, ArriveChanges
<1>5. /\ pos[t] = 1 => Kind(t) = "plain"
      /\ pos[t] \in 2 .. FinalPos - 1 => Kind(t) \in {"wait", "cancel"}
      /\ pos[t] = FinalPos => Kind(t) = "final"
      /\ pos[t] = LastPos => Kind(t) = IF t = Master THEN "plain" ELSE "last"
  BY <1>1, <1>4, Kinds DEF TypeOK
<1>6. /\ Cardinality(Pending(m)) \in Nat /\ Cardinality(PendingFinal) \in Nat
      /\ \A u \in Pending(m) : Cardinality(Pending(m) \ {u}) = Cardinality(Pending(m)) - 1
      /\ \A u \in PendingFinal : Cardinality(PendingFinal \ {u}) = Cardinality(PendingFinal) - 1
      /\ Cardinality(Pending(m)) = 1 => \A w, u \in Pending(m) : w = u
      /\ Cardinality(PendingFinal) = 1 => \A w, u \in PendingFinal : w = u
  BY PendingCounted
(* It goes to wait, to the end, or past the very last barrier.             *)
<1>7. ASSUME NEW p \in 1 .. LastPos + 1, NEW c \in {"spin", "end", "done"},
             pos' = [pos EXCEPT ![t] = p], pc' = [pc EXCEPT ![t] = c],
             awaited' \in Int, awaited_final' \in Int,
             Located(t, p, c, m),
             c = "end" => p = FinalPos,
             c = "spin" => p = pos[t] /\ (p = LastPos => t = Master),
             m # FinalPos /\ m <= LastPos =>
               IF generation.cancelled THEN awaited' > Cardinality(Pending(m)')
                                       ELSE awaited' = Cardinality(Pending(m)'),
             m <= FinalPos => awaited_final' = Cardinality(PendingFinal'),
             m > FinalPos => awaited_final' = awaited_final
      PROVE  IInv'
  <2>1. /\ pc'[t] = c /\ pos'[t] = p
        /\ \A u \in Threads \ {t} : pc'[u] = pc[u] /\ pos'[u] = pos[u]
        /\ c \notin Cancels \cup Lasts
        /\ NoLast' /\ \A u \in Threads : pc'[u] \notin {"reset_final", "reset", "advance"}
    BY <1>1, <1>4, <1>7 DEF TypeOK, NoLast, Cancels, Lasts
  <2>2. TypeOK'
    <3>1. /\ pc' \in [Threads -> Comes \cup Waits \cup Lasts \cup {"wake", "done"}]
          /\ pos' \in [Threads -> 1 .. LastPos' + 1]
      BY <1>1, <1>4, <1>7 DEF TypeOK, Comes, Waits
    <3> QED
      BY <1>1, <1>4, <1>7, <3>1 DEF TypeOK
  <2>3. StepsFit' /\ CancelHolds'
    BY <1>1, <1>4, <1>7, <2>1 DEF StepsFit, CancelHolds, Cancels, Waits
  <2>4. AllLocated(m)'
    BY <1>2, <1>4, <1>7, <2>1 DEF Counting, AllLocated, Located, Leaving, At, Skipped, Ended
  <2>5. LastAlone(m)' /\ CancelledInBody(m)'
    BY <1>2, <1>4, <2>1 DEF NoLast, LastAlone, Counting, CancelledInBody
  <2>6. Counted(m)'
    BY <1>4, <1>7, <2>1 DEF Counted
  <2>7. FinalCounted(m)'
    <3>1. total' = total
      BY DEF total
    <3> QED
      BY <1>2, <1>3, <1>4, <1>7, <2>1, <3>1 DEF Counting, FinalCounted
  <2>8. StatesFit(m)'
    <3>1. /\ \A u \in Threads \ {t} : pc'[u] = pc[u] /\ pos'[u] = pos[u]
          /\ c \in Waits => c = "spin"
          /\ c \notin Lasts \cup {"arrive"}
          /\ pos[t] >= m
      BY <1>3, <1>4, <2>1 DEF Waits, Lasts
    <3> QED
      BY <1>2, <1>3, <1>4, <1>7, <2>1, <3>1 DEF Counting, StatesFit
  <2>9. LoopCancelled(m)'
    BY <1>2, <1>4, <2>1 DEF Counting, LoopCancelled
  <2>10. freed' => pc'[Master] = "done"
    BY <1>4, <2>1 DEF IInv, TeamAssumption
  <2> QED
    BY <1>4, <2>2, <2>3, <2>4, <2>5, <2>6, <2>7, <2>8, <2>9, <2>10 DEF IInv, Counting
(* It is the last one of barrier n.                                        *)
<1>8. ASSUME NEW n \in 1 .. LastPos, NEW c \in {"reset", "reset_final"},
             pos' = pos, pc' = [pc EXCEPT ![t] = c], pos[t] = n, n >= m,
             awaited' \in Int, awaited_final' \in Int,
             c = "reset_final" <=> n = FinalPos,
             n # FinalPos => n = m /\ ~generation.cancelled /\ awaited_final' = awaited_final,
             \A u \in Threads \ {t} :
               (pos[u] = n /\ pc[u] \in Waits) \/ Ended(u, pos[u], pc[u], n)
      PROVE  IInv'
  <2>1. /\ pc'[t] = c /\ pos'[t] = n
        /\ \A u \in Threads \ {t} : pc'[u] = pc[u] /\ pc[u] \notin Lasts
        /\ c \notin Cancels \cup Waits \cup {"end", "advance"} /\ c \in Lasts
        /\ n \in Nat
    BY <1>1, <1>3, <1>4, <1>8 DEF TypeOK, NoLast, Cancels, Waits, Lasts
  <2>2. TypeOK'
    <3>1. pc' \in [Threads -> Comes \cup Waits \cup Lasts \cup {"wake", "done"}]
      BY <1>1, <1>8, <2>1 DEF TypeOK
    <3> QED
      BY <1>1, <1>4, <1>8, <3>1 DEF TypeOK
  <2>3. StepsFit' /\ CancelHolds'
    BY <1>1, <1>4, <1>8, <2>1 DEF StepsFit, CancelHolds, Cancels, Lasts
  <2>4. AllLocated(n)'
    BY <1>4, <1>8, <2>1 DEF AllLocated, Located, At, Ended
  <2>5. LastAlone(n)' /\ ~NoLast'
    BY <1>3, <1>4, <1>8, <2>1 DEF LastAlone, NoLast, Ended
  <2>6. CancelledInBody(n)'
    BY <1>2, <1>3, <1>4, <1>8 DEF Counting, CancelledInBody
  <2>7. \A u \in Threads : pc'[u] # "advance" /\ (n = FinalPos => pc'[u] # "reset")
    BY <1>3, <1>8, <2>1 DEF Lasts
  <2>8. Counted(n)'
    BY <2>5, <2>7 DEF Counted
  <2>9. FinalCounted(n)'
    <3>1. CASE n = FinalPos
      BY <1>3, <1>4, <2>5, <2>7, <3>1 DEF FinalCounted
    <3>2. CASE n # FinalPos
      <4>1. PendingFinal' = PendingFinal
        <5>1. CountsFinal(pos[t], c) <=> CountsFinal(pos[t], pc[t])
          BY <1>3, <1>8, <3>2 DEF CountsFinal
        <5> QED
          BY <1>4, <1>8, <2>1, <5>1 DEF PendingFinal, CountsFinal
      <4>2. total' = total
        BY DEF total
      <4> QED
        BY <1>2, <1>3, <1>4, <1>8, <2>5, <3>2, <4>1, <4>2 DEF Counting, FinalCounted
    <3> QED
      BY <3>1, <3>2
  <2>10. StatesFit(n)'
    <3>1. \A u \in Threads : pos[u] >= m /\ pc[u] \in {"arrive"} \cup Waits \cup Lasts =>
            /\ state[u].phase = generation.phase
            /\ state[u].cancelled => generation.cancelled
      BY <1>2 DEF Counting, StatesFit
    <3>2. \A u \in Threads : pos[u] >= n => pos[u] >= m
      BY <1>1, <1>3, <1>8, <2>1 DEF TypeOK
    <3>3. \A u \in Threads : pos[u] # n - 1
      BY <1>3, <1>8, <2>1 DEF Ended
    <3> QED
      BY <1>4, <1>8, <2>1, <3>1, <3>2, <3>3 DEF StatesFit
  <2>11. LoopCancelled(n)'
    BY <1>2, <1>4, <1>8, <2>5, <2>7 DEF Counting, LoopCancelled
  <2>12. freed' => pc'[Master] = "done"
    BY <1>4, <2>1 DEF IInv, TeamAssumption
  <2>13. n \in 1 .. LastPos' + 1
    BY <1>3, <1>4
  <2> QED
    BY <2>2, <2>3, <2>4, <2>5, <2>6, <2>8, <2>9, <2>10, <2>11, <2>12, <2>13 DEF IInv, Counting
<1>9. CASE pos[t] = FinalPos
  <2>1. /\ awaited_final' = awaited_final - 1 /\ awaited' = awaited
        /\ IF awaited_final = 1 THEN Goto(t, "reset_final") /\ UNCHANGED pos
                                ELSE Goto(t, "spin") /\ UNCHANGED pos
    BY <1>3, <1>5, <1>9 DEF Arrive, NotLast
  <2>2. m <= FinalPos /\ t \in PendingFinal /\ awaited_final = Cardinality(PendingFinal)
    BY <1>2, <1>3, <1>4, <1>9 DEF Counting, FinalCounted, PendingFinal, CountsFinal, Comes
  <2>3. awaited' \in Int /\ awaited_final' \in Int
    BY <1>1, <2>1 DEF TypeOK
  <2>4. CASE awaited_final = 1
    <3>1. \A u \in Threads \ {t} : ~CountsFinal(pos[u], pc[u])
      BY <1>6, <2>2, <2>4 DEF PendingFinal
    <3>2. \A u \in Threads \ {t} : pos[u] = FinalPos /\ pc[u] \in Waits
      <4> SUFFICES ASSUME NEW u \in Threads \ {t}
                   PROVE  pos[u] = FinalPos /\ pc[u] \in Waits
        OBVIOUS
      <4>1. Located(u, pos[u], pc[u], m) /\ pc[u] \notin Lasts
        BY <1>2, <1>4 DEF Counting, AllLocated, NoLast
      <4>2. "end" \in Comes /\ "arrive" \in Comes
        BY DEF Comes
      <4> QED
        BY <1>3, <2>2, <3>1, <4>1, <4>2 DEF Located, Leaving, At, Skipped, Ended, CountsFinal
    <3> QED
      BY <1>3, <1>8, <1>9, <2>1, <2>2, <2>3, <2>4, <3>2 DEF Goto
  <2>5. CASE awaited_final # 1
    <3>1. pos' = [pos EXCEPT ![t] = pos[t]] /\ pc' = [pc EXCEPT ![t] = "spin"]
      BY <1>1, <2>1, <2>5 DEF TypeOK, Goto
    <3>2. Moves(t, pos[t], "spin")
      BY <1>1, <1>4, <3>1 DEF TypeOK, Moves
    <3>3. ~CountsFinal(pos[t], "spin") /\ (Counts(pos[t], "spin", m) <=> FALSE)
      BY <1>3, <1>9, <2>2 DEF CountsFinal, Counts, Comes, Cancels
    <3>4. PendingFinal' = PendingFinal \ {t} /\ Pending(m)' = Pending(m) \ {t}
      BY <1>4, <3>2, <3>3, PendingMoves
    <3>5. m # FinalPos => t \notin Pending(m)
      BY <1>3, <1>4, <1>9, <2>2 DEF Pending, Counts
    <3>6. m # FinalPos => Pending(m)' = Pending(m)
      BY <3>4, <3>5
    <3>7. Located(t, pos[t], "spin", m)
      BY <1>3, <1>4, <1>9 DEF Located, At, Skipped, Waits
    <3>8. awaited_final' = Cardinality(PendingFinal')
      BY <1>6, <2>1, <2>2, <3>4
    <3>9. pos[t] # LastPos
      BY <1>3, <1>9
    <3>10. m # FinalPos /\ m <= LastPos =>
             IF generation.cancelled THEN awaited' > Cardinality(Pending(m)')
                                     ELSE awaited' = Cardinality(Pending(m)')
      BY <1>2, <1>4, <2>1, <3>6 DEF Counting, Counted
    <3>11. ~(m > FinalPos)
      BY <1>3, <2>2
    <3> QED
      BY <1>3, <1>7, <2>3, <3>1, <3>7, <3>8, <3>9, <3>10, <3>11
  <2> QED
    BY <2>4, <2>5
<1>10. CASE pos[t] # FinalPos
  <2>1. pos[t] = m /\ m # FinalPos /\ m <= LastPos /\ Kind(t) # "final"
    BY <1>3, <1>4, <1>5, <1>10
  <2>2. /\ awaited' = awaited - 1 /\ awaited_final' = awaited_final
        /\ IF awaited = 1 THEN Goto(t, "reset") /\ UNCHANGED pos ELSE NotLast(t)
    BY <2>1 DEF Arrive
  <2>3. awaited' \in Int /\ awaited_final' \in Int
    BY <1>1, <2>2 DEF TypeOK
  <2>4. t \in Pending(m)
    BY <1>4, <2>1 DEF Pending, Counts, Comes
  <2>5. IF generation.cancelled THEN awaited > Cardinality(Pending(m))
                                ELSE awaited = Cardinality(Pending(m))
    BY <1>2, <1>4, <2>1 DEF Counting, Counted
  <2>6. CASE awaited = 1
    <3>1. Cardinality(Pending(m)) = 1 /\ ~generation.cancelled
      <4>1. Cardinality(Pending(m) \ {t}) \in Nat
        BY FS_Subset, FS_CardinalityType DEF Pending, TeamAssumption
      <4>2. Cardinality(Pending(m)) >= 1
        BY <1>6, <2>4, <4>1
      <4> QED
        BY <1>6, <2>5, <2>6, <4>2
    <3>2. \A u \in Threads \ {t} : ~Counts(pos[u], pc[u], m)
      BY <1>6, <2>4, <3>1 DEF Pending
    <3>3. \A u \in Threads \ {t} :
            (pos[u] = m /\ pc[u] \in Waits) \/ Ended(u, pos[u], pc[u], m)
      <4> SUFFICES ASSUME NEW u \in Threads \ {t}
                   PROVE  (pos[u] = m /\ pc[u] \in Waits) \/ Ended(u, pos[u], pc[u], m)
        OBVIOUS
      <4>1. /\ Located(u, pos[u], pc[u], m)
            /\ pc[u] \notin Lasts /\ pc[u] # "cancel_wake"
        BY <1>1, <1>2, <1>4, <3>1 DEF Counting, AllLocated, NoLast, CancelHolds
      <4> QED
        BY <3>1, <3>2, <4>1 DEF Located, Leaving, At, Skipped, Counts
    <3> QED
      BY <1>3, <1>8, <2>1, <2>2, <2>3, <2>6, <3>1, <3>3 DEF Goto
  <2>7. CASE awaited # 1
    <3>1. ASSUME NEW p \in 1 .. LastPos + 1, NEW c \in {"spin", "end", "done"},
                 pos' = [pos EXCEPT ![t] = p], pc' = [pc EXCEPT ![t] = c],
                 Located(t, p, c, m),
                 c = "end" => p = FinalPos,
                 c = "spin" => p = pos[t] /\ (p = LastPos => t = Master),
                 ~Counts(p, c, m) \/ c = "end",
                 CountsFinal(p, c) <=> CountsFinal(pos[t], pc[t])
          PROVE  IInv'
      <4>1. Moves(t, p, c)
        BY <1>1, <1>4, <3>1 DEF TypeOK, Moves
      <4>2. ~Counts(p, c, m)
        <5>1. CASE c = "end"
          <6>1. m < FinalPos
            BY <1>3, <2>1, <3>1, <5>1 DEF Located, Leaving, At, Skipped, Ended, Waits
          <6> QED
            BY <1>3, <3>1, <5>1, <6>1 DEF Counts
        <5> QED
          BY <3>1, <5>1
      <4>3. Pending(m)' = Pending(m) \ {t} /\ PendingFinal' = PendingFinal
        BY <1>4, <3>1, <4>1, <4>2, PendingMoves DEF PendingFinal
      <4>4. IF generation.cancelled THEN awaited' > Cardinality(Pending(m)')
                                    ELSE awaited' = Cardinality(Pending(m)')
        BY <1>1, <1>6, <2>2, <2>4, <2>5, <4>3 DEF TypeOK
      <4>5. m <= FinalPos => awaited_final' = Cardinality(PendingFinal')
        BY <1>2, <1>3, <2>1, <2>2, <4>3 DEF Counting, FinalCounted
      <4> QED
        BY <1>7, <2>2, <2>3, <3>1, <4>4, <4>5
    <3>2. NotLast(t)
      BY <2>2, <2>7
    <3>3. CASE Kind(t) = "last"
      <4>1. pos[t] = LastPos /\ t # Master
        BY <1>3, <1>4, <1>5, <3>3
      <4>2. pos' = [pos EXCEPT ![t] = LastPos + 1] /\ pc' = [pc EXCEPT ![t] = "done"]
        BY <3>2, <3>3, <4>1 DEF NotLast, Leave, Goto
      <4>3. Located(t, LastPos + 1, "done", m)
        BY <1>3, <2>1, <4>1 DEF Located, Ended
      <4>4. ~Counts(LastPos + 1, "done", m)
        BY <1>3, <2>1, <4>1 DEF Counts
      <4>5. CountsFinal(LastPos + 1, "done") <=> CountsFinal(pos[t], pc[t])
        BY <1>3, <4>1 DEF CountsFinal
      <4>6. LastPos + 1 \in 1 .. LastPos + 1
        BY <1>3
      <4> QED
        BY <3>1, <4>2, <4>3, <4>4, <4>5, <4>6
    <3>4. CASE Kind(t) = "cancel" /\ state[t].cancelled
      <4>1. pos[t] \in 2 .. FinalPos - 1 /\ generation.cancelled
        BY <1>3, <1>4, <1>5, <3>4
      <4>2. pos' = [pos EXCEPT ![t] = FinalPos] /\ pc' = [pc EXCEPT ![t] = "end"]
        BY <3>2, <3>4 DEF NotLast, SkipToEnd, Goto
      <4>3. Located(t, FinalPos, "end", m)
        BY <1>3, <2>1, <4>1 DEF Located, Skipped
      <4>4. CountsFinal(FinalPos, "end") <=> CountsFinal(pos[t], pc[t])
        BY <1>3, <4>1 DEF CountsFinal, Comes
      <4>5. FinalPos \in 1 .. LastPos + 1
        BY <1>3
      <4> QED
        BY <3>1, <4>2, <4>3, <4>4, <4>5
    <3>5. CASE Kind(t) # "last" /\ ~(Kind(t) = "cancel" /\ state[t].cancelled)
      <4>1. pos' = [pos EXCEPT ![t] = pos[t]] /\ pc' = [pc EXCEPT ![t] = "spin"]
        BY <1>1, <3>2, <3>5 DEF NotLast, Goto, TypeOK
      <4>2. Located(t, pos[t], "spin", m)
        BY <2>1 DEF Located, At, Waits
      <4>3. ~Counts(pos[t], "spin", m)
        BY <1>3, <2>1 DEF Counts, Comes, Cancels
      <4>4. CountsFinal(pos[t], "spin") <=> CountsFinal(pos[t], pc[t])
        BY <1>3, <1>10 DEF CountsFinal
      <4>5. pos[t] = LastPos => t = Master
        BY <1>5, <3>5
      <4> QED
        BY <1>3, <3>1, <4>1, <4>2, <4>3, <4>4, <4>5
    <3> QED
      BY <3>3, <3>4, <3>5
  <2> QED
    BY <2>6, <2>7
<1> QED
  BY <1>9, <1>10

LEMMA StepPreservesIInv ==
  ASSUME TeamAssumption, RegionAssumption, WrapAssumption
  PROVE  IInv /\ [Next]_vars => IInv'
<1> SUFFICES ASSUME IInv, [Next]_vars
             PROVE  IInv'
  OBVIOUS
<1>1. ASSUME NEW t \in Threads, Step(t)
      PROVE  IInv'
  <2>1. CASE SpinChanged(t) \/ SpinTimeout(t)
    BY <1>1, <2>1, StaysWaiting DEF SpinChanged, SpinTimeout, Goto, Waits
  <2>2. CASE FutexWait(t)
    BY <1>1, <2>2, StaysWaiting DEF FutexWait, Goto, Waits
  <2> QED
    BY <1>1, <2>1, <2>2, LoadGenerationPreserves, ArrivePreserves, LastPreserves, AdvancePreserves,
       WakeAllPreserves, CheckPreserves, CancelReadPreserves, CancelSetPreserves, CancelWakePreserves
       DEF Step
<1>2. ASSUME NEW t \in Threads, Interrupted(t)
      PROVE  IInv'
  BY <1>2, StaysWaiting DEF Interrupted, Goto, Waits
<1>3. CASE UNCHANGED vars
  <2>1. UNCHANGED <<region, generation, awaited, awaited_final, team_cancelled, work_share_cancelled,
                    task_lock, freed, state, pos, pc>>
    BY <1>3 DEF vars, shared, flags
  <2>2. FinalPos' = FinalPos /\ LastPos' = LastPos /\ (NoLast' <=> NoLast) /\ total' = total
    BY <2>1 DEF FinalPos, LastPos, NoLast, total
  <2>3. TypeOK' /\ StepsFit' /\ CancelHolds'
    BY <2>1, <2>2 DEF IInv, TypeOK, StepsFit, CancelHolds
  <2>4. ASSUME NEW m \in 1 .. LastPos + 1, Counting(m)
        PROVE  Counting(m)'
    <3>1. Pending(m)' = Pending(m) /\ PendingFinal' = PendingFinal
      BY <2>1, <2>2 DEF Pending, PendingFinal, Counts, CountsFinal
    <3> QED
      BY <2>1, <2>2, <2>4, <3>1 DEF Counting, AllLocated, Located, Leaving, At, Skipped, Ended,
             LastAlone, CancelledInBody, Counted, FinalCounted, StatesFit, LoopCancelled
  <2> QED
    BY <2>1, <2>2, <2>3, <2>4 DEF IInv
<1> QED
  BY <1>1, <1>2, <1>3, CancelPreserves, CancelLoopPreserves, CancellationPointPreserves,
     FreeTeamPreserves DEF Next

LEMMA Invariant ==
  ASSUME TeamAssumption, RegionAssumption, WrapAssumption
  PROVE  Spec => []IInv
<1>1. Init => IInv
  BY InitIInv
<1>2. IInv /\ [Next]_vars => IInv'
  BY StepPreservesIInv
<1> QED
  BY <1>1, <1>2, PTL DEF Spec

-----------------------------------------------------------------------------

(* No thread gets past a barrier that others have not reached: not the     *)
(* ones of the body, unless the region is cancelled, and not the end of    *)
(* the region in any case, but for the workers at the very last barrier.   *)
THEOREM BarrierKeepsTogether ==
  ASSUME TeamAssumption, RegionAssumption, WrapAssumption
  PROVE  Spec => []BarrierSync
<1>1. ASSUME IInv
      PROVE  BarrierSync
  <2>1. PICK m \in 1 .. LastPos + 1 : Counting(m)
    BY <1>1 DEF IInv
  <2>2. /\ FinalPos \in Nat /\ FinalPos >= 2 /\ LastPos = FinalPos + 1 /\ m \in Nat
    BY <1>1, <2>1, Whereabouts DEF IInv, TeamAssumption
  <2> SUFFICES ASSUME NEW t \in Threads, NEW u \in Threads, NEW k \in 1 .. LastPos,
                      pos[t] > k,
                      k \in 2 .. FinalPos - 1 => pos[t] < FinalPos \/ ~team_cancelled,
                      k = LastPos => t = Master
               PROVE  Arrived(u, k)
    BY DEF BarrierSync
  <2>3. /\ Located(t, pos[t], pc[t], m) /\ Located(u, pos[u], pc[u], m)
        /\ generation.cancelled => m \in 2 .. FinalPos /\ team_cancelled
        /\ pos[t] \in Nat /\ pos[u] \in Nat
    BY <1>1, <2>1, Whereabouts DEF IInv, Counting, CancelledInBody
  <2>4. k < m
    BY <2>2, <2>3 DEF Located, Leaving, At, Skipped, Ended
  <2> QED
    BY <2>2, <2>3, <2>4 DEF Arrived, Located, Leaving, At, Skipped, Ended, Waits
<1> QED
  BY <1>1, Invariant, PTL

(* Neither the canceller's update of the generation nor that of the last   *)
(* thread at a cancellable barrier undoes another one.                     *)
THEOREM UpdatesKept ==
  ASSUME TeamAssumption, RegionAssumption, WrapAssumption
  PROVE  Spec => []NoLostUpdate
<1>1. ASSUME IInv
      PROVE  NoLostUpdate
  <2>1. PICK m \in 1 .. LastPos + 1 : Counting(m)
    BY <1>1 DEF IInv
  <2>2. ASSUME NEW t \in Threads, pc[t] = "cancel_set"
        PROVE  generation = state[t]
    BY <1>1, <2>2 DEF IInv, CancelHolds
  <2>3. ASSUME NEW t \in Threads, pc[t] = "advance", Kind(t) \notin {"plain", "last", "final"}
        PROVE  generation = state[t]
    <3>1. TypeOK
      BY <1>1 DEF IInv
    <3>2. pos[t] = m /\ m <= LastPos /\ (generation.cancelled => m = FinalPos)
      BY <2>1, <2>3, <3>1, OthersWait DEF Lasts
    <3>3. pos[t] # FinalPos
      <4>1. pos[t] \in 1 .. LastPos /\ region \in Regions
        BY <2>1, <3>1, <3>2, Whereabouts DEF TypeOK
      <4> QED
        BY <2>3, <4>1, Kinds
    <3>4. state[t].phase = generation.phase /\ (state[t].cancelled => generation.cancelled)
      BY <2>1, <2>3, <3>2 DEF Counting, StatesFit, Lasts
    <3>5. generation \in Generations /\ state[t] \in Generations
      BY <3>1 DEF TypeOK
    <3> QED
      BY <3>2, <3>3, <3>4, <3>5 DEF Generations
  <2> QED
    BY <2>2, <2>3 DEF NoLostUpdate
<1> QED
  BY <1>1, Invariant, PTL

(* Once the master has freed the team its workers only wake others.        *)
THEOREM FreedTeamLeftAlone ==
  ASSUME TeamAssumption, RegionAssumption, WrapAssumption
  PROVE  Spec => []FreedTeamUntouched
<1>1. ASSUME IInv
      PROVE  FreedTeamUntouched
  <2>1. PICK m \in 1 .. LastPos + 1 : Counting(m)
    BY <1>1 DEF IInv
  <2> SUFFICES ASSUME freed, NEW t \in Threads
               PROVE  pc[t] \in {"wake", "done"}
    BY DEF FreedTeamUntouched
  <2>2. /\ FinalPos \in Nat /\ LastPos = FinalPos + 1 /\ m \in Nat
        /\ pos[t] \in 1 .. LastPos + 1
        /\ Located(t, pos[t], pc[t], m) /\ Located(Master, pos[Master], pc[Master], m)
    BY <1>1, <2>1, Whereabouts DEF IInv, TeamAssumption
  <2>3. m = LastPos + 1
    <3>1. pc[Master] = "done"
      BY <1>1 DEF IInv
    <3>2. Ended(Master, pos[Master], pc[Master], m)
      BY <2>2, <3>1 DEF Located, Leaving, At, Skipped, Waits, Comes, Cancels, Lasts
    <3> QED
      BY <2>2, <3>2 DEF Ended
  <2>4. pc[t] \in Waits /\ pos[t] = LastPos => pc[t] = "done"
    BY <1>1 DEF IInv, StepsFit
  <2> QED
    BY <2>2, <2>3, <2>4 DEF Located, Leaving, At, Skipped, Ended
<1> QED
  BY <1>1, Invariant, PTL

(* Whoever sees at a cancellation point that a loop is cancelled is in     *)
(* that loop.                                                              *)
THEOREM LoopCancellationStays ==
  ASSUME TeamAssumption, RegionAssumption, WrapAssumption
  PROVE  Spec => []LoopCancelStays
<1>1. ASSUME IInv
      PROVE  LoopCancelStays
  <2>1. PICK m \in 1 .. LastPos + 1 : Counting(m)
    BY <1>1 DEF IInv
  <2> SUFFICES ASSUME NEW t \in Threads, pc[t] = "body", pos[t] \in 2 .. FinalPos,
                      work_share_cancelled # 0
               PROVE  work_share_cancelled = pos[t]
    BY DEF LoopCancelStays, InBody
  <2>2. m \in Nat /\ FinalPos \in Nat /\ Located(t, pos[t], pc[t], m)
    BY <1>1, <2>1, Whereabouts DEF IInv
  <2>3. pos[t] = m
    BY <2>2 DEF Located, Leaving, At, Skipped, Ended, Waits
  <2>4. NoLast
    BY <1>1, <2>1, <2>3, NoLastYet DEF IInv, Comes
  <2> QED
    BY <2>1, <2>2, <2>3, <2>4 DEF Counting, LoopCancelled
<1> QED
  BY <1>1, Invariant, PTL
=============================================================================
