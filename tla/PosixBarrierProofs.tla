------------------------- MODULE PosixBarrierProofs -------------------------
(***************************************************************************)
(* The barrier without futexes keeps the threads of a nested team together *)
(* and nobody is in it when it is destroyed: for every finite team, every  *)
(* list of barriers and every number of phases.                            *)
(***************************************************************************)
EXTENDS PosixBarrier, FiniteSetTheorems, TLAPS

Counted == {"sem1", "look", "leave", "cleave"}       \* in arrived
Posting == {"open", "post", "sem2", "cpost", "csem2"} \* with mutex1 held
Places  == {"body", "end", "cancel", "done", "post2", "cpost2"} \cup Counted \cup Posting

Phases      == 0 .. Wrap - 1
Generations == [phase : Phases, cancelled : BOOLEAN]

TypeOK ==
  /\ region \in Regions
  /\ generation \in Generations
  /\ arrived \in Int /\ sem1 \in Int /\ sem2 \in Int
  /\ cancellable \in BOOLEAN /\ team_cancelled \in BOOLEAN /\ freed \in BOOLEAN
  /\ mutex1 \in Threads \cup {"free"}
  /\ state \in [Threads -> Phases]
  /\ n \in [Threads -> Int]
  /\ pos \in [Threads -> 1 .. LastPos + 1]
  /\ pc \in [Threads -> Places]

Waiting == {t \in Threads : pc[t] = "sem1"}
Inside  == {t \in Threads : pc[t] \in Counted}
Lasts   == {t \in Threads : pc[t] \in {"post2", "cpost2"}}

CancelAhead(k) == k \in 2 .. FinalPos /\ \A j \in k .. FinalPos - 1 : Program[j] = "cancel"

(* Which steps belong to which barriers.                                   *)
Fits(p, c) ==
  /\ c = "end" => p = FinalPos
  /\ c \in {"cancel", "cpost", "csem2"} => CancelAhead(p) /\ team_cancelled
  /\ c \in {"open", "look"} => p <= LastPos /\ Program[p] # "plain"
  /\ c = "done" <=> p = LastPos + 1

(* mutex1 is free: all threads that are in the barrier wait in it, and     *)
(* nobody has left barrier m, or is at the end of a region that was        *)
(* cancelled before m.                                                     *)
Gathered(t, m) ==
  \/ pos[t] = m /\ pc[t] \in {"body", "end", "cancel", "sem1", "done"}
  \/ /\ pos[t] = FinalPos /\ m < FinalPos /\ generation.cancelled
     /\ pc[t] \in {"end", "sem1"}

CancelGathered(m) ==
  /\ generation.cancelled =>
       /\ m \in 2 .. FinalPos /\ team_cancelled /\ ~cancellable
       /\ m < FinalPos => /\ Program[m] = "cancel"
                          /\ \A t \in Threads : pos[t] = m => pc[t] # "sem1"
  /\ cancellable => m \in 2 .. FinalPos - 1 /\ Program[m] = "cancel"
  /\ m \in 2 .. FinalPos - 1 /\ Program[m] = "cancel" =>
       \A t \in Threads : pos[t] = m /\ pc[t] = "sem1" => cancellable

Gathering(m) ==
  /\ mutex1 = "free" /\ sem1 = 0 /\ sem2 = 0
  /\ \A t \in Threads : Gathered(t, m)
  /\ \A t \in Threads : pc[t] = "sem1" => state[t] = generation.phase
  /\ CancelGathered(m)

(* The last thread, h, lets the others leave barrier m. *)
Left(t, m) == pos[t] = m + 1 /\ pc[t] \in {"body", "cancel", "done"}
Opened(t, h, m) ==
  \/ Left(t, m) /\ pc[h] # "open"
  \/ /\ pos[t] = m /\ pc[t] \in {"sem1", "look", "leave", "post2"}
     /\ IF pc[h] = "open" THEN pc[t] = "sem1" /\ state[t] = generation.phase
        ELSE Program[m] # "plain" => generation.phase = (state[t] + 1) % Wrap

Opening(h, m) ==
  /\ mutex1 = h /\ pc[h] \in {"open", "post", "sem2"} /\ pos[h] = m
  /\ ~cancellable
  /\ IF pc[h] = "open" THEN /\ sem1 = 0 /\ state[h] = generation.phase
                            /\ generation.cancelled => m = FinalPos
                       ELSE ~generation.cancelled
  /\ \A t \in Threads \ {h} : Opened(t, h, m)

(* h has cancelled the region and lets those go who wait in barrier m. *)
Cancelling(h, m) ==
  /\ mutex1 = h /\ pc[h] \in {"cpost", "csem2"} /\ pos[h] = m /\ m < FinalPos
  /\ generation.cancelled
  /\ \A t \in Threads \ {h} :
       \/ pos[t] = m /\ pc[t] \in {"body", "cancel", "sem1", "look", "cleave", "cpost2"}
       \/ pos[t] = FinalPos /\ pc[t] = "end"

(* h still posts sem1 for n[h] of those who wait, and the last of them to  *)
(* leave posts sem2.                                                       *)
PostsFit(h) ==
  /\ n[h] + sem1 = Cardinality(Waiting)
  /\ IF pc[h] \in {"sem2", "csem2"} THEN n[h] = 0 ELSE n[h] > 0
  /\ IF arrived > 0 THEN sem2 = 0 /\ Lasts = {}
                    ELSE \/ sem2 = 1 /\ Lasts = {}
                         \/ sem2 = 0 /\ \E d \in Threads : Lasts = {d}

Shared ==
  /\ TypeOK
  /\ \A t \in Threads : Fits(pos[t], pc[t])
  /\ arrived = Cardinality(Inside)
  /\ freed => \A t \in Threads : pc[t] = "done"

Held(h, m) == PostsFit(h) /\ (Opening(h, m) \/ Cancelling(h, m))
Stage(m)   == Gathering(m) \/ \E h \in Threads : Held(h, m)

IInv == Shared /\ \E m \in 1 .. LastPos + 1 : Stage(m)

Assumptions == TeamAssumption /\ RegionAssumption /\ WrapAssumption

-----------------------------------------------------------------------------

LEMMA Barriers ==
  ASSUME RegionAssumption, region \in Regions
  PROVE  /\ FinalPos \in Nat /\ FinalPos >= 2 /\ LastPos = FinalPos + 1
         /\ Program[1] = "plain" /\ Program[FinalPos] = "wait" /\ Program[LastPos] = "plain"
         /\ \A k \in 2 .. FinalPos - 1 : Program[k] \in {"wait", "cancel"}
         /\ \A k : CancelAhead(k) /\ k < FinalPos => Program[k] = "cancel"
<1>1. region.barriers \in Seq({"wait", "cancel"}) /\ Len(region.barriers) \in Nat
  BY DEF RegionAssumption
<1>2. FinalPos \in Nat /\ FinalPos >= 2 /\ LastPos = FinalPos + 1
  BY <1>1 DEF FinalPos, LastPos
<1>3. /\ Program[1] = "plain" /\ Program[FinalPos] = "wait" /\ Program[LastPos] = "plain"
      /\ \A k \in 2 .. FinalPos - 1 : Program[k] = region.barriers[k - 1]
  BY <1>1 DEF Program, FinalPos, LastPos
<1>4. \A k \in 2 .. FinalPos - 1 : region.barriers[k - 1] \in {"wait", "cancel"}
  BY <1>1 DEF FinalPos
<1>5. ASSUME NEW k, CancelAhead(k), k < FinalPos
      PROVE  Program[k] = "cancel"
  BY <1>2, <1>5 DEF CancelAhead
<1> QED
  BY <1>2, <1>3, <1>4, <1>5

LEMMA RegionKept ==
  ASSUME UNCHANGED region
  PROVE  /\ Program' = Program /\ FinalPos' = FinalPos /\ LastPos' = LastPos
         /\ \A k : CancelAhead(k)' = CancelAhead(k)
<1>1. Program' = Program /\ FinalPos' = FinalPos /\ LastPos' = LastPos
  BY DEF Program, FinalPos, LastPos
<1> QED
  BY <1>1 DEF CancelAhead

(* t goes to place c of the barrier at p.                                  *)
Moves(t, p, c) == pos' = [pos EXCEPT ![t] = p] /\ pc' = [pc EXCEPT ![t] = c]

LEMMA SetsMove ==
  ASSUME TypeOK, NEW t \in Threads, NEW p, NEW c, Moves(t, p, c)
  PROVE  /\ Waiting' = IF c = "sem1" THEN Waiting \cup {t} ELSE Waiting \ {t}
         /\ Inside' = IF c \in Counted THEN Inside \cup {t} ELSE Inside \ {t}
         /\ Lasts' = IF c \in {"post2", "cpost2"} THEN Lasts \cup {t} ELSE Lasts \ {t}
         /\ pos'[t] = p /\ pc'[t] = c
         /\ \A u \in Threads \ {t} : pos'[u] = pos[u] /\ pc'[u] = pc[u]
<1>1. /\ pos'[t] = p /\ pc'[t] = c
      /\ \A u \in Threads \ {t} : pos'[u] = pos[u] /\ pc'[u] = pc[u]
  BY DEF Moves, TypeOK
<1>2. Waiting' = IF c = "sem1" THEN Waiting \cup {t} ELSE Waiting \ {t}
  BY <1>1 DEF Waiting
<1>3. Inside' = IF c \in Counted THEN Inside \cup {t} ELSE Inside \ {t}
  BY <1>1 DEF Inside
<1>4. Lasts' = IF c \in {"post2", "cpost2"} THEN Lasts \cup {t} ELSE Lasts \ {t}
  BY <1>1 DEF Lasts
<1> QED
  BY <1>1, <1>2, <1>3, <1>4

LEMMA Sizes ==
  ASSUME TeamAssumption, NEW S \in SUBSET Threads
  PROVE  /\ Cardinality(S) \in Nat
         /\ \A t \in S : Cardinality(S \ {t}) = Cardinality(S) - 1
         /\ \A t \in Threads \ S : Cardinality(S \cup {t}) = Cardinality(S) + 1
         /\ Cardinality(S) = 0 <=> S = {}
         /\ Cardinality(S) = 1 => \A t \in S : S = {t}
         /\ total \in Nat
         /\ \A t \in Threads \ S : Cardinality(S) = total - 1 => S = Threads \ {t}
<1>1. IsFiniteSet(S) /\ IsFiniteSet(Threads)
  BY FS_Subset DEF TeamAssumption
<1>2. Cardinality(S) \in Nat /\ total \in Nat /\ (Cardinality(S) = 0 <=> S = {})
  BY <1>1, FS_CardinalityType, FS_EmptySet DEF total
<1>3. \A t \in S : Cardinality(S \ {t}) = Cardinality(S) - 1 /\ IsFiniteSet(S \ {t})
  BY <1>1, FS_RemoveElement
<1>4. \A t \in Threads \ S : Cardinality(S \cup {t}) = Cardinality(S) + 1
  BY <1>1, FS_AddElement
<1>5. ASSUME Cardinality(S) = 1, NEW t \in S
      PROVE  S = {t}
  <2>1. Cardinality(S \ {t}) = 0 /\ IsFiniteSet(S \ {t})
    BY <1>3, <1>5
  <2>2. S \ {t} = {}
    BY <2>1, FS_EmptySet
  <2> QED
    BY <2>2
<1>6. ASSUME NEW t \in Threads \ S, Cardinality(S) = total - 1
      PROVE  S = Threads \ {t}
  <2>1. Cardinality(Threads \ {t}) = total - 1 /\ IsFiniteSet(Threads \ {t})
    BY <1>1, <1>6, FS_RemoveElement DEF total
  <2>2. S \subseteq Threads \ {t}
    BY <1>6
  <2> QED
    BY <1>6, <2>1, <2>2, FS_Subset
<1> QED
  BY <1>2, <1>3, <1>4, <1>5, <1>6

LEMMA InsideSizes ==
  ASSUME Assumptions, Shared
  PROVE  /\ Cardinality(Waiting) \in Nat /\ Cardinality(Inside) \in Nat
         /\ \A t \in Waiting : Cardinality(Waiting \ {t}) = Cardinality(Waiting) - 1
         /\ \A t \in Threads \ Waiting : Cardinality(Waiting \cup {t}) = Cardinality(Waiting) + 1
         /\ Cardinality(Waiting) = 0 => Waiting = {}
         /\ arrived \in Nat /\ (arrived = 0 <=> Inside = {})
         /\ arrived = 1 => \A t \in Inside : Inside = {t}
         /\ \A t \in Threads \ Inside : arrived = total - 1 => Inside = Threads \ {t}
         /\ total \in Nat /\ total > 1
<1>1. Waiting \in SUBSET Threads /\ Inside \in SUBSET Threads
  BY DEF Waiting, Inside
<1> QED
  BY <1>1, Sizes DEF Assumptions, Shared, TeamAssumption, total

(* What remains to be shown of a step of a thread: the rest of the types,  *)
(* and the stage.                                                          *)
RestTyped ==
  /\ generation' \in Generations
  /\ sem1' \in Int /\ sem2' \in Int
  /\ cancellable' \in BOOLEAN /\ team_cancelled' \in BOOLEAN
  /\ mutex1' \in Threads \cup {"free"}
  /\ state' \in [Threads -> Phases]
  /\ n' \in [Threads -> Int]

LEMMA StepShared ==
  ASSUME Assumptions, Shared, NEW t \in Threads, pc[t] # "done",
         NEW p \in 1 .. LastPos + 1, NEW c \in Places, Moves(t, p, c),
         UNCHANGED <<region, freed>>, team_cancelled => team_cancelled', RestTyped,
         Fits(p, c)',
         arrived' = arrived + (IF c \in Counted THEN 1 ELSE 0) - (IF pc[t] \in Counted THEN 1 ELSE 0)
  PROVE  Shared'
<1>1. FinalPos' = FinalPos /\ LastPos' = LastPos /\ Program' = Program /\ \A k : CancelAhead(k)' = CancelAhead(k)
  BY RegionKept
<1>2. /\ Inside' = IF c \in Counted THEN Inside \cup {t} ELSE Inside \ {t}
      /\ pos'[t] = p /\ pc'[t] = c
      /\ \A u \in Threads \ {t} : pos'[u] = pos[u] /\ pc'[u] = pc[u]
  BY SetsMove DEF Shared
<1>3. arrived' = Cardinality(Inside)'
  <2>1. Inside \in SUBSET Threads /\ (t \in Inside <=> pc[t] \in Counted)
    BY DEF Inside
  <2>2. Cardinality(Inside)' = Cardinality(Inside')
    OBVIOUS
  <2>3. (t \in Inside => Inside \cup {t} = Inside) /\ (t \notin Inside => Inside \ {t} = Inside)
    BY <2>1
  <2>4. arrived = Cardinality(Inside) /\ arrived \in Nat
    BY <2>1, Sizes DEF Shared, Assumptions
  <2>5. /\ t \in Inside => Cardinality(Inside \ {t}) = arrived - 1
        /\ t \notin Inside => Cardinality(Inside \cup {t}) = arrived + 1
    BY <2>1, <2>4, Sizes DEF Assumptions
  <2>6. arrived' = IF c \in Counted THEN (IF t \in Inside THEN arrived ELSE arrived + 1)
                                    ELSE (IF t \in Inside THEN arrived - 1 ELSE arrived)
    BY <2>1, <2>4
  <2>7. Cardinality(Inside') = IF c \in Counted THEN (IF t \in Inside THEN arrived ELSE arrived + 1)
                                                ELSE (IF t \in Inside THEN arrived - 1 ELSE arrived)
    <3>1. CASE c \in Counted
      BY <1>2, <2>3, <2>4, <2>5, <3>1
    <3>2. CASE c \notin Counted
      BY <1>2, <2>3, <2>4, <2>5, <3>2
    <3> QED
      BY <3>1, <3>2
  <2> QED
    BY <2>2, <2>6, <2>7
<1>4. TypeOK'
  <2>1. arrived' \in Int
    BY DEF Shared, TypeOK
  <2>2. pos' \in [Threads -> 1 .. LastPos + 1] /\ pc' \in [Threads -> Places]
    BY DEF Shared, TypeOK, Moves
  <2> QED
    BY <1>1, <2>1, <2>2 DEF Shared, TypeOK, RestTyped
<1>5. ASSUME NEW u \in Threads PROVE Fits(pos[u], pc[u])'
  <2>1. CASE u # t
    BY <1>1, <1>2, <2>1 DEF Shared, Fits
  <2>2. CASE u = t
    BY <1>1, <1>2, <2>2 DEF Fits
  <2> QED
    BY <2>1, <2>2
<1>6. ~freed /\ ~freed'
  BY DEF Shared
<1> QED
  BY <1>3, <1>4, <1>5, <1>6 DEF Shared

(* Where the threads are in each stage.                                    *)
LEMMA StagePlaces ==
  ASSUME TeamAssumption, NEW m
  PROVE  /\ Gathering(m) => /\ mutex1 = "free"
                            /\ \A t \in Threads : pc[t] \in {"body", "end", "cancel", "sem1", "done"}
         /\ \A h \in Threads : Held(h, m) =>
              /\ mutex1 = h /\ mutex1 # "free" /\ PostsFit(h)
              /\ \A t \in Threads : pc[t] \in Posting => t = h
<1>1. ASSUME Gathering(m)
      PROVE  /\ mutex1 = "free"
             /\ \A t \in Threads : pc[t] \in {"body", "end", "cancel", "sem1", "done"}
  BY <1>1 DEF Gathering, Gathered
<1>2. ASSUME NEW h \in Threads, Held(h, m)
      PROVE  /\ mutex1 = h /\ mutex1 # "free" /\ PostsFit(h)
             /\ \A t \in Threads : pc[t] \in Posting => t = h
  BY <1>2 DEF Held, Opening, Cancelling, Opened, Left, Posting, TeamAssumption
<1> QED
  BY <1>1, <1>2

-----------------------------------------------------------------------------
(* Those who leave. *)

(* A step of a thread other than the one that holds mutex1.                *)
LEMMA HeldKept ==
  ASSUME Assumptions, Shared, NEW m, NEW h \in Threads, NEW t \in Threads, t # h,
         NEW p, NEW c, Moves(t, p, c), Held(h, m), PostsFit(h)',
         UNCHANGED <<region, generation, mutex1, cancellable, state>>,
         Opening(h, m) => /\ pc[h] # "open" \/ sem1' = 0
                          /\ Opened(t, h, m)',
         Cancelling(h, m) =>
           \/ p = m /\ c \in {"body", "cancel", "sem1", "look", "cleave", "cpost2"}
           \/ p = FinalPos /\ c = "end"
  PROVE  Held(h, m)'
<1>1. /\ pos'[t] = p /\ pc'[t] = c
      /\ \A u \in Threads \ {t} : pos'[u] = pos[u] /\ pc'[u] = pc[u]
  BY SetsMove DEF Shared
<1>2. FinalPos' = FinalPos /\ Program' = Program
  BY RegionKept
<1>3. ASSUME Opening(h, m)
      PROVE  Opening(h, m)'
  <2>1. ASSUME NEW u \in Threads \ {h} PROVE Opened(u, h, m)'
    <3>1. CASE u = t
      BY <1>3, <3>1
    <3>2. CASE u # t
      <4>1. Opened(u, h, m) /\ pos'[u] = pos[u] /\ pc'[u] = pc[u] /\ pc'[h] = pc[h]
        BY <1>1, <1>3, <3>2 DEF Opening
      <4> QED
        BY <1>2, <4>1 DEF Opened, Left
    <3> QED
      BY <3>1, <3>2
  <2>2. pc'[h] = pc[h] /\ pos'[h] = pos[h]
    BY <1>1
  <2> QED
    BY <1>2, <1>3, <2>1, <2>2 DEF Opening
<1>4. ASSUME Cancelling(h, m)
      PROVE  Cancelling(h, m)'
  BY <1>1, <1>2, <1>4 DEF Cancelling
<1> QED
  BY <1>3, <1>4 DEF Held

LEMMA Sem1Step ==
  ASSUME Assumptions, IInv, NEW t \in Threads, Sem1(t)
  PROVE  IInv'
<1>1. Shared /\ TypeOK /\ Fits(pos[t], pc[t])
  BY DEF IInv, Shared
<1>2. PICK m \in 1 .. LastPos + 1 : Stage(m)
  BY DEF IInv
<1>3. /\ pc[t] = "sem1" /\ sem1 > 0 /\ sem1' = sem1 - 1
      /\ UNCHANGED <<region, freed, team_cancelled, generation, arrived, cancellable, sem2, mutex1, state, n>>
  BY DEF Sem1, team
<1>4. LastPos \in Nat /\ pos[t] \in 1 .. LastPos /\ Kind(t) = Program[pos[t]]
  BY <1>1, <1>3, Barriers DEF TypeOK, Fits, Assumptions, Kind
<1>5. PICK p \in 1 .. LastPos + 1, c \in {"leave", "look"} :
        p = pos[t] /\ Moves(t, p, c) /\ (c = "look" <=> Program[p] # "plain")
  <2>1. pc' = [pc EXCEPT ![t] = IF Program[pos[t]] = "plain" THEN "leave" ELSE "look"] /\ pos' = pos
    BY <1>4 DEF Sem1, Goto
  <2> QED
    BY <1>1, <1>4, <2>1 DEF Moves, TypeOK
<1>6. p \in 1 .. LastPos
  BY <1>4, <1>5
<1>7. Shared'
  <2>1. RestTyped
    BY <1>1, <1>3 DEF RestTyped, TypeOK
  <2>2. Fits(p, c)'
    BY <1>3, <1>4, <1>5, <1>6, RegionKept DEF Fits
  <2>3. c \in Places /\ c \in Counted /\ pc[t] \in Counted
    BY <1>3, <1>5 DEF Places, Counted
  <2>4. arrived' = arrived + (IF c \in Counted THEN 1 ELSE 0) - (IF pc[t] \in Counted THEN 1 ELSE 0)
    BY <1>1, <1>3, <2>3 DEF TypeOK
  <2> QED
    BY <1>1, <1>3, <1>5, <2>1, <2>2, <2>3, <2>4, StepShared
<1>8. PICK h \in Threads : Held(h, m)
  BY <1>2, <1>3 DEF Stage, Gathering
<1>9. t # h /\ pc'[h] = pc[h] /\ pos'[t] = pos[t] /\ pc'[t] = c
      /\ (pc[h] = "open" => sem1 = 0)
  BY <1>1, <1>3, <1>5, <1>8, SetsMove DEF Held, Opening, Cancelling
<1>10. PostsFit(h)'
  <2>1. Waiting' = Waiting \ {t} /\ Lasts' = Lasts /\ t \in Waiting
    BY <1>1, <1>3, <1>5, <1>6, SetsMove DEF Waiting, Lasts
  <2>2. Cardinality(Waiting') = Cardinality(Waiting) - 1 /\ Cardinality(Waiting) \in Nat
    BY <1>1, <2>1, InsideSizes
  <2>3. PostsFit(h) /\ n[h] \in Int /\ sem1 \in Int
    BY <1>1, <1>8 DEF Held, TypeOK
  <2> QED
    BY <1>3, <1>9, <2>1, <2>2, <2>3 DEF PostsFit
<1>11. Held(h, m)'
  <2>1. ASSUME Opening(h, m)
        PROVE  pc[h] # "open" /\ Opened(t, h, m)'
    <3>1. Opened(t, h, m) /\ pc[h] # "open" /\ pos[t] = m
      BY <1>3, <1>9, <2>1 DEF Opening, Opened, Left
    <3> QED
      BY <1>3, <1>5, <1>9, <3>1, RegionKept DEF Opened, Left
  <2>2. ASSUME Cancelling(h, m)
        PROVE  p = m /\ c = "look"
    <3>1. pos[t] = m /\ m < FinalPos /\ Fits(m, pc[h]) /\ pc[h] \in {"cpost", "csem2"}
      BY <1>1, <1>3, <1>9, <2>2 DEF Cancelling, Shared
    <3>2. Program[m] = "cancel"
      BY <1>1, <3>1, Barriers DEF Fits, TypeOK, Assumptions
    <3> QED
      BY <1>5, <3>1, <3>2
  <2> QED
    BY <1>1, <1>3, <1>5, <1>8, <1>9, <1>10, <2>1, <2>2, HeldKept
<1>12. LastPos' = LastPos
  BY <1>3, RegionKept
<1> QED
  BY <1>7, <1>11, <1>12 DEF IInv, Stage

LEMMA LookStep ==
  ASSUME Assumptions, IInv, NEW t \in Threads, Look(t)
  PROVE  IInv'
<1>1. Shared /\ TypeOK /\ Fits(pos[t], pc[t])
  BY DEF IInv, Shared
<1>2. PICK m \in 1 .. LastPos + 1 : Stage(m)
  BY DEF IInv
<1>3. /\ pc[t] = "look"
      /\ UNCHANGED <<region, freed, team_cancelled, generation, arrived, cancellable, sem1, sem2, mutex1, state, n>>
  BY DEF Look, team, bar
<1>4. PICK h \in Threads : Held(h, m)
  BY <1>2, <1>3, StagePlaces DEF Stage, Assumptions
<1>5. t # h
  BY <1>3, <1>4 DEF Held, Opening, Cancelling
<1>6. LastPos \in Nat /\ pos[t] \in 1 .. LastPos /\ Program[pos[t]] # "plain" /\ Kind(t) = Program[pos[t]]
  BY <1>1, <1>3, Barriers DEF TypeOK, Fits, Assumptions, Kind
<1>7. PICK p \in 1 .. LastPos, c \in {"leave", "cleave"} :
        /\ p = pos[t] /\ Moves(t, p, c)
        /\ Opening(h, m) => c = "leave"
        /\ Cancelling(h, m) => c = "cleave"
  <2>1. CASE Opening(h, m)
    <3>1. /\ pos[t] = m /\ ~generation.cancelled /\ generation.phase = (state[t] + 1) % Wrap
      BY <1>3, <1>5, <1>6, <2>1 DEF Opening, Opened, Left
    <3>2. generation = Following(state[t])
      BY <1>1, <3>1 DEF Following, TypeOK, Generations
    <3>3. Moves(t, pos[t], "leave")
      BY <1>1, <3>1, <3>2 DEF Look, Goto, Moves, TypeOK
    <3>4. ~Cancelling(h, m)
      BY <2>1 DEF Opening, Cancelling
    <3> QED
      BY <1>6, <3>3, <3>4
  <2>2. CASE Cancelling(h, m)
    <3>1. pos[t] = m /\ m < FinalPos /\ Fits(m, pc[h]) /\ pc[h] \in {"cpost", "csem2"} /\ generation.cancelled
      BY <1>1, <1>3, <1>5, <2>2 DEF Cancelling, Shared
    <3>2. Program[m] = "cancel"
      BY <1>1, <3>1, Barriers DEF Fits, TypeOK, Assumptions
    <3>3. Moves(t, pos[t], "cleave")
      BY <1>1, <1>6, <3>1, <3>2 DEF Look, Goto, Moves, TypeOK
    <3>4. ~Opening(h, m)
      BY <2>2 DEF Opening, Cancelling
    <3> QED
      BY <1>6, <3>3, <3>4
  <2> QED
    BY <1>4, <2>1, <2>2 DEF Held
<1>8. Shared'
  <2>1. RestTyped
    BY <1>1, <1>3 DEF RestTyped, TypeOK
  <2>2. Fits(p, c)'
    BY <1>3, <1>6, <1>7, RegionKept DEF Fits
  <2>3. p \in 1 .. LastPos + 1 /\ c \in Places /\ c \in Counted /\ pc[t] \in Counted
    BY <1>3, <1>6, <1>7 DEF Places, Counted
  <2>4. arrived' = arrived + (IF c \in Counted THEN 1 ELSE 0) - (IF pc[t] \in Counted THEN 1 ELSE 0)
    BY <1>1, <1>3, <2>3 DEF TypeOK
  <2> QED
    BY <1>1, <1>3, <1>7, <2>1, <2>2, <2>3, <2>4, StepShared
<1>9. pc'[h] = pc[h] /\ pos'[t] = pos[t] /\ pc'[t] = c
  BY <1>1, <1>5, <1>7, SetsMove
<1>10. PostsFit(h)'
  <2>1. Waiting' = Waiting /\ Lasts' = Lasts
    BY <1>1, <1>3, <1>7, SetsMove DEF Waiting, Lasts
  <2> QED
    BY <1>3, <1>4, <1>9, <2>1 DEF PostsFit, Held
<1>11. Held(h, m)'
  <2>1. ASSUME Opening(h, m)
        PROVE  pc[h] # "open" /\ Opened(t, h, m)'
    <3>1. Opened(t, h, m) /\ pc[h] # "open" /\ pos[t] = m
      BY <1>3, <1>5, <2>1 DEF Opening, Opened, Left
    <3> QED
      BY <1>3, <1>7, <1>9, <2>1, <3>1, RegionKept DEF Opened, Left
  <2>2. ASSUME Cancelling(h, m)
        PROVE  p = m /\ c = "cleave"
    BY <1>3, <1>5, <1>7, <2>2 DEF Cancelling
  <2> QED
    BY <1>1, <1>3, <1>4, <1>5, <1>7, <1>10, <2>1, <2>2, HeldKept
<1>12. LastPos' = LastPos
  BY <1>3, RegionKept
<1> QED
  BY <1>8, <1>11, <1>12 DEF IInv, Stage

(* Where the threads that leave go.                                        *)
LEMMA LeavingFits ==
  ASSUME Assumptions, Shared, NEW m, NEW h \in Threads, Held(h, m),
         NEW t \in Threads \ {h}, pc[t] \in {"leave", "cleave", "post2", "cpost2"}
  PROVE  /\ pos[t] = m /\ m \in 1 .. LastPos /\ LastPos \in Nat /\ FinalPos \in 1 .. LastPos
         /\ FinalPos < LastPos
         /\ Opening(h, m) => pc[t] \in {"leave", "post2"} /\ pc[h] # "open" /\ ~Cancelling(h, m)
         /\ Cancelling(h, m) => pc[t] \in {"cleave", "cpost2"}
<1>1. LastPos \in Nat /\ FinalPos \in 1 .. LastPos /\ FinalPos < LastPos /\ pos[t] \in 1 .. LastPos
  BY Barriers DEF Shared, TypeOK, Fits, Assumptions
<1> QED
  BY <1>1 DEF Held, Opening, Cancelling, Opened, Left

LEMMA TakeOffStep ==
  ASSUME Assumptions, IInv, NEW t \in Threads, TakeOff(t)
  PROVE  IInv'
<1>1. Shared /\ TypeOK
  BY DEF IInv, Shared
<1>2. PICK m \in 1 .. LastPos + 1 : Stage(m)
  BY DEF IInv
<1>3. /\ pc[t] \in {"leave", "cleave"} /\ arrived' = arrived - 1
      /\ UNCHANGED <<region, freed, team_cancelled, generation, cancellable, sem1, sem2, mutex1, state, n>>
  BY DEF TakeOff, team
<1>4. PICK h \in Threads : Held(h, m)
  BY <1>2, <1>3, StagePlaces DEF Stage, Assumptions
<1>5. t # h
  BY <1>3, <1>4 DEF Held, Opening, Cancelling
<1>6. /\ pos[t] = m /\ m \in 1 .. LastPos /\ LastPos \in Nat /\ FinalPos \in 1 .. LastPos
      /\ FinalPos < LastPos
      /\ Opening(h, m) => pc[t] = "leave" /\ pc[h] # "open" /\ ~Cancelling(h, m)
      /\ Cancelling(h, m) => pc[t] = "cleave" /\ m < FinalPos
  BY <1>1, <1>3, <1>4, <1>5, LeavingFits DEF Cancelling
<1>7. PICK p \in 1 .. LastPos + 1, c \in {"post2", "cpost2", "done", "body", "end"} :
        /\ Moves(t, p, c)
        /\ arrived = 1 <=> c \in {"post2", "cpost2"}
        /\ Opening(h, m) => \/ p = m /\ c = "post2"
                            \/ p = m + 1 /\ c = IF m = LastPos THEN "done" ELSE "body"
        /\ Cancelling(h, m) => \/ p = m /\ c = "cpost2"
                               \/ p = FinalPos /\ c = "end"
  <2>1. CASE arrived = 1 /\ pc[t] = "leave"
    <3>1. Moves(t, m, "post2")
      BY <1>1, <1>6, <2>1 DEF TakeOff, Goto, Moves, TypeOK
    <3> QED
      BY <1>4, <1>6, <2>1, <3>1 DEF Held
  <2>2. CASE arrived = 1 /\ pc[t] = "cleave"
    <3>1. Moves(t, m, "cpost2")
      BY <1>1, <1>6, <2>2 DEF TakeOff, Goto, Moves, TypeOK
    <3> QED
      BY <1>4, <1>6, <2>2, <3>1 DEF Held
  <2>3. CASE arrived # 1 /\ pc[t] = "leave"
    <3>1. Moves(t, m + 1, IF m = LastPos THEN "done" ELSE "body")
      BY <1>1, <1>6, <2>3 DEF TakeOff, Leave, Goto, Moves, TypeOK
    <3> QED
      BY <1>4, <1>6, <2>3, <3>1 DEF Held
  <2>4. CASE arrived # 1 /\ pc[t] = "cleave"
    <3>1. Moves(t, FinalPos, "end")
      BY <1>1, <1>6, <2>4 DEF TakeOff, SkipToEnd, Goto, Moves, TypeOK
    <3> QED
      BY <1>4, <1>6, <2>4, <3>1 DEF Held
  <2> QED
    BY <1>3, <2>1, <2>2, <2>3, <2>4
<1>8. Shared'
  <2>1. RestTyped
    BY <1>1, <1>3 DEF RestTyped, TypeOK
  <2>2. Fits(p, c)'
    BY <1>3, <1>4, <1>6, <1>7, RegionKept DEF Fits, Held
  <2>3. c \in Places /\ c \notin Counted /\ pc[t] \in Counted
    BY <1>3, <1>7 DEF Places, Counted
  <2>4. arrived' = arrived + (IF c \in Counted THEN 1 ELSE 0) - (IF pc[t] \in Counted THEN 1 ELSE 0)
    BY <1>1, <1>3, <2>3 DEF TypeOK
  <2> QED
    BY <1>1, <1>3, <1>7, <2>1, <2>2, <2>3, <2>4, StepShared
<1>9. pc'[h] = pc[h] /\ pos'[t] = p /\ pc'[t] = c
  BY <1>1, <1>5, <1>7, SetsMove
<1>10. PostsFit(h)'
  <2>1. PostsFit(h) /\ arrived \in Nat /\ t \in Inside /\ arrived > 0
    BY <1>1, <1>3, <1>4, InsideSizes DEF Held, Inside, Counted
  <2>2. Waiting' = Waiting
    BY <1>1, <1>3, <1>7, SetsMove DEF Waiting
  <2>3. Lasts' = IF c \in {"post2", "cpost2"} THEN {t} ELSE {}
    BY <1>1, <1>7, <2>1, SetsMove DEF PostsFit
  <2>4. arrived' = 0 <=> c \in {"post2", "cpost2"}
    BY <1>3, <1>7, <2>1
  <2>5. IF arrived' > 0 THEN sem2' = 0 /\ Lasts' = {}
                        ELSE sem2' = 0 /\ \E d \in Threads : Lasts' = {d}
    BY <1>3, <2>1, <2>3, <2>4 DEF PostsFit
  <2> QED
    BY <1>3, <1>9, <2>1, <2>2, <2>5 DEF PostsFit
<1>11. Held(h, m)'
  <2>1. ASSUME Opening(h, m)
        PROVE  pc[h] # "open" /\ Opened(t, h, m)'
    <3>1. Opened(t, h, m) /\ pc[h] # "open"
      BY <1>5, <1>6, <2>1 DEF Opening
    <3> QED
      BY <1>3, <1>6, <1>7, <1>9, <2>1, <3>1, RegionKept DEF Opened, Left
  <2>2. ASSUME Cancelling(h, m)
        PROVE  (p = m /\ c = "cpost2") \/ (p = FinalPos /\ c = "end")
    BY <1>7, <2>2
  <2> QED
    BY <1>1, <1>3, <1>4, <1>5, <1>7, <1>10, <2>1, <2>2, HeldKept
<1>12. LastPos' = LastPos
  BY <1>3, RegionKept
<1> QED
  BY <1>8, <1>11, <1>12 DEF IInv, Stage

LEMMA Post2Step ==
  ASSUME Assumptions, IInv, NEW t \in Threads, Post2(t)
  PROVE  IInv'
<1>1. Shared /\ TypeOK
  BY DEF IInv, Shared
<1>2. PICK m \in 1 .. LastPos + 1 : Stage(m)
  BY DEF IInv
<1>3. /\ pc[t] \in {"post2", "cpost2"} /\ sem2' = sem2 + 1
      /\ UNCHANGED <<region, freed, team_cancelled, generation, arrived, cancellable, sem1, mutex1, state, n>>
  BY DEF Post2, team
<1>4. PICK h \in Threads : Held(h, m)
  BY <1>2, <1>3, StagePlaces DEF Stage, Assumptions
<1>5. t # h
  BY <1>3, <1>4 DEF Held, Opening, Cancelling
<1>6. /\ pos[t] = m /\ m \in 1 .. LastPos /\ LastPos \in Nat /\ FinalPos \in 1 .. LastPos
      /\ FinalPos < LastPos
      /\ Opening(h, m) => pc[t] = "post2" /\ pc[h] # "open" /\ ~Cancelling(h, m)
      /\ Cancelling(h, m) => pc[t] = "cpost2" /\ m < FinalPos
  BY <1>1, <1>3, <1>4, <1>5, LeavingFits DEF Cancelling
<1>7. PICK p \in 1 .. LastPos + 1, c \in {"done", "body", "end"} :
        /\ Moves(t, p, c)
        /\ Opening(h, m) => p = m + 1 /\ c = IF m = LastPos THEN "done" ELSE "body"
        /\ Cancelling(h, m) => p = FinalPos /\ c = "end"
  <2>1. CASE pc[t] = "post2"
    <3>1. Moves(t, m + 1, IF m = LastPos THEN "done" ELSE "body")
      BY <1>1, <1>6, <2>1 DEF Post2, Leave, Goto, Moves, TypeOK
    <3> QED
      BY <1>4, <1>6, <2>1, <3>1 DEF Held
  <2>2. CASE pc[t] = "cpost2"
    <3>1. Moves(t, FinalPos, "end")
      BY <1>1, <1>6, <2>2 DEF Post2, SkipToEnd, Goto, Moves, TypeOK
    <3> QED
      BY <1>4, <1>6, <2>2, <3>1 DEF Held
  <2> QED
    BY <1>3, <2>1, <2>2
<1>8. Shared'
  <2>1. RestTyped
    BY <1>1, <1>3 DEF RestTyped, TypeOK
  <2>2. Fits(p, c)'
    BY <1>3, <1>4, <1>6, <1>7, RegionKept DEF Fits, Held
  <2>3. c \in Places /\ c \notin Counted /\ pc[t] \notin Counted
    BY <1>3, <1>7 DEF Places, Counted
  <2>4. arrived' = arrived + (IF c \in Counted THEN 1 ELSE 0) - (IF pc[t] \in Counted THEN 1 ELSE 0)
    BY <1>1, <1>3, <2>3 DEF TypeOK
  <2> QED
    BY <1>1, <1>3, <1>7, <2>1, <2>2, <2>3, <2>4, StepShared
<1>9. pc'[h] = pc[h] /\ pos'[t] = p /\ pc'[t] = c
  BY <1>1, <1>5, <1>7, SetsMove
<1>10. PostsFit(h)'
  <2>1. PostsFit(h) /\ t \in Lasts
    BY <1>3, <1>4 DEF Held, Lasts
  <2>2. Waiting' = Waiting /\ Lasts' = Lasts \ {t}
    BY <1>1, <1>3, <1>7, SetsMove DEF Waiting
  <2>3. arrived = arrived' /\ ~(arrived > 0) /\ sem2 = 0 /\ Lasts' = {}
    BY <1>3, <2>1, <2>2 DEF PostsFit
  <2> QED
    BY <1>3, <1>9, <2>1, <2>2, <2>3 DEF PostsFit
<1>11. Held(h, m)'
  <2>1. ASSUME Opening(h, m)
        PROVE  pc[h] # "open" /\ Opened(t, h, m)'
    BY <1>6, <1>7, <1>9, <2>1 DEF Opened, Left
  <2>2. ASSUME Cancelling(h, m)
        PROVE  p = FinalPos /\ c = "end"
    BY <1>7, <2>2
  <2> QED
    BY <1>1, <1>3, <1>4, <1>5, <1>7, <1>10, <2>1, <2>2, HeldKept
<1>12. LastPos' = LastPos
  BY <1>3, RegionKept
<1> QED
  BY <1>8, <1>11, <1>12 DEF IInv, Stage

-----------------------------------------------------------------------------
(* The one that holds mutex1. *)

LEMMA OpenStep ==
  ASSUME Assumptions, IInv, NEW t \in Threads, Open(t)
  PROVE  IInv'
<1>1. Shared /\ TypeOK /\ Fits(pos[t], pc[t])
  BY DEF IInv, Shared
<1>2. PICK m \in 1 .. LastPos + 1 : Stage(m)
  BY DEF IInv
<1>3. /\ pc[t] = "open" /\ generation' = Following(state[t])
      /\ UNCHANGED <<region, freed, team_cancelled, arrived, cancellable, sem1, sem2, mutex1, state, n>>
  BY DEF Open, team
<1>4. Held(t, m)
  BY <1>2, <1>3, StagePlaces DEF Stage, Assumptions, Posting
<1>5. Opening(t, m) /\ PostsFit(t)
  BY <1>3, <1>4 DEF Held, Cancelling
<1>6. PICK p \in 1 .. LastPos : p = pos[t] /\ Moves(t, p, "post")
  <2>1. pos[t] \in 1 .. LastPos /\ pos' = pos /\ pc' = [pc EXCEPT ![t] = "post"]
    BY <1>1, <1>3, Barriers DEF TypeOK, Fits, Assumptions, Open, Goto
  <2> QED
    BY <1>1, <2>1 DEF Moves, TypeOK
<1>7. Shared'
  <2>1. generation' \in Generations
    <3>1. state[t] \in 0 .. Wrap - 1 /\ Wrap \in Nat /\ Wrap >= 2
      BY <1>1 DEF TypeOK, Phases, Assumptions, WrapAssumption
    <3>2. (state[t] + 1) % Wrap \in 0 .. Wrap - 1
      BY <3>1
    <3> QED
      BY <1>3, <3>2 DEF Following, Generations, Phases
  <2>2. RestTyped
    BY <1>1, <1>3, <2>1 DEF RestTyped, TypeOK
  <2>3. Fits(p, "post")'
    BY <1>3, <1>6, Barriers, RegionKept, <1>1 DEF Fits, Assumptions, TypeOK
  <2>4. "post" \in Places /\ "post" \notin Counted /\ pc[t] \notin Counted /\ p \in 1 .. LastPos + 1
    BY <1>1, <1>3, <1>6, Barriers DEF Places, Counted, Posting, Assumptions, TypeOK
  <2>5. arrived' = arrived + (IF "post" \in Counted THEN 1 ELSE 0) - (IF pc[t] \in Counted THEN 1 ELSE 0)
    BY <1>1, <1>3, <2>4 DEF TypeOK
  <2> QED
    BY <1>1, <1>3, <1>6, <2>2, <2>3, <2>4, <2>5, StepShared
<1>8. /\ pos'[t] = p /\ pc'[t] = "post" /\ Waiting' = Waiting /\ Lasts' = Lasts
      /\ \A u \in Threads \ {t} : pos'[u] = pos[u] /\ pc'[u] = pc[u]
  BY <1>1, <1>3, <1>6, SetsMove DEF Waiting, Lasts
<1>9. PostsFit(t)'
  BY <1>3, <1>5, <1>8 DEF PostsFit
<1>10. Opening(t, m)'
  <2>1. ~generation'.cancelled /\ generation'.phase = (state[t] + 1) % Wrap
    BY <1>3 DEF Following
  <2>2. \A u \in Threads \ {t} : pos[u] = m /\ pc[u] = "sem1" /\ state[u] = state[t]
    BY <1>3, <1>5 DEF Opening, Opened
  <2> QED
    BY <1>3, <1>5, <1>6, <1>8, <2>1, <2>2, RegionKept DEF Opening, Opened, Left
<1> QED
  BY <1>3, <1>7, <1>9, <1>10, RegionKept DEF IInv, Stage, Held

LEMMA PostStep ==
  ASSUME Assumptions, IInv, NEW t \in Threads, Post(t)
  PROVE  IInv'
<1>1. Shared /\ TypeOK /\ Fits(pos[t], pc[t])
  BY DEF IInv, Shared
<1>2. PICK m \in 1 .. LastPos + 1 : Stage(m)
  BY DEF IInv
<1>3. /\ pc[t] \in {"post", "cpost"} /\ sem1' = sem1 + 1 /\ n' = [n EXCEPT ![t] = @ - 1]
      /\ UNCHANGED <<region, freed, team_cancelled, generation, arrived, cancellable, sem2, mutex1, state>>
  BY DEF Post, team
<1>4. Held(t, m)
  BY <1>2, <1>3, StagePlaces DEF Stage, Assumptions, Posting
<1>5. PostsFit(t) /\ n[t] \in Int /\ n[t] > 0 /\ n'[t] = n[t] - 1 /\ n' \in [Threads -> Int]
  BY <1>1, <1>3, <1>4 DEF Held, PostsFit, TypeOK
<1>6. LastPos \in Nat /\ pos[t] \in 1 .. LastPos
  BY <1>1, <1>3, Barriers DEF TypeOK, Fits, Assumptions
<1>7. PICK p \in 1 .. LastPos, c \in {"post", "cpost", "sem2", "csem2"} :
        /\ p = pos[t] /\ Moves(t, p, c)
        /\ c = IF n[t] > 1 THEN pc[t] ELSE IF pc[t] = "post" THEN "sem2" ELSE "csem2"
  <2> DEFINE place == IF n[t] > 1 THEN pc[t] ELSE IF pc[t] = "post" THEN "sem2" ELSE "csem2"
  <2>1. pos' = pos /\ pc' = [pc EXCEPT ![t] = place]
    BY DEF Post, Goto
  <2>2. place \in {"post", "cpost", "sem2", "csem2"}
    BY <1>3
  <2>3. Moves(t, pos[t], place)
    BY <1>1, <2>1 DEF Moves, TypeOK
  <2> QED
    BY <1>6, <2>2, <2>3
<1>8. /\ pc[t] = "post" => c \in {"post", "sem2"}
      /\ pc[t] = "cpost" => c \in {"cpost", "csem2"}
      /\ c \in {"sem2", "csem2"} => n'[t] = 0
      /\ c \in {"post", "cpost"} => n'[t] > 0
  BY <1>3, <1>5, <1>7
<1>9. Shared'
  <2>1. RestTyped
    BY <1>1, <1>3, <1>5 DEF RestTyped, TypeOK
  <2>2. Fits(p, c)'
    BY <1>1, <1>3, <1>6, <1>7, <1>8, RegionKept DEF Fits
  <2>3. c \in Places /\ c \notin Counted /\ pc[t] \notin Counted /\ p \in 1 .. LastPos + 1
    BY <1>3, <1>6, <1>7 DEF Places, Counted, Posting
  <2>4. arrived' = arrived + (IF c \in Counted THEN 1 ELSE 0) - (IF pc[t] \in Counted THEN 1 ELSE 0)
    BY <1>1, <1>3, <2>3 DEF TypeOK
  <2> QED
    BY <1>1, <1>3, <1>7, <2>1, <2>2, <2>3, <2>4, StepShared
<1>10. /\ pos'[t] = p /\ pc'[t] = c /\ Waiting' = Waiting /\ Lasts' = Lasts
       /\ \A u \in Threads \ {t} : pos'[u] = pos[u] /\ pc'[u] = pc[u]
  BY <1>1, <1>3, <1>7, SetsMove DEF Waiting, Lasts
<1>11. PostsFit(t)'
  <2>1. n'[t] + sem1' = Cardinality(Waiting')
    <3>1. n[t] + sem1 = Cardinality(Waiting) /\ sem1 \in Int
      BY <1>1, <1>5 DEF PostsFit, TypeOK
    <3> QED
      BY <1>3, <1>5, <1>10, <3>1
  <2>2. IF pc'[t] \in {"sem2", "csem2"} THEN n'[t] = 0 ELSE n'[t] > 0
    BY <1>7, <1>8, <1>10
  <2> QED
    BY <1>3, <1>5, <1>10, <2>1, <2>2 DEF PostsFit
<1>12. Held(t, m)'
  <2>1. ASSUME Opening(t, m)
        PROVE  Opening(t, m)'
    <3>1. pc[t] = "post" /\ c \in {"post", "sem2"} /\ pos[t] = m
      BY <1>3, <1>8, <2>1 DEF Opening
    <3>2. ASSUME NEW u \in Threads \ {t} PROVE Opened(u, t, m)'
      <4>1. Opened(u, t, m)
        BY <2>1 DEF Opening
      <4> QED
        BY <1>3, <1>10, <3>1, <4>1, RegionKept DEF Opened, Left
    <3> QED
      BY <1>3, <1>7, <1>10, <2>1, <3>1, <3>2, RegionKept DEF Opening
  <2>2. ASSUME Cancelling(t, m)
        PROVE  Cancelling(t, m)'
    BY <1>3, <1>7, <1>8, <1>10, <2>2, RegionKept DEF Cancelling
  <2> QED
    BY <1>4, <1>11, <2>1, <2>2 DEF Held
<1> QED
  BY <1>3, <1>9, <1>12, RegionKept DEF IInv, Stage

(* When the last of the waiters has posted sem2 none is left inside.       *)
LEMMA NobodyInside ==
  ASSUME Assumptions, Shared, NEW m, NEW h \in Threads, Held(h, m),
         pc[h] \in {"sem2", "csem2"}, sem2 > 0
  PROVE  sem1 = 0 /\ sem2 = 1
         /\ \A t \in Threads : pc[t] \notin Counted /\ pc[t] \notin {"post2", "cpost2"}
<1>1. PostsFit(h) /\ TypeOK
  BY DEF Held, Shared
<1>2. arrived \in Nat /\ (arrived = 0 => Inside = {})
  BY InsideSizes
<1>3. arrived = 0 /\ Lasts = {} /\ sem2 = 1
  BY <1>1, <1>2 DEF PostsFit
<1>4. Inside = {}
  BY <1>2, <1>3
<1>5. \A t \in Threads : pc[t] \notin Counted /\ pc[t] \notin {"post2", "cpost2"}
  BY <1>3, <1>4 DEF Inside, Lasts
<1>6. Waiting = {}
  BY <1>5 DEF Waiting, Counted
<1>7. n[h] = 0 /\ n[h] + sem1 = Cardinality(Waiting)
  BY <1>1 DEF PostsFit
<1>8. sem1 = 0
  BY <1>1, <1>6, <1>7, FS_EmptySet DEF TypeOK
<1> QED
  BY <1>3, <1>5, <1>8

LEMMA AllLeftStep ==
  ASSUME Assumptions, IInv, NEW t \in Threads, AllLeft(t)
  PROVE  IInv'
<1>1. Shared /\ TypeOK /\ Fits(pos[t], pc[t])
  BY DEF IInv, Shared
<1>2. PICK m \in 1 .. LastPos + 1 : Stage(m)
  BY DEF IInv
<1>3. /\ pc[t] = "sem2" /\ sem2 > 0 /\ sem2' = sem2 - 1 /\ mutex1' = "free"
      /\ UNCHANGED <<region, freed, team_cancelled, generation, arrived, cancellable, sem1, state, n>>
  BY DEF AllLeft, team
<1>4. Held(t, m)
  BY <1>2, <1>3, StagePlaces DEF Stage, Assumptions, Posting
<1>5. Opening(t, m)
  BY <1>3, <1>4 DEF Held, Cancelling
<1>6. /\ LastPos \in Nat /\ m = pos[t] /\ m \in 1 .. LastPos
      /\ FinalPos \in 2 .. LastPos
  BY <1>1, <1>3, <1>5, Barriers DEF TypeOK, Fits, Assumptions, Opening
<1>7. PICK p \in 2 .. LastPos + 1, c \in {"body", "done"} :
        /\ p = m + 1 /\ Moves(t, p, c)
        /\ c = IF m = LastPos THEN "done" ELSE "body"
  <2>1. Moves(t, m + 1, IF m = LastPos THEN "done" ELSE "body")
    BY <1>1, <1>6 DEF AllLeft, Leave, Goto, Moves, TypeOK
  <2> QED
    BY <1>6, <2>1
<1>8. Shared'
  <2>1. RestTyped
    BY <1>1, <1>3 DEF RestTyped, TypeOK
  <2>2. Fits(p, c)'
    BY <1>3, <1>6, <1>7, RegionKept DEF Fits
  <2>3. c \in Places /\ c \notin Counted /\ pc[t] \notin Counted /\ p \in 1 .. LastPos + 1
    BY <1>3, <1>6, <1>7 DEF Places, Counted, Posting
  <2>4. arrived' = arrived + (IF c \in Counted THEN 1 ELSE 0) - (IF pc[t] \in Counted THEN 1 ELSE 0)
    BY <1>1, <1>3, <2>3 DEF TypeOK
  <2> QED
    BY <1>1, <1>3, <1>7, <2>1, <2>2, <2>3, <2>4, StepShared
<1>9. /\ pos'[t] = p /\ pc'[t] = c
      /\ \A u \in Threads \ {t} : pos'[u] = pos[u] /\ pc'[u] = pc[u]
  BY <1>1, <1>7, SetsMove
<1>10. sem1 = 0 /\ sem2 = 1 /\ \A u \in Threads : pc[u] \notin Counted /\ pc[u] \notin {"post2", "cpost2"}
  BY <1>1, <1>3, <1>4, NobodyInside
<1>11. \A u \in Threads : pos'[u] = p /\ pc'[u] \in {"body", "cancel", "done"}
  <2>1. ASSUME NEW u \in Threads \ {t} PROVE pos'[u] = p /\ pc'[u] \in {"body", "cancel", "done"}
    BY <1>5, <1>7, <1>9, <1>10 DEF Opening, Opened, Left, Counted
  <2> QED
    BY <1>7, <1>9, <2>1
<1>12. Gathering(p)'
  <2>1. ~generation.cancelled /\ ~cancellable
    BY <1>3, <1>5 DEF Opening
  <2>2. CancelGathered(p)'
    BY <1>3, <1>11, <2>1 DEF CancelGathered
  <2>3. \A u \in Threads : Gathered(u, p)'
    BY <1>11 DEF Gathered
  <2> QED
    BY <1>3, <1>10, <1>11, <2>2, <2>3 DEF Gathering
<1>13. p \in 1 .. (LastPos + 1)'
  BY <1>3, <1>6, <1>7, RegionKept
<1> QED
  BY <1>8, <1>12, <1>13 DEF IInv, Stage

LEMMA CancelledLeftStep ==
  ASSUME Assumptions, IInv, NEW t \in Threads, CancelledLeft(t)
  PROVE  IInv'
<1>1. Shared /\ TypeOK /\ Fits(pos[t], pc[t])
  BY DEF IInv, Shared
<1>2. PICK m \in 1 .. LastPos + 1 : Stage(m)
  BY DEF IInv
<1>3. /\ pc[t] = "csem2" /\ sem2 > 0 /\ sem2' = sem2 - 1 /\ mutex1' = "free" /\ cancellable' = FALSE
      /\ UNCHANGED <<region, freed, team_cancelled, generation, arrived, sem1, state, n>>
  BY DEF CancelledLeft, team
<1>4. Held(t, m)
  BY <1>2, <1>3, StagePlaces DEF Stage, Assumptions, Posting
<1>5. Cancelling(t, m)
  BY <1>3, <1>4 DEF Held, Opening
<1>6. /\ LastPos \in Nat /\ m = pos[t] /\ CancelAhead(m) /\ team_cancelled /\ m \in 2 .. FinalPos - 1
      /\ FinalPos \in 2 .. LastPos /\ FinalPos < LastPos /\ Program[m] = "cancel"
  <2>1. CancelAhead(m) /\ team_cancelled /\ m = pos[t] /\ m < FinalPos
    BY <1>1, <1>3, <1>5 DEF Fits, Cancelling
  <2>2. LastPos \in Nat /\ FinalPos \in 2 .. LastPos /\ FinalPos < LastPos /\ Program[m] = "cancel"
    BY <1>1, <2>1, Barriers DEF TypeOK, Assumptions
  <2> QED
    BY <2>1, <2>2 DEF CancelAhead
<1>7. Moves(t, FinalPos, "end")
  BY DEF CancelledLeft, SkipToEnd, Goto, Moves
<1>8. Shared'
  <2>1. RestTyped
    <3>1. cancellable' \in BOOLEAN
      BY <1>3, Zenon
    <3>2. sem2' \in Int /\ mutex1' \in Threads \cup {"free"}
      BY <1>1, <1>3 DEF TypeOK
    <3> QED
      BY <1>1, <1>3, <3>1, <3>2, Zenon DEF RestTyped, TypeOK
  <2>2. PICK p \in 1 .. LastPos + 1 : p = FinalPos
    BY <1>6
  <2>3. Fits(p, "end")'
    BY <1>3, <1>6, <2>2, RegionKept DEF Fits
  <2>4. "end" \in Places /\ "end" \notin Counted /\ pc[t] \notin Counted
    BY <1>3 DEF Places, Counted, Posting
  <2>5. arrived' = arrived + (IF "end" \in Counted THEN 1 ELSE 0) - (IF pc[t] \in Counted THEN 1 ELSE 0)
    BY <1>1, <1>3, <2>4 DEF TypeOK
  <2> QED
    BY <1>1, <1>3, <1>7, <2>1, <2>2, <2>3, <2>4, <2>5, StepShared
<1>9. /\ pos'[t] = FinalPos /\ pc'[t] = "end"
      /\ \A u \in Threads \ {t} : pos'[u] = pos[u] /\ pc'[u] = pc[u]
  BY <1>1, <1>7, SetsMove
<1>10. sem1 = 0 /\ sem2 = 1 /\ \A u \in Threads : pc[u] \notin Counted /\ pc[u] \notin {"post2", "cpost2"}
  BY <1>1, <1>3, <1>4, NobodyInside
<1>11. \A u \in Threads : \/ pos'[u] = m /\ pc'[u] \in {"body", "cancel"}
                          \/ pos'[u] = FinalPos /\ pc'[u] = "end"
  <2>1. ASSUME NEW u \in Threads \ {t}
        PROVE  \/ pos'[u] = m /\ pc'[u] \in {"body", "cancel"}
               \/ pos'[u] = FinalPos /\ pc'[u] = "end"
    BY <1>5, <1>9, <1>10, <2>1 DEF Cancelling, Counted
  <2> QED
    BY <1>9, <2>1
<1>12. generation'.cancelled /\ FinalPos' = FinalPos /\ Program' = Program
  BY <1>3, <1>5, RegionKept DEF Cancelling
<1>13. Gathering(m)'
  <2>1. CancelGathered(m)'
    BY <1>3, <1>6, <1>11, <1>12 DEF CancelGathered
  <2>2. \A u \in Threads : Gathered(u, m)'
    BY <1>6, <1>11, <1>12 DEF Gathered
  <2> QED
    BY <1>3, <1>10, <1>11, <2>1, <2>2 DEF Gathering
<1>14. m \in 1 .. (LastPos + 1)'
  BY <1>3, RegionKept
<1> QED
  BY <1>8, <1>13, <1>14 DEF IInv, Stage

-----------------------------------------------------------------------------
(* Those who come. *)

(* A step of t while mutex1 is free.                                       *)
LEMMA GatheringKept ==
  ASSUME Assumptions, Shared, NEW m, Gathering(m), NEW t \in Threads, NEW p, NEW c, Moves(t, p, c),
         UNCHANGED <<region, sem1, sem2, mutex1>>,
         generation'.phase = generation.phase, generation.cancelled => generation'.cancelled,
         \A u \in Threads \ {t} : state'[u] = state[u],
         c = "sem1" => state'[t] = generation.phase,
         Gathered(t, m)', CancelGathered(m)'
  PROVE  Gathering(m)'
<1>1. /\ pos'[t] = p /\ pc'[t] = c
      /\ \A u \in Threads \ {t} : pos'[u] = pos[u] /\ pc'[u] = pc[u]
  BY SetsMove DEF Shared
<1>2. FinalPos' = FinalPos
  BY RegionKept
<1>3. ASSUME NEW u \in Threads PROVE Gathered(u, m)'
  <2>1. CASE u # t
    BY <1>1, <1>2, <2>1 DEF Gathering, Gathered
  <2> QED
    BY <2>1
<1>4. ASSUME NEW u \in Threads PROVE pc'[u] = "sem1" => state'[u] = generation'.phase
  BY <1>1 DEF Gathering
<1> QED
  BY <1>3, <1>4 DEF Gathering

(* A step that leaves the semaphores and those in the barrier alone.       *)
LEMMA PostsKept ==
  ASSUME Shared, NEW t \in Threads, NEW h \in Threads \ {t}, NEW p, NEW c, Moves(t, p, c),
         PostsFit(h), pc[t] \notin Counted, pc[t] \notin {"post2", "cpost2"},
         c \notin Counted, c \notin {"post2", "cpost2"},
         UNCHANGED <<arrived, sem1, sem2, n>>
  PROVE  PostsFit(h)'
<1>1. Waiting' = Waiting /\ Lasts' = Lasts /\ pc'[h] = pc[h]
  BY SetsMove DEF Waiting, Lasts, Shared, Counted
<1> QED
  BY <1>1 DEF PostsFit

(* In a cancelled region t goes to its end, from the body.                 *)
LEMMA SkipStep ==
  ASSUME Assumptions, IInv, NEW t \in Threads, InBody(t), generation.cancelled, SkipToEnd(t),
         UNCHANGED <<bar, region, freed, state, n>>,
         team_cancelled' \in BOOLEAN, team_cancelled => team_cancelled'
  PROVE  IInv'
<1>1. Shared /\ TypeOK
  BY DEF IInv, Shared
<1>2. PICK m \in 1 .. LastPos + 1 : Stage(m)
  BY DEF IInv
<1>3. /\ pc[t] = "body"
      /\ UNCHANGED <<region, freed, generation, arrived, cancellable, sem1, sem2, mutex1, state, n>>
  BY DEF InBody, bar
<1>4. Moves(t, FinalPos, "end")
  BY DEF SkipToEnd, Goto, Moves
<1>5. LastPos \in Nat /\ FinalPos \in 2 .. LastPos /\ FinalPos < LastPos
  BY <1>1, Barriers DEF TypeOK, Assumptions
<1>6. Shared'
  <2>1. RestTyped
    BY <1>1, <1>3 DEF RestTyped, TypeOK
  <2>2. PICK p \in 1 .. LastPos + 1 : p = FinalPos
    BY <1>5
  <2>3. Fits(p, "end")'
    BY <1>3, <1>5, <2>2, RegionKept DEF Fits
  <2>4. "end" \in Places /\ "end" \notin Counted /\ pc[t] \notin Counted
    BY <1>3 DEF Places, Counted, Posting
  <2>5. arrived' = arrived + (IF "end" \in Counted THEN 1 ELSE 0) - (IF pc[t] \in Counted THEN 1 ELSE 0)
    BY <1>1, <1>3, <2>4 DEF TypeOK
  <2> QED
    BY <1>1, <1>3, <1>4, <2>1, <2>2, <2>3, <2>4, <2>5, StepShared
<1>7. /\ pos'[t] = FinalPos /\ pc'[t] = "end" /\ FinalPos' = FinalPos /\ Program' = Program
      /\ LastPos' = LastPos
      /\ \A u \in Threads \ {t} : pos'[u] = pos[u] /\ pc'[u] = pc[u]
  BY <1>1, <1>3, <1>4, SetsMove, RegionKept
<1>8. Stage(m)'
  <2>1. CASE Gathering(m)
    <3>1. m \in 2 .. FinalPos /\ CancelGathered(m)
      BY <2>1 DEF Gathering, CancelGathered
    <3>2. Gathered(t, m)'
      BY <1>3, <1>5, <1>7, <3>1 DEF Gathered
    <3>3. CancelGathered(m)'
      BY <1>3, <1>7, <3>1 DEF CancelGathered
    <3> QED
      BY <1>1, <1>3, <1>4, <2>1, <3>2, <3>3, GatheringKept DEF Stage
  <2>2. ASSUME NEW h \in Threads, Held(h, m)
        PROVE  Held(h, m)'
    <3>1. t # h /\ PostsFit(h)
      BY <1>3, <2>2 DEF Held, Opening, Cancelling
    <3>2. PostsFit(h)'
      BY <1>1, <1>3, <1>4, <3>1, PostsKept DEF Counted
    <3>3. ~Opening(h, m)
      BY <1>3, <3>1 DEF Opening, Opened, InBody
    <3> QED
      BY <1>1, <1>3, <1>4, <2>2, <3>1, <3>2, <3>3, HeldKept
  <2> QED
    BY <1>2, <2>1, <2>2 DEF Stage
<1> QED
  BY <1>6, <1>7, <1>8 DEF IInv

LEMMA CancellationPointStep ==
  ASSUME Assumptions, IInv, NEW t \in Threads, CancellationPoint(t)
  PROVE  IInv'
<1>1. /\ InBody(t) /\ generation.cancelled /\ SkipToEnd(t)
      /\ UNCHANGED <<bar, region, freed, state, n, team_cancelled>>
  BY DEF CancellationPoint, team
<1>2. team_cancelled' \in BOOLEAN /\ (team_cancelled => team_cancelled')
  BY <1>1 DEF IInv, Shared, TypeOK
<1> QED
  BY <1>1, <1>2, SkipStep

LEMMA CancelStep ==
  ASSUME Assumptions, IInv, NEW t \in Threads, Cancel(t)
  PROVE  IInv'
<1>1. Shared /\ TypeOK
  BY DEF IInv, Shared
<1>2. PICK m \in 1 .. LastPos + 1 : Stage(m)
  BY DEF IInv
<1>3. /\ MayCancel(t) /\ InBody(t) /\ pc[t] = "body"
      /\ UNCHANGED <<bar, region, freed, generation, arrived, cancellable, sem1, sem2, mutex1, state, n>>
  BY DEF Cancel, MayCancel, InBody, bar
<1>4. team_cancelled' = TRUE
  BY DEF Cancel
<1>5. CASE generation.cancelled
  <2>1. SkipToEnd(t) /\ team_cancelled' \in BOOLEAN /\ (team_cancelled => team_cancelled')
    BY <1>4, <1>5 DEF Cancel
  <2> QED
    BY <1>3, <1>5, <2>1, SkipStep
<1>6. CASE ~generation.cancelled
  <2>1. PICK p \in 2 .. FinalPos : p = pos[t] /\ CancelAhead(p) /\ Moves(t, p, "cancel")
    <3>1. pos' = pos /\ pc' = [pc EXCEPT ![t] = "cancel"] /\ pos[t] \in 2 .. FinalPos /\ CancelAhead(pos[t])
      BY <1>3, <1>6 DEF Cancel, Goto, MayCancel, InBody, CancelAhead
    <3> QED
      BY <1>1, <3>1 DEF Moves, TypeOK
  <2>2. LastPos \in Nat /\ FinalPos \in 2 .. LastPos /\ p \in 1 .. LastPos
    BY <1>1, <2>1, Barriers DEF TypeOK, Assumptions
  <2>3. Shared'
    <3>1. RestTyped
      <4>1. team_cancelled' \in BOOLEAN
        BY <1>4, Zenon
      <4> QED
        BY <1>1, <1>3, <4>1, Zenon DEF RestTyped, TypeOK
    <3>2. Fits(p, "cancel")'
      BY <1>3, <1>4, <2>1, <2>2, RegionKept DEF Fits
    <3>3. "cancel" \in Places /\ "cancel" \notin Counted /\ pc[t] \notin Counted /\ p \in 1 .. LastPos + 1
      BY <1>3, <2>2 DEF Places, Counted, Posting
    <3>4. arrived' = arrived + (IF "cancel" \in Counted THEN 1 ELSE 0) - (IF pc[t] \in Counted THEN 1 ELSE 0)
      BY <1>1, <1>3, <3>3 DEF TypeOK
    <3>5. team_cancelled => team_cancelled'
      BY <1>4
    <3> QED
      BY <1>1, <1>3, <2>1, <3>1, <3>2, <3>3, <3>4, <3>5, StepShared
  <2>4. /\ pos'[t] = p /\ pc'[t] = "cancel" /\ FinalPos' = FinalPos /\ Program' = Program
        /\ LastPos' = LastPos
        /\ \A u \in Threads \ {t} : pos'[u] = pos[u] /\ pc'[u] = pc[u]
    BY <1>1, <1>3, <2>1, SetsMove, RegionKept
  <2>5. Stage(m)'
    <3>1. CASE Gathering(m)
      <4>1. Gathered(t, m)'
        BY <1>3, <1>6, <2>1, <2>4, <3>1 DEF Gathering, Gathered
      <4>2. CancelGathered(m)'
        BY <1>3, <1>6, <2>4, <3>1 DEF CancelGathered, Gathering
      <4> QED
        BY <1>1, <1>3, <2>1, <3>1, <4>1, <4>2, GatheringKept DEF Stage
    <3>2. ASSUME NEW h \in Threads, Held(h, m)
          PROVE  Held(h, m)'
      <4>1. t # h /\ PostsFit(h)
        BY <1>3, <3>2 DEF Held, Opening, Cancelling
      <4>2. PostsFit(h)'
        BY <1>1, <1>3, <2>1, <4>1, PostsKept DEF Counted
      <4>3. ~Cancelling(h, m)
        BY <1>6 DEF Cancelling
      <4>4. Opening(h, m) => pc[h] # "open" /\ Opened(t, h, m)'
        BY <1>3, <2>1, <2>4, <4>1 DEF Opening, Opened, Left
      <4> QED
        BY <1>1, <1>3, <2>1, <3>2, <4>1, <4>2, <4>3, <4>4, HeldKept
    <3> QED
      BY <1>2, <3>1, <3>2 DEF Stage
  <2> QED
    BY <2>3, <2>4, <2>5 DEF IInv
<1> QED
  BY <1>5, <1>6

LEMMA CancelSetStep ==
  ASSUME Assumptions, IInv, NEW t \in Threads, CancelSet(t)
  PROVE  IInv'
<1>1. Shared /\ TypeOK /\ Fits(pos[t], pc[t])
  BY DEF IInv, Shared
<1>2. PICK m \in 1 .. LastPos + 1 : Stage(m)
  BY DEF IInv
<1>3. /\ pc[t] = "cancel" /\ mutex1 = "free"
      /\ generation' = [generation EXCEPT !.cancelled = TRUE]
      /\ UNCHANGED <<region, freed, team_cancelled, arrived, sem1, sem2, state>>
  BY DEF CancelSet, team
<1>4. Gathering(m) /\ CancelGathered(m) /\ sem1 = 0 /\ sem2 = 0
  BY <1>2, <1>3, StagePlaces DEF Stage, Gathering, Assumptions
<1>5. pos[t] = m /\ CancelAhead(m) /\ team_cancelled /\ m \in 2 .. FinalPos
  BY <1>1, <1>3, <1>4 DEF Gathering, Gathered, Fits, CancelAhead
<1>6. /\ LastPos \in Nat /\ FinalPos \in 2 .. LastPos /\ FinalPos < LastPos
      /\ m < FinalPos => Program[m] = "cancel"
  BY <1>1, <1>5, Barriers DEF TypeOK, Assumptions
<1>7. generation'.cancelled /\ generation'.phase = generation.phase /\ generation' \in Generations
  BY <1>1, <1>3 DEF TypeOK, Generations
<1>8. FinalPos' = FinalPos /\ Program' = Program /\ LastPos' = LastPos
  BY <1>3, RegionKept
<1>9. CASE ~generation.cancelled /\ cancellable /\ arrived > 0
  <2>1. /\ mutex1' = t /\ n' = [n EXCEPT ![t] = arrived] /\ cancellable' = cancellable
        /\ Moves(t, m, "cpost")
    BY <1>1, <1>5, <1>9 DEF CancelSet, Goto, Moves, TypeOK
  <2>2. n' \in [Threads -> Int] /\ n'[t] = arrived
    BY <1>1, <2>1 DEF TypeOK
  <2>3. Shared'
    <3>1. RestTyped
      <4>1. cancellable' \in BOOLEAN /\ team_cancelled' \in BOOLEAN
        BY <1>1, <1>3, <2>1, Zenon DEF TypeOK
      <4> QED
        BY <1>1, <1>3, <1>7, <2>1, <2>2, <4>1 DEF RestTyped, TypeOK
    <3>2. Fits(m, "cpost")'
      BY <1>3, <1>5, <1>6, RegionKept DEF Fits
    <3>3. "cpost" \in Places /\ "cpost" \notin Counted /\ pc[t] \notin Counted
      BY <1>3 DEF Places, Counted, Posting
    <3>4. arrived' = arrived + (IF "cpost" \in Counted THEN 1 ELSE 0) - (IF pc[t] \in Counted THEN 1 ELSE 0)
      BY <1>1, <1>3, <3>3 DEF TypeOK
    <3> QED
      BY <1>1, <1>3, <2>1, <3>1, <3>2, <3>3, <3>4, StepShared
  <2>4. /\ pos'[t] = m /\ pc'[t] = "cpost" /\ Waiting' = Waiting /\ Lasts' = Lasts
        /\ \A u \in Threads \ {t} : pos'[u] = pos[u] /\ pc'[u] = pc[u]
    BY <1>1, <1>3, <2>1, SetsMove DEF Waiting, Lasts
  <2>5. PostsFit(t)'
    <3>1. Waiting = Inside /\ Lasts = {}
      BY <1>4 DEF Gathering, Gathered, Waiting, Inside, Lasts, Counted
    <3>2. arrived = Cardinality(Waiting)
      BY <1>1, <3>1 DEF Shared
    <3>3. n'[t] + sem1' = Cardinality(Waiting')
      BY <1>1, <1>3, <1>4, <2>2, <2>4, <3>2 DEF TypeOK
    <3> QED
      BY <1>3, <1>4, <1>9, <2>2, <2>4, <3>1, <3>3 DEF PostsFit
  <2>6. Cancelling(t, m)'
    <3>1. m < FinalPos
      BY <1>4, <1>5, <1>6, <1>9 DEF CancelGathered
    <3>2. ASSUME NEW u \in Threads \ {t} PROVE pos[u] = m /\ pc[u] \in {"body", "cancel", "sem1"}
      <4>1. pos[u] = m /\ pc[u] \in {"body", "end", "cancel", "sem1", "done"}
        BY <1>4, <1>9 DEF Gathering, Gathered
      <4>2. Fits(pos[u], pc[u])
        BY <1>1 DEF Shared
      <4> QED
        BY <1>6, <3>1, <4>1, <4>2 DEF Fits
    <3> QED
      BY <1>7, <1>8, <2>1, <2>4, <3>1, <3>2 DEF Cancelling
  <2> QED
    BY <1>8, <2>3, <2>5, <2>6 DEF IInv, Stage, Held
<1>10. CASE ~(~generation.cancelled /\ cancellable /\ arrived > 0)
  <2>1. /\ mutex1' = mutex1 /\ n' = n /\ cancellable' = (cancellable /\ generation.cancelled)
        /\ Moves(t, FinalPos, "end")
    BY <1>10 DEF CancelSet, SkipToEnd, Goto, Moves
  <2>2. ~cancellable' /\ cancellable' \in BOOLEAN
    BY <1>4, <2>1 DEF CancelGathered
  <2>3. Shared'
    <3>1. RestTyped
      <4>1. team_cancelled' \in BOOLEAN
        BY <1>1, <1>3, Zenon DEF TypeOK
      <4> QED
        BY <1>1, <1>3, <1>7, <2>1, <2>2, <4>1 DEF RestTyped, TypeOK
    <3>2. PICK p \in 1 .. LastPos + 1 : p = FinalPos
      BY <1>6
    <3>3. Fits(p, "end")'
      BY <1>3, <1>6, <3>2, RegionKept DEF Fits
    <3>4. "end" \in Places /\ "end" \notin Counted /\ pc[t] \notin Counted
      BY <1>3 DEF Places, Counted, Posting
    <3>5. arrived' = arrived + (IF "end" \in Counted THEN 1 ELSE 0) - (IF pc[t] \in Counted THEN 1 ELSE 0)
      BY <1>1, <1>3, <3>4 DEF TypeOK
    <3> QED
      BY <1>1, <1>3, <2>1, <3>1, <3>2, <3>3, <3>4, <3>5, StepShared
  <2>4. /\ pos'[t] = FinalPos /\ pc'[t] = "end"
        /\ \A u \in Threads \ {t} : pos'[u] = pos[u] /\ pc'[u] = pc[u]
    BY <1>1, <2>1, SetsMove
  <2>5. Gathered(t, m)'
    BY <1>5, <1>6, <1>7, <1>8, <2>4 DEF Gathered
  <2>6. ASSUME NEW u \in Threads, m < FinalPos, pos'[u] = m PROVE pc'[u] # "sem1"
    <3>1. SUFFICES ASSUME u # t, pos[u] = m, pc[u] = "sem1" PROVE FALSE
      BY <2>4, <2>6
    <3>2. Program[m] = "cancel" /\ cancellable /\ ~generation.cancelled
      BY <1>4, <1>5, <1>6, <2>6, <3>1 DEF CancelGathered
    <3>3. u \in Inside
      BY <3>1 DEF Inside, Counted
    <3>4. arrived \in Nat /\ arrived # 0
      BY <1>1, <3>3, InsideSizes
    <3> QED
      BY <1>10, <3>2, <3>4
  <2>7. CancelGathered(m)'
    BY <1>3, <1>5, <1>6, <1>7, <1>8, <2>2, <2>6 DEF CancelGathered
  <2>8. Gathering(m)'
    BY <1>1, <1>3, <1>4, <1>7, <2>1, <2>5, <2>7, GatheringKept
  <2> QED
    BY <1>8, <2>3, <2>8 DEF IInv, Stage
<1> QED
  BY <1>9, <1>10

LEMMA ArriveStep ==
  ASSUME Assumptions, IInv, NEW t \in Threads, Arrive(t)
  PROVE  IInv'
<1>1. Shared /\ TypeOK /\ Fits(pos[t], pc[t])
  BY DEF IInv, Shared
<1>2. PICK m \in 1 .. LastPos + 1 : Stage(m)
  BY DEF IInv
<1>3. /\ pc[t] \in {"body", "end"} /\ mutex1 = "free"
      /\ UNCHANGED <<region, freed, team_cancelled, generation, sem1, sem2>>
  BY DEF Arrive, team
<1>4. Gathering(m) /\ CancelGathered(m) /\ sem1 = 0 /\ sem2 = 0
  BY <1>2, <1>3, StagePlaces DEF Stage, Gathering, Assumptions
<1>5. /\ LastPos \in Nat /\ FinalPos \in 2 .. LastPos /\ FinalPos < LastPos /\ LastPos = FinalPos + 1
      /\ Program[1] = "plain" /\ Program[FinalPos] = "wait" /\ Program[LastPos] = "plain"
      /\ \A k \in 2 .. FinalPos - 1 : Program[k] \in {"wait", "cancel"}
  BY <1>1, Barriers DEF TypeOK, Assumptions
<1>6. pos[t] \in 1 .. LastPos /\ Kind(t) = Program[pos[t]]
  BY <1>1, <1>3, <1>5 DEF TypeOK, Fits, Kind
<1>7. FinalPos' = FinalPos /\ Program' = Program /\ LastPos' = LastPos
  BY <1>3, RegionKept
<1>8. /\ pc[t] \notin Counted /\ t \notin Waiting /\ t \notin Inside /\ generation \in Generations
      /\ Waiting = Inside /\ Lasts = {}
      /\ generation.phase \in Phases /\ arrived \in Nat /\ arrived = Cardinality(Waiting)
  <2>1. pc[t] \notin Counted /\ t \notin Waiting /\ t \notin Inside /\ Waiting = Inside /\ Lasts = {}
    BY <1>3, <1>4 DEF Gathering, Gathered, Waiting, Inside, Lasts, Counted
  <2>2. generation \in Generations /\ generation.phase \in Phases
    BY <1>1 DEF TypeOK, Generations
  <2>3. arrived \in Nat
    BY <1>1, InsideSizes
  <2> QED
    BY <1>1, <2>1, <2>2, <2>3 DEF Shared
\* A cancellable barrier of a cancelled region.
<1>9. CASE Kind(t) = "cancel" /\ generation.cancelled
  <2>1. Moves(t, FinalPos, "end") /\ UNCHANGED <<arrived, cancellable, mutex1, state, n>>
    BY <1>9 DEF Arrive, SkipToEnd, Goto, Moves
  <2>2. pos[t] = m /\ m < FinalPos
    <3>1. pos[t] # FinalPos
      BY <1>5, <1>6, <1>9
    <3>2. pos[t] = m
      BY <1>4, <3>1 DEF Gathering, Gathered
    <3> QED
      BY <1>4, <1>5, <1>9, <3>1, <3>2 DEF CancelGathered
  <2>3. Shared'
    <3>1. RestTyped
      BY <1>1, <1>3, <2>1 DEF RestTyped, TypeOK
    <3>2. PICK p \in 1 .. LastPos + 1 : p = FinalPos
      BY <1>5
    <3>3. Fits(p, "end")'
      BY <1>3, <1>5, <1>7, <3>2 DEF Fits
    <3>4. "end" \in Places /\ "end" \notin Counted /\ pc[t] # "done"
      BY <1>3 DEF Places, Counted
    <3>5. arrived' = arrived + (IF "end" \in Counted THEN 1 ELSE 0) - (IF pc[t] \in Counted THEN 1 ELSE 0)
      BY <1>8, <2>1, <3>4
    <3> QED
      BY <1>1, <1>3, <2>1, <3>1, <3>2, <3>3, <3>4, <3>5, StepShared
  <2>4. /\ pos'[t] = FinalPos /\ pc'[t] = "end"
        /\ \A u \in Threads \ {t} : pos'[u] = pos[u] /\ pc'[u] = pc[u]
    BY <1>1, <2>1, SetsMove
  <2>5. Gathered(t, m)'
    BY <1>3, <1>7, <1>9, <2>2, <2>4 DEF Gathered
  <2>6. CancelGathered(m)'
    BY <1>3, <1>4, <1>7, <2>1, <2>4 DEF CancelGathered
  <2>7. Gathering(m)'
    BY <1>1, <1>3, <1>4, <2>1, <2>5, <2>6, GatheringKept
  <2> QED
    BY <1>7, <2>3, <2>7 DEF IInv, Stage
\* The last to arrive.
<1>10. CASE ~(Kind(t) = "cancel" /\ generation.cancelled) /\ arrived + 1 = total
  <2>1. PICK p \in 1 .. LastPos, c \in {"post", "open"} :
          /\ p = pos[t] /\ Moves(t, p, c) /\ c = IF Program[p] = "plain" THEN "post" ELSE "open"
    <3> DEFINE place == IF Kind(t) = "plain" THEN "post" ELSE "open"
    <3>1. pos' = pos /\ pc' = [pc EXCEPT ![t] = place]
      BY <1>10 DEF Arrive, Goto
    <3>2. Moves(t, pos[t], place)
      BY <1>1, <3>1 DEF Moves, TypeOK
    <3> QED
      BY <1>6, <3>2
  <2>2. /\ state' = [state EXCEPT ![t] = generation.phase] /\ n' = [n EXCEPT ![t] = total - 1]
        /\ arrived' = arrived /\ mutex1' = t
        /\ cancellable' = IF Kind(t) = "cancel" THEN FALSE ELSE cancellable
    BY <1>10 DEF Arrive
  <2>3. /\ state' \in [Threads -> Phases] /\ n' \in [Threads -> Int] /\ n'[t] = arrived
        /\ state'[t] = generation.phase /\ \A u \in Threads \ {t} : state'[u] = state[u]
    BY <1>1, <1>8, <1>10, <2>2 DEF TypeOK
  <2>4. Inside = Threads \ {t} /\ arrived > 0
    BY <1>1, <1>8, <1>10, InsideSizes
  <2>5. ASSUME NEW u \in Threads \ {t}
        PROVE  pos[u] = p /\ pc[u] = "sem1" /\ state[u] = generation.phase
    <3>1. pc[u] = "sem1" /\ state[u] = generation.phase
      BY <1>4, <1>8, <2>4 DEF Waiting, Gathering
    <3>2. CASE pos[t] = m
      <4>1. generation.cancelled => m = FinalPos
        BY <1>4, <1>5, <1>6, <1>10, <3>2 DEF CancelGathered
      <4> QED
        BY <1>4, <2>1, <3>1, <3>2, <4>1 DEF Gathering, Gathered
    <3>3. CASE pos[t] # m
      <4>1. pos[t] = FinalPos /\ m < FinalPos /\ generation.cancelled
        BY <1>4, <3>3 DEF Gathering, Gathered
      <4>2. pos[u] # m
        BY <1>4, <3>1, <4>1 DEF CancelGathered
      <4> QED
        BY <1>4, <2>1, <3>1, <4>1, <4>2 DEF Gathering, Gathered
    <3> QED
      BY <3>1, <3>2, <3>3
  <2>6. generation.cancelled => p = FinalPos
    <3>1. CASE pos[t] = m
      BY <1>4, <1>5, <1>6, <1>10, <2>1, <3>1 DEF CancelGathered
    <3>2. CASE pos[t] # m
      BY <1>4, <2>1, <3>2 DEF Gathering, Gathered
    <3> QED
      BY <3>1, <3>2
  <2>7. c = "post" => Program[p] = "plain" /\ ~generation.cancelled
    BY <1>5, <2>1, <2>6
  <2>8. ~cancellable' /\ cancellable' \in BOOLEAN
    <3>1. CASE Kind(t) = "cancel"
      BY <2>2, <3>1
    <3>2. CASE Kind(t) # "cancel"
      <4>1. cancellable => ~generation.cancelled /\ Program[m] = "cancel"
        BY <1>4 DEF CancelGathered
      <4>2. cancellable => pos[t] = m
        BY <1>4, <4>1 DEF Gathering, Gathered
      <4>3. ~cancellable
        BY <1>6, <3>2, <4>1, <4>2
      <4>4. cancellable' = cancellable
        BY <2>2, <3>2, Zenon
      <4>5. ~cancellable'
        BY <4>3, <4>4, Zenon
      <4>6. cancellable' \in BOOLEAN
        BY <1>1, <4>4, Zenon DEF TypeOK
      <4> QED
        BY <4>5, <4>6
    <3> QED
      BY <3>1, <3>2
  <2>9. Shared'
    <3>1. RestTyped
      <4>1. team_cancelled' \in BOOLEAN
        BY <1>1, <1>3, Zenon DEF TypeOK
      <4> QED
        BY <1>1, <1>3, <2>2, <2>3, <2>8, <4>1 DEF RestTyped, TypeOK
    <3>2. Fits(p, c)'
      BY <1>5, <1>7, <2>1, <2>7 DEF Fits
    <3>3. c \in Places /\ c \notin Counted /\ pc[t] # "done" /\ p \in 1 .. LastPos + 1
      BY <1>3, <1>5, <2>1 DEF Places, Counted, Posting
    <3>4. arrived' = arrived + (IF c \in Counted THEN 1 ELSE 0) - (IF pc[t] \in Counted THEN 1 ELSE 0)
      BY <1>8, <2>2, <3>3
    <3> QED
      BY <1>1, <1>3, <2>1, <3>1, <3>2, <3>3, <3>4, StepShared
  <2>10. /\ pos'[t] = p /\ pc'[t] = c /\ Waiting' = Waiting /\ Lasts' = Lasts
         /\ \A u \in Threads \ {t} : pos'[u] = pos[u] /\ pc'[u] = pc[u]
    <3>1. c # "sem1" /\ c \notin {"post2", "cpost2"} /\ t \notin Waiting /\ t \notin Lasts
      BY <1>8, <2>1
    <3>2. pos'[t] = p /\ pc'[t] = c /\ \A u \in Threads \ {t} : pos'[u] = pos[u] /\ pc'[u] = pc[u]
      BY <1>1, <2>1, SetsMove
    <3>3. Waiting' = Waiting /\ Lasts' = Lasts
      BY <3>1, <3>2 DEF Waiting, Lasts
    <3> QED
      BY <3>2, <3>3
  <2>11. PostsFit(t)'
    <3>1. n'[t] + sem1' = Cardinality(Waiting')
      BY <1>3, <1>4, <1>8, <2>3, <2>10
    <3> QED
      BY <1>3, <1>4, <1>8, <2>1, <2>2, <2>3, <2>4, <2>10, <3>1 DEF PostsFit
  <2>12. Opening(t, p)'
    <3>1. ASSUME NEW u \in Threads \ {t} PROVE Opened(u, t, p)'
      BY <1>3, <1>7, <2>1, <2>3, <2>5, <2>7, <2>10 DEF Opened, Left
    <3> QED
      BY <1>3, <1>4, <1>7, <2>1, <2>2, <2>3, <2>6, <2>7, <2>8, <2>10, <3>1 DEF Opening
  <2>13. p \in 1 .. (LastPos + 1)'
    BY <1>5, <1>7
  <2> QED
    BY <2>9, <2>11, <2>12, <2>13 DEF IInv, Stage, Held
\* The others.
<1>11. CASE ~(Kind(t) = "cancel" /\ generation.cancelled) /\ arrived + 1 # total
  <2>1. PICK p \in 1 .. LastPos : p = pos[t] /\ Moves(t, p, "sem1")
    <3>1. pos' = pos /\ pc' = [pc EXCEPT ![t] = "sem1"]
      BY <1>11 DEF Arrive, Goto
    <3> QED
      BY <1>1, <1>6, <3>1 DEF Moves, TypeOK
  <2>2. /\ state' = [state EXCEPT ![t] = generation.phase] /\ arrived' = arrived + 1
        /\ UNCHANGED <<mutex1, n>>
        /\ cancellable' = IF Kind(t) = "cancel" THEN TRUE ELSE cancellable
    BY <1>11 DEF Arrive
  <2>3. /\ state' \in [Threads -> Phases]
        /\ state'[t] = generation.phase /\ \A u \in Threads \ {t} : state'[u] = state[u]
    BY <1>1, <1>8, <2>2 DEF TypeOK
  <2>4. /\ cancellable' \in BOOLEAN
        /\ Kind(t) = "cancel" => cancellable'
        /\ Kind(t) # "cancel" => cancellable' = cancellable
        /\ cancellable => cancellable'
    <3>1. cancellable \in BOOLEAN
      BY <1>1, Zenon DEF TypeOK
    <3>2. CASE Kind(t) = "cancel"
      BY <2>2, <3>2, Zenon
    <3>3. CASE Kind(t) # "cancel"
      <4>1. cancellable' = cancellable
        BY <2>2, <3>3, Zenon
      <4> QED
        BY <3>1, <3>3, <4>1, Zenon
    <3> QED
      BY <3>2, <3>3, Zenon
  <2>5. Shared'
    <3>1. RestTyped
      <4>1. team_cancelled' \in BOOLEAN
        BY <1>1, <1>3, Zenon DEF TypeOK
      <4> QED
        BY <1>1, <1>3, <2>2, <2>3, <2>4, <4>1 DEF RestTyped, TypeOK
    <3>2. Fits(p, "sem1")'
      BY <1>5, <1>7, <2>1 DEF Fits
    <3>3. "sem1" \in Places /\ "sem1" \in Counted /\ pc[t] # "done" /\ p \in 1 .. LastPos + 1
      BY <1>3, <1>5, <2>1 DEF Places, Counted
    <3>4. arrived' = arrived + (IF "sem1" \in Counted THEN 1 ELSE 0) - (IF pc[t] \in Counted THEN 1 ELSE 0)
      BY <1>8, <2>2, <3>3
    <3> QED
      BY <1>1, <1>3, <2>1, <3>1, <3>2, <3>3, <3>4, StepShared
  <2>6. /\ pos'[t] = p /\ pc'[t] = "sem1"
        /\ \A u \in Threads \ {t} : pos'[u] = pos[u] /\ pc'[u] = pc[u]
    BY <1>1, <2>1, SetsMove
  <2>7. Gathered(t, m) /\ Gathered(t, m)'
    BY <1>3, <1>4, <1>7, <2>1, <2>6 DEF Gathering, Gathered
  <2>8. CancelGathered(m)'
    <3>1. Kind(t) = "cancel" => /\ pos[t] = m /\ ~generation.cancelled
                                /\ m \in 2 .. FinalPos - 1 /\ Program[m] = "cancel"
      <4>1. SUFFICES ASSUME Kind(t) = "cancel"
                     PROVE  /\ pos[t] = m /\ ~generation.cancelled
                            /\ m \in 2 .. FinalPos - 1 /\ Program[m] = "cancel"
        OBVIOUS
      <4>2. ~generation.cancelled
        BY <1>11, <4>1
      <4>3. pos[t] = m
        BY <2>7, <4>2 DEF Gathered
      <4>4. Program[m] = "cancel" /\ m \in 1 .. LastPos /\ m # 1 /\ m # FinalPos /\ m # LastPos
        BY <1>5, <1>6, <4>1, <4>3
      <4> QED
        BY <1>5, <4>2, <4>3, <4>4
    <3>2. generation.cancelled => ~cancellable'
      BY <1>4, <2>4, <3>1 DEF CancelGathered
    <3>3. ASSUME generation.cancelled, m < FinalPos, NEW u \in Threads, pos'[u] = m
          PROVE  pc'[u] # "sem1"
      <4>1. Program[m] = "cancel" /\ (pos[u] = m => pc[u] # "sem1")
        BY <1>4, <3>3 DEF CancelGathered
      <4>2. u # t
        BY <1>6, <1>11, <2>1, <2>6, <3>3, <4>1
      <4> QED
        BY <2>6, <3>3, <4>1, <4>2
    <3>4. cancellable' => m \in 2 .. FinalPos - 1 /\ Program[m] = "cancel"
      BY <1>4, <2>4, <3>1 DEF CancelGathered
    <3>5. ASSUME m \in 2 .. FinalPos - 1, Program[m] = "cancel",
                 NEW u \in Threads, pos'[u] = m, pc'[u] = "sem1"
          PROVE  cancellable'
      <4>1. CASE u = t
        BY <1>6, <2>1, <2>4, <2>6, <3>5, <4>1
      <4>2. CASE u # t
        BY <1>4, <2>4, <2>6, <3>5, <4>2 DEF CancelGathered
      <4> QED
        BY <4>1, <4>2
    <3>6. generation.cancelled => /\ m \in 2 .. FinalPos /\ team_cancelled
                                  /\ m < FinalPos => Program[m] = "cancel"
      BY <1>4 DEF CancelGathered
    <3> QED
      BY <1>3, <1>7, <3>2, <3>3, <3>4, <3>5, <3>6 DEF CancelGathered
  <2>9. Gathering(m)'
    BY <1>1, <1>3, <1>4, <2>1, <2>2, <2>3, <2>7, <2>8, GatheringKept
  <2> QED
    BY <1>7, <2>5, <2>9 DEF IInv, Stage
<1> QED
  BY <1>9, <1>10, <1>11

-----------------------------------------------------------------------------
(* The end of the team, and all steps together. *)

LEMMA FreeTeamStep ==
  ASSUME Assumptions, IInv, FreeTeam
  PROVE  IInv'
<1>1. Shared /\ TypeOK
  BY DEF IInv, Shared
<1>2. PICK m \in 1 .. LastPos + 1 : Stage(m)
  BY DEF IInv
<1>3. /\ pc[Master] = "done" /\ mutex1 = "free" /\ freed' = TRUE /\ Master \in Threads
      /\ UNCHANGED <<region, generation, arrived, cancellable, sem1, sem2, mutex1>>
      /\ UNCHANGED <<team_cancelled, state, n, pos, pc>>
  BY DEF FreeTeam, bar, Assumptions, TeamAssumption
<1>4. LastPos \in Nat /\ FinalPos \in 2 .. LastPos /\ FinalPos < LastPos
  BY <1>1, Barriers DEF TypeOK, Assumptions
<1>5. Gathering(m)
  BY <1>2, <1>3, StagePlaces DEF Stage, Assumptions
<1>6. m = LastPos + 1
  BY <1>1, <1>3, <1>5 DEF Gathering, Gathered, Shared, Fits
<1>7. ASSUME NEW t \in Threads PROVE pc[t] = "done"
  BY <1>1, <1>4, <1>5, <1>6 DEF Gathering, Gathered, Shared, Fits
<1>8. Shared'
  <2>1. TypeOK'
    <3>1. freed' \in BOOLEAN /\ team_cancelled' \in BOOLEAN /\ cancellable' \in BOOLEAN
      BY <1>1, <1>3, Zenon DEF TypeOK
    <3> QED
      BY <1>1, <1>3, <3>1, RegionKept DEF TypeOK
  <2>2. \A t \in Threads : Fits(pos[t], pc[t])'
    BY <1>1, <1>3, RegionKept DEF Shared, Fits
  <2>3. arrived' = Cardinality(Inside)'
    BY <1>1, <1>3 DEF Shared, Inside
  <2>4. \A t \in Threads : pc'[t] = "done"
    BY <1>3, <1>7
  <2> QED
    BY <2>1, <2>2, <2>3, <2>4 DEF Shared
<1>9. Gathering(m)'
  <2>1. \A t \in Threads : Gathered(t, m)'
    BY <1>3, <1>5, RegionKept DEF Gathering, Gathered
  <2>2. CancelGathered(m)'
    BY <1>3, <1>5, RegionKept DEF Gathering, CancelGathered
  <2> QED
    BY <1>3, <1>5, <2>1, <2>2 DEF Gathering
<1> QED
  BY <1>3, <1>8, <1>9, RegionKept DEF IInv, Stage

LEMMA InitIInv ==
  ASSUME Assumptions, Init
  PROVE  IInv
<1>1. /\ region \in Regions /\ generation = [phase |-> 0, cancelled |-> FALSE]
      /\ arrived = 0 /\ sem1 = 0 /\ sem2 = 0 /\ mutex1 = "free" /\ ~freed /\ ~cancellable
      /\ state = [t \in Threads |-> 0] /\ n = [t \in Threads |-> 0]
      /\ pos = [t \in Threads |-> 1] /\ pc = [t \in Threads |-> "body"]
  BY DEF Init
<1>2. LastPos \in Nat /\ FinalPos \in 2 .. LastPos /\ FinalPos < LastPos /\ LastPos >= 3
  BY <1>1, Barriers DEF Assumptions
<1>3. 0 \in Phases
  BY DEF Phases, Assumptions, WrapAssumption
<1>4. TypeOK
  <2>1. cancellable \in BOOLEAN /\ team_cancelled \in BOOLEAN /\ freed \in BOOLEAN
    BY Zenon DEF Init
  <2>2. generation \in Generations
    BY <1>1, <1>3 DEF Generations
  <2>3. "body" \in Places
    BY DEF Places
  <2> QED
    BY <1>1, <1>2, <1>3, <2>1, <2>2, <2>3 DEF TypeOK
<1>5. Shared
  <2>1. \A t \in Threads : Fits(pos[t], pc[t])
    BY <1>1, <1>2 DEF Fits
  <2>2. Inside = {}
    BY <1>1 DEF Inside, Counted
  <2> QED
    BY <1>1, <1>4, <2>1, <2>2, FS_EmptySet DEF Shared
<1>6. Gathering(1)
  <2>1. CancelGathered(1)
    BY <1>1 DEF CancelGathered
  <2> QED
    BY <1>1, <2>1 DEF Gathering, Gathered
<1> QED
  BY <1>2, <1>5, <1>6 DEF IInv, Stage

LEMMA InductiveInvariant ==
  ASSUME Assumptions
  PROVE  Spec => []IInv
<1>1. Init => IInv
  BY InitIInv
<1>2. IInv /\ [Next]_vars => IInv'
  <2> SUFFICES ASSUME IInv, [Next]_vars
               PROVE  IInv'
    OBVIOUS
  <2>1. ASSUME NEW t \in Threads, Step(t) PROVE IInv'
    BY <2>1, ArriveStep, OpenStep, PostStep, AllLeftStep, Sem1Step, LookStep, TakeOffStep,
       Post2Step, CancelSetStep, CancelledLeftStep DEF Step
  <2>2. ASSUME NEW t \in Threads, Cancel(t) \/ CancellationPoint(t) PROVE IInv'
    BY <2>2, CancelStep, CancellationPointStep
  <2>3. ASSUME UNCHANGED vars PROVE IInv'
    <3>1. /\ UNCHANGED <<region, generation, arrived, cancellable, sem1, sem2, mutex1>>
          /\ UNCHANGED <<team_cancelled, freed, state, n, pos, pc>>
      BY <2>3 DEF vars, bar, team
    <3>2. Shared'
      <4>1. TypeOK'
        BY <3>1, RegionKept DEF IInv, Shared, TypeOK
      <4>2. \A t \in Threads : Fits(pos[t], pc[t])'
        BY <3>1, RegionKept DEF IInv, Shared, Fits
      <4> QED
        BY <3>1, <4>1, <4>2 DEF IInv, Shared, Inside
    <3>3. PICK m \in 1 .. LastPos + 1 : Stage(m)
      BY DEF IInv
    <3>4. Gathering(m) => Gathering(m)'
      BY <3>1, RegionKept DEF Gathering, Gathered, CancelGathered
    <3>5. ASSUME NEW h \in Threads, Held(h, m) PROVE Held(h, m)'
      <4>1. PostsFit(h)'
        BY <3>1, <3>5 DEF Held, PostsFit, Waiting, Lasts
      <4>2. Opening(h, m) => Opening(h, m)'
        BY <3>1, RegionKept DEF Opening, Opened, Left
      <4>3. Cancelling(h, m) => Cancelling(h, m)'
        BY <3>1, RegionKept DEF Cancelling
      <4> QED
        BY <3>5, <4>1, <4>2, <4>3 DEF Held
    <3> QED
      BY <3>1, <3>2, <3>3, <3>4, <3>5, RegionKept DEF IInv, Stage
  <2> QED
    BY <2>1, <2>2, <2>3, FreeTeamStep DEF Next
<1> QED
  BY <1>1, <1>2, PTL DEF Spec

-----------------------------------------------------------------------------

(* At every barrier all threads arrive before the first one leaves, but    *)
(* those who see the cancellation of the region: the last of them holds    *)
(* mutex1 until the others have left, so that at any time there is one     *)
(* barrier that threads come to or leave (gomp_barrier_wait_end).          *)
THEOREM PosixBarrierKeepsTogether ==
  ASSUME TeamAssumption, RegionAssumption, WrapAssumption
  PROVE  Spec => []BarrierSync
<1>1. ASSUME IInv PROVE BarrierSync
  <2> SUFFICES ASSUME NEW t \in Threads, NEW u \in Threads, NEW k \in 1 .. LastPos,
                      pos[t] > k, k \in 2 .. FinalPos - 1 => pos[t] < FinalPos \/ ~team_cancelled,
                      ~(pos[u] > k)
               PROVE  pos[u] = k /\ pc[u] \notin {"body", "end", "cancel", "cpost", "csem2"}
    BY DEF BarrierSync, Arrived
  <2>1. Shared /\ TypeOK
    BY <1>1 DEF IInv, Shared
  <2>2. PICK m \in 1 .. LastPos + 1 : Stage(m)
    BY <1>1 DEF IInv
  <2>3. /\ LastPos \in Nat /\ FinalPos \in 2 .. LastPos
        /\ pos[t] \in 1 .. LastPos + 1 /\ pos[u] \in 1 .. LastPos + 1
    BY <2>1, Barriers DEF TypeOK
  <2>4. CASE Gathering(m)
    <3>1. /\ pos[t] = m \/ (pos[t] = FinalPos /\ m < FinalPos /\ generation.cancelled)
          /\ pos[u] = m \/ (pos[u] = FinalPos /\ m < FinalPos /\ generation.cancelled)
      BY <2>4 DEF Gathering, Gathered
    <3>2. pos[t] = FinalPos /\ pos[u] = m /\ m < FinalPos /\ generation.cancelled
      BY <2>3, <3>1
    <3>3. team_cancelled /\ m >= 2
      BY <2>4, <3>2 DEF Gathering, CancelGathered
    <3> QED
      BY <2>3, <3>2, <3>3
  <2>5. ASSUME NEW h \in Threads, Opening(h, m)
        PROVE  pos[u] = k /\ pc[u] \notin {"body", "end", "cancel", "cpost", "csem2"}
    <3>1. pos[h] = m /\ pc[h] \in {"open", "post", "sem2"} /\ (t # h => pos[t] \in {m, m + 1})
      BY <2>5 DEF Opening, Opened, Left
    <3>2. u # h => \/ pos[u] = m + 1
                   \/ pos[u] = m /\ pc[u] \in {"sem1", "look", "leave", "post2"}
      BY <2>5 DEF Opening, Opened, Left
    <3>3. pos[t] \in {m, m + 1} /\ pos[u] \in {m, m + 1}
      BY <3>1, <3>2
    <3>4. pos[u] = m /\ k = m
      BY <2>3, <3>3
    <3> QED
      BY <3>1, <3>2, <3>4
  <2>6. ASSUME NEW h \in Threads, Cancelling(h, m)
        PROVE  FALSE
    <3>1. pos[t] \in {m, FinalPos} /\ pos[u] \in {m, FinalPos} /\ m < FinalPos
      BY <2>6 DEF Cancelling
    <3>2. team_cancelled /\ m >= 2
      BY <2>1, <2>6 DEF Cancelling, Shared, Fits, CancelAhead
    <3> QED
      BY <2>3, <3>1, <3>2
  <2> QED
    BY <2>2, <2>4, <2>5, <2>6 DEF Stage, Held
<1>2. Spec => []IInv
  BY InductiveInvariant DEF Assumptions
<1> QED
  BY <1>1, <1>2, PTL

(* When the master destroys the barrier of its team no thread is in it any *)
(* more: gomp_barrier_destroy takes mutex1, which the last thread of the   *)
(* last barrier gives up only when all have left (config/posix/bar.c).     *)
THEOREM DestroyedBarrierEmpty ==
  ASSUME TeamAssumption, RegionAssumption, WrapAssumption
  PROVE  Spec => []FreedTeamUntouched
<1>1. IInv => FreedTeamUntouched
  BY DEF IInv, Shared, FreedTeamUntouched
<1>2. Spec => []IInv
  BY InductiveInvariant DEF Assumptions
<1> QED
  BY <1>1, <1>2, PTL
=============================================================================
