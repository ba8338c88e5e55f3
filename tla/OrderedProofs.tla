----------------------------- MODULE OrderedProofs -----------------------------
(***************************************************************************)
(* Ordered regions run in the order of their iterations, and the queue of  *)
(* a dynamic or guided loop lists its threads in the order of their        *)
(* blocks: for any team, any sequence of ordered and doacross loops and    *)
(* any schedules, if static ordered loops have iterations and are reached  *)
(* by the whole team at once.                                              *)
(***************************************************************************)
EXTENDS Doacross, FiniteSetTheorems, TLAPS

(* gomp_ordered_static_init posts to thread 0 without asking whether it    *)
(* has an iteration, or is still in the loop before; see the README.       *)
StaticLoopsApart ==
  \A p \in Programs : \A k \in 1 .. Len(p) : p[k].kind = "ordered" /\ p[k].sched = "static" =>
    p[k].n > 0 /\ (k > 1 => ~p[k - 1].nowait)

LoopIds      == 1 .. Len(program)
OrderedLoops == {k \in LoopIds : program[k].kind = "ordered"}
Static(k)    == program[k].sched = "static"

BlockPlaces == {"body", "wait", "ordered", "sync", "resync", "next"}
CrossPlaces == {"block", "await", "cross", "post"}
Places      == BlockPlaces \cup CrossPlaces \cup {"start", "pass", "end", "barrier", "done"}

WorkShares == [init : BOOLEAN, next : Nat, owner : Ids \cup {Nobody}, cur : Ids, used : 0 .. N,
               ids : [Ids -> Ids]]

(* The blocks of a doacross loop, and its work share, are of no interest.  *)
TypeOK ==
  /\ program \in Programs
  /\ ws = [k \in LoopIds |-> ws[k]] /\ \A k \in OrderedLoops : ws[k] \in WorkShares
  /\ release \in [Ids -> Nat]
  /\ loop \in [Ids -> 1 .. Len(program) + 1]
  /\ i = [t \in Ids |-> i[t]] /\ iend = [t \in Ids |-> iend[t]] /\ trip = [t \in Ids |-> trip[t]]
  /\ \A t \in Ids : loop[t] \in OrderedLoops => i[t] \in Nat /\ iend[t] \in Nat /\ trip[t] \in Int
  /\ next_id \in [Ids -> Ids \cup {Nobody}]
  /\ arrived \in [LoopIds -> SUBSET Ids]
  /\ done = [k \in LoopIds |-> done[k]]
  /\ pc \in [Ids -> Places]
  /\ \A t \in Ids : /\ loop[t] \in LoopIds <=> pc[t] # "done"
                    /\ pc[t] \in BlockPlaces \cup {"pass"} => loop[t] \in OrderedLoops
                    /\ pc[t] \in CrossPlaces => loop[t] \notin OrderedLoops

-----------------------------------------------------------------------------
(* Nobody is behind a barrier to which somebody has not come yet.          *)
Barriers ==
  \A k \in LoopIds :
    /\ ~program[k].nowait =>
         /\ \A t \in Ids : t \in arrived[k] <=> loop[t] > k \/ (loop[t] = k /\ pc[t] = "barrier")
         /\ \A t \in Ids : loop[t] > k => arrived[k] = Ids
    /\ k \in OrderedLoops => (ws[k].init <=> \E t \in Ids : loop[t] > k \/ (loop[t] = k /\ pc[t] # "start"))

-----------------------------------------------------------------------------
(* The turn of an ordered loop: who has it, or is to get it, and whether   *)
(* it is on its way to that thread as a post of its semaphore.             *)
Leader(k)   == IF Static(k) THEN ws[k].ids[0] ELSE ws[k].ids[ws[k].cur]
Active(k) == IF Static(k) THEN ws[k].init ELSE ws[k].used > 0

Posted(k, t) == Active(k) /\ Leader(k) = t /\ ws[k].owner # t /\ ~Locked(k)

Turn(k) ==
  /\ ws[k].owner # Nobody => Active(k) /\ ws[k].owner = Leader(k)
  /\ \A t \in Ids : loop[t] = k =>
       /\ pc[t] = "pass" => /\ Active(k) /\ ws[k].owner = Nobody /\ next_id[t] = Leader(k)
                            /\ \A u \in Ids : loop[u] = k /\ pc[u] = "pass" => u = t
                            /\ i[t] <= iend[t]
       /\ pc[t] \in {"ordered", "next"} => ws[k].owner = t
       /\ pc[t] \in {"wait", "resync"} => ws[k].owner # t

(* A semaphore has one post if a turn is on its way to its thread.         *)
Releases ==
  \A t \in Ids : release[t] = IF \E k \in OrderedLoops : Posted(k, t) THEN 1 ELSE 0

-----------------------------------------------------------------------------
(* Thread t has a block of loop k, within which it has come to i[t].       *)
Holds(t, k) == loop[t] = k /\ (pc[t] \in BlockPlaces \/ (pc[t] = "pass" /\ i[t] < iend[t]))

Within(t) == /\ i[t] <= iend[t]
             /\ pc[t] \in {"body", "wait", "ordered"} => i[t] < iend[t]
             /\ pc[t] \in {"sync", "resync", "next"} => i[t] = iend[t]

Queued(w, j) == w.ids[Wrap(w.cur + j)]

(* A dynamic or guided loop.                                               *)
QueueEnd(k) ==
  LET w == ws[k] IN
  /\ w.next <= program[k].n
  /\ w.used = 0 => w.next \in {0, program[k].n}
  /\ w.used > 0 => iend[Queued(w, w.used - 1)] = w.next

QueueMembers(k) ==
  \A t \in Ids : /\ Holds(t, k) <=> \E j \in 0 .. ws[k].used - 1 : Queued(ws[k], j) = t
                 /\ Holds(t, k) => Within(t)

QueueOrder(k) ==
  \A j, l \in 0 .. ws[k].used - 1 : j < l =>
    /\ iend[Queued(ws[k], j)] <= i[Queued(ws[k], l)]
    /\ iend[Queued(ws[k], j)] < iend[Queued(ws[k], l)]

(* What has been given out and is not over is ahead of a holder.           *)
QueueRest(k) ==
  \A x \in 0 .. ws[k].next - 1 :
    x \in done[k] \/ \E t \in Ids : Holds(t, k) /\ i[t] <= x /\ x < iend[t]

Queue(k) == QueueEnd(k) /\ QueueMembers(k) /\ QueueOrder(k) /\ QueueRest(k)

-----------------------------------------------------------------------------
(* A static loop: its blocks are numbered, and block c is for the thread   *)
(* that is c modulo N.                                                     *)
Block(lp, c) == IF lp.chunk = 0 THEN StaticBlock(lp, 0, c)
                ELSE [first |-> c * lp.chunk, end |-> Least(c * lp.chunk + lp.chunk, lp.n)]
Real(lp, c)  == (lp.chunk = 0 => c < N) /\ Block(lp, c).first < Block(lp, c).end
IsFor(c, t)  == \E tr \in Nat : c = tr * N + t

(* Thread t is in block c of loop k.                                       *)
In(t, k, c) ==
  LET lp == program[k] IN
  /\ Real(lp, c)
  /\ \E tr \in Nat : /\ c = tr * N + t
                     /\ trip[t] = IF Block(lp, c).end = lp.n THEN -1 ELSE tr + 1
  /\ Block(lp, c).first <= i[t] /\ iend[t] = Block(lp, c).end
  /\ Block(lp, c).first .. i[t] - 1 \subseteq done[k]

Coming(t, k) == (loop[t] = k /\ pc[t] = "start") \/ (loop[t] = k - 1 /\ pc[t] = "barrier")
Ended(t, k) == \/ loop[t] > k
               \/ loop[t] = k /\ pc[t] \in {"end", "barrier"}
               \/ loop[t] = k /\ pc[t] = "pass" /\ i[t] = iend[t]

(* It is the turn of block m: those before are over, and every thread is   *)
(* in, or comes to, the first of its blocks from m on.                     *)
TurnOf(k, m) ==
  LET lp == program[k] IN
  /\ Real(lp, m) /\ IsFor(m, Leader(k))
  /\ 0 .. Block(lp, m).first - 1 \subseteq done[k]
  /\ \A t \in Ids :
       /\ Coming(t, k) => m <= t
       /\ Holds(t, k) => Within(t) /\ \E c \in Nat : m <= c /\ c < m + N /\ In(t, k, c)
       /\ Ended(t, k) => \A c \in Nat : m <= c /\ IsFor(c, t) /\ Real(lp, c)
                           => c = m /\ ws[k].owner = t /\ Block(lp, m).end = lp.n

Blocks(k) == IF ws[k].init THEN \E m \in Nat : TurnOf(k, m)
             ELSE ws[k].owner = Nobody /\ ws[k].ids[0] = 0

LoopInv(k) == Turn(k) /\ IF Static(k) THEN Blocks(k) ELSE Queue(k)

IInv == TypeOK /\ Barriers /\ Releases /\ \A k \in OrderedLoops : LoopInv(k)

-----------------------------------------------------------------------------
(* What is known of the loops. *)

LEMMA LoopFacts ==
  ASSUME TypeOK
  PROVE  /\ Len(program) \in Nat
         /\ \A k \in LoopIds :
              /\ program[k].kind \in {"ordered", "doacross"}
              /\ program[k].sched \in {"static", "dynamic", "guided"}
              /\ program[k].n \in Nat /\ program[k].chunk \in Nat
              /\ ~Static(k) => program[k].chunk > 0
              /\ program[k].nowait \in BOOLEAN
              /\ k \in Nat \ {0}
<1>1. program \in Programs
  BY DEF TypeOK
<1>2. Len(program) \in Nat
  BY <1>1, ProgramsAssumption
<1>3. \A k \in 1 .. Len(program) :
        /\ program[k].kind \in {"ordered", "doacross"}
        /\ program[k].sched \in {"static", "dynamic", "guided"}
        /\ program[k].n \in Nat /\ program[k].chunk \in Nat
        /\ program[k].sched # "static" => program[k].chunk > 0
        /\ program[k].nowait \in BOOLEAN
  BY <1>1, ProgramsAssumption, Zenon
<1>4. \A k \in LoopIds : k \in 1 .. Len(program) /\ k \in Nat \ {0}
  BY <1>2 DEF LoopIds
<1> QED BY <1>2, <1>3, <1>4 DEF Static

LEMMA ApartFacts ==
  ASSUME TypeOK, StaticLoopsApart, NEW k \in OrderedLoops, Static(k)
  PROVE  program[k].n > 0 /\ (k > 1 => k - 1 \in LoopIds /\ ~program[k - 1].nowait)
<1>1. program \in Programs /\ Len(program) \in Nat
  BY LoopFacts DEF TypeOK
<1> QED BY <1>1 DEF StaticLoopsApart, OrderedLoops, LoopIds, Static

LEMMA ProgramKept ==
  ASSUME program' = program
  PROVE  /\ LoopIds' = LoopIds /\ OrderedLoops' = OrderedLoops
         /\ \A k \in LoopIds : Static(k)' <=> Static(k)
  BY DEF LoopIds, OrderedLoops, Static

LEMMA IdFacts == N \in Nat /\ N > 1 /\ Ids = 0 .. N - 1 /\ Nobody \notin Ids /\ 0 \in Ids
  BY NAssumption DEF Ids, Nobody

LEMMA WrapFacts ==
  ASSUME NEW c \in Ids
  PROVE  /\ \A j \in 0 .. N : Wrap(c + j) \in Ids
         /\ Wrap(c + 0) = c /\ Wrap(c + N) = c
         /\ \A j, l \in 0 .. N - 1 : Wrap(c + j) = Wrap(c + l) => j = l
         /\ \A j \in 0 .. N - 1 : Wrap(Wrap(c + 1) + j) = Wrap(c + (j + 1))
  BY IdFacts DEF Wrap

-----------------------------------------------------------------------------
(* The blocks of a static loop follow each other.                          *)

LEMMA DivMod ==
  ASSUME NEW n \in Nat
  PROVE  n \div N \in Nat /\ n % N \in Nat /\ n % N < N /\ n = (n \div N) * N + (n % N)
  BY IdFacts

LEMMA Multiply ==
  ASSUME NEW q \in Nat, NEW a \in Nat, NEW b \in Nat, a < b
  PROVE  /\ q * a \in Nat /\ q * b \in Nat
         /\ q * (a + 1) = q * a + q
         /\ q * (a + 1) <= q * b
         /\ q > 0 => q * a < q * b
<1>1. q * a \in Nat /\ q * b \in Nat
  OBVIOUS
<1>2. q * (a + 1) = q * a + q
  OBVIOUS
<1>3. PICK d \in Nat : b = a + 1 + d
  <2>1. b - (a + 1) \in Nat
    OBVIOUS
  <2> QED BY <2>1
<1>4. q * b = q * (a + 1) + q * d /\ q * d \in Nat
  BY <1>3
<1> QED BY <1>1, <1>2, <1>4

EvenBlock(lp, c) ==
  [first |-> (lp.n \div N) * c + Least(c, lp.n % N),
   end   |-> (lp.n \div N) * (c + 1) + Least(c + 1, lp.n % N)]

(* The larger shares come first. *)
LEMMA EvenBlocks ==
  ASSUME NEW lp, lp.n \in Nat, NEW c \in Nat, c < N
  PROVE  /\ EvenBlock(lp, c).first \in Nat /\ EvenBlock(lp, c).end \in Nat
         /\ EvenBlock(lp, c).first <= EvenBlock(lp, c).end
         /\ EvenBlock(lp, c).end <= lp.n
         /\ EvenBlock(lp, c).first < EvenBlock(lp, c).end <=> c < lp.n
         /\ EvenBlock(lp, c).end = lp.n <=> (c + 1 = N \/ c + 1 >= lp.n)
         /\ EvenBlock(lp, c + 1).first = EvenBlock(lp, c).end
         /\ c = 0 => EvenBlock(lp, c).first = 0
<1> DEFINE q == lp.n \div N
           r == lp.n % N
<1>1. q \in Nat /\ r \in Nat /\ r < N /\ lp.n = q * N + r
  BY DivMod
<1> HIDE DEF q, r
<1>2. /\ q * c \in Nat /\ q * N \in Nat
      /\ q * (c + 1) = q * c + q /\ q * (c + 1) <= q * N
      /\ q > 0 /\ c + 1 < N => q * (c + 1) < q * N
  <2>1. /\ q * c \in Nat /\ q * N \in Nat /\ q * (c + 1) = q * c + q
        /\ q * (c + 1) <= q * N
    BY <1>1, Multiply, IdFacts
  <2>2. q > 0 /\ c + 1 < N => q * (c + 1) < q * N
    BY <1>1, Multiply, IdFacts
  <2> QED BY <2>1, <2>2
<1>3. q = 0 => q * c = 0 /\ q * N = 0
  BY <1>1, IdFacts
<1>4. q > 0 => q * N >= N
  <2>1. SUFFICES ASSUME q > 0 PROVE q * N >= N
    OBVIOUS
  <2>2. q * 0 = 0 /\ N * 1 = N
    BY <1>1, IdFacts
  <2>3. CASE q = 1
    BY <2>3, IdFacts
  <2>4. CASE q > 1
    <3>1. N * 1 < N * q
      BY <2>4, <1>1, Multiply, IdFacts
    <3>2. N * q = q * N
      BY <1>1, IdFacts
    <3> QED BY <3>1, <3>2, <2>2, <1>2, IdFacts
  <2> QED BY <2>1, <2>3, <2>4, <1>1
<1>5. /\ EvenBlock(lp, c).first = q * c + Least(c, r)
      /\ EvenBlock(lp, c).end = q * (c + 1) + Least(c + 1, r)
      /\ EvenBlock(lp, c + 1).first = q * (c + 1) + Least(c + 1, r)
  BY DEF EvenBlock, q, r
<1>6. q = 0 \/ q > 0
  BY <1>1
<1>7. c = 0 => q * c = 0
  BY <1>1
<1> QED BY <1>1, <1>2, <1>3, <1>4, <1>5, <1>6, <1>7, IdFacts DEF Least

LEMMA BlockFacts ==
  ASSUME NEW lp, lp.n \in Nat, lp.chunk \in Nat, NEW c \in Nat
  PROVE  /\ Block(lp, c).first \in Nat /\ Block(lp, c).end \in Nat
         /\ Real(lp, c) => Block(lp, c).end <= lp.n
         /\ c = 0 => Block(lp, c).first = 0 /\ (lp.n > 0 => Real(lp, c))
         /\ Real(lp, c) /\ Block(lp, c).end # lp.n
              => Real(lp, c + 1) /\ Block(lp, c + 1).first = Block(lp, c).end
         /\ \A d \in Nat : c <= d /\ Real(lp, d) => Real(lp, c)
         /\ \A d \in Nat : c < d /\ Real(lp, c) /\ Block(lp, c).end = lp.n => ~Real(lp, d)
<1>1. CASE lp.chunk = 0
  <2>1. \A d \in Nat : Block(lp, d) = EvenBlock(lp, d)
    BY <1>1 DEF Block, EvenBlock, StaticBlock
  <2>2. \A d \in Nat : Real(lp, d) <=> d < N /\ d < lp.n
    BY <1>1, <2>1, EvenBlocks DEF Real
  <2>3. CASE c < N
    <3>1. /\ EvenBlock(lp, c).first \in Nat /\ EvenBlock(lp, c).end \in Nat
          /\ EvenBlock(lp, c).end <= lp.n
          /\ EvenBlock(lp, c).end = lp.n <=> (c + 1 = N \/ c + 1 >= lp.n)
          /\ EvenBlock(lp, c + 1).first = EvenBlock(lp, c).end
          /\ c = 0 => EvenBlock(lp, c).first = 0
      BY <2>3, EvenBlocks
    <3> QED BY <2>1, <2>2, <2>3, <3>1, IdFacts
  <2>4. CASE ~(c < N)
    <3>1. lp.n \div N \in Nat /\ lp.n % N \in Nat
      BY DivMod
    <3>2. EvenBlock(lp, c).first \in Nat /\ EvenBlock(lp, c).end \in Nat
      BY <3>1 DEF EvenBlock, Least
    <3> QED BY <2>1, <2>2, <2>4, <3>2, IdFacts
  <2> QED BY <2>3, <2>4
<1>2. CASE lp.chunk # 0
  <2> DEFINE s == lp.chunk
  <2>1. \A d \in Nat : /\ d * s \in Nat /\ s * d = d * s /\ d = 0 => d * s = 0
                       /\ Block(lp, d).first = d * s
                       /\ Block(lp, d).end = Least(d * s + s, lp.n)
    BY <1>2 DEF Block
  <2>2. ASSUME NEW d \in Nat
        PROVE  (d + 1) * s = d * s + s
    <3>1. s \in Nat
      BY <1>2
    <3> HIDE DEF s
    <3> QED BY <3>1
  <2>3. \A d \in Nat : c < d => c * s + s <= d * s
    BY <2>1, Multiply
  <2>4. \A d \in Nat : Real(lp, d) <=> d * s < lp.n
    BY <1>2, <2>1 DEF Real, Least
  <2> HIDE DEF s
  <2>5. /\ s \in Nat \ {0} /\ c * s \in Nat /\ (c + 1) * s = c * s + s
        /\ Block(lp, c).first = c * s /\ Block(lp, c).end = Least(c * s + s, lp.n)
        /\ c = 0 => c * s = 0
        /\ Real(lp, c) <=> c * s < lp.n
    BY <1>2, <2>1, <2>2, <2>4 DEF s
  <2>6. c + 1 \in Nat /\ Block(lp, c + 1).first = c * s + s
    BY <2>1, <2>5
  <2>7. Real(lp, c) /\ Block(lp, c).end # lp.n => c * s + s < lp.n
    BY <2>1, <2>4, <2>5 DEF Least
  <2>8. Block(lp, c).end \in Nat /\ Block(lp, c).end <= lp.n
    BY <2>1, <2>5 DEF Least
  <2>9. ASSUME NEW d \in Nat, c < d, Real(lp, d)
        PROVE  Real(lp, c) /\ Block(lp, c).end # lp.n
    <3>1. d * s \in Nat
      BY <2>5
    <3>2. d * s < lp.n
      BY <2>4, <2>9
    <3>3. c * s + s <= d * s
      BY <2>3, <2>9
    <3> QED BY <2>5, <3>1, <3>2, <3>3 DEF Least
  <2>10. Real(lp, c) /\ Block(lp, c).end # lp.n
           => Real(lp, c + 1) /\ Block(lp, c + 1).first = Block(lp, c).end
    BY <2>1, <2>4, <2>5, <2>6, <2>7 DEF Least
  <2>11. c = 0 => Block(lp, c).first = 0 /\ (lp.n > 0 => Real(lp, c))
    BY <2>5
  <2>12. \A d \in Nat : c <= d /\ Real(lp, d) => Real(lp, c)
    BY <2>9
  <2> QED BY <2>5, <2>8, <2>9, <2>10, <2>11, <2>12
<1> QED BY <1>1, <1>2

(* The blocks of one thread are N apart.                                   *)

LEMMA ForFacts ==
  ASSUME NEW t \in Ids
  PROVE  /\ IsFor(t, t) /\ \A c \in Nat : IsFor(c, t) => t <= c
         /\ \A c, d \in Nat : IsFor(c, t) /\ IsFor(d, t) /\ c < d => c + N <= d
         /\ \A c \in Nat : IsFor(c, t) => IsFor(c + 1, Wrap(t + 1)) /\ IsFor(c + N, t)
         /\ \A c \in Nat, u \in Ids : IsFor(c, t) /\ IsFor(c, u) => t = u
<1>1. t \in Nat /\ t < N /\ N \in Nat /\ N > 1
  BY IdFacts
<1>2. /\ 0 * N + t = t
      /\ \A a \in Nat : a * N \in Nat /\ (a + 1) * N = a * N + N
  BY <1>1
<1>3. \A a, b \in Nat : a < b => a * N + N <= b * N
  <2>1. \A a, b \in Nat : a < b => N * a + N <= N * b
    BY <1>1, Multiply
  <2>2. \A a \in Nat : N * a = a * N
    BY <1>1
  <2> QED BY <2>1, <2>2
<1>4. IsFor(t, t) /\ \A c \in Nat : IsFor(c, t) => t <= c
  BY <1>1, <1>2 DEF IsFor
<1>5. ASSUME NEW c \in Nat, NEW d \in Nat, IsFor(c, t), IsFor(d, t), c < d
      PROVE  c + N <= d
  <2>1. PICK a \in Nat : c = a * N + t
    BY <1>5 DEF IsFor
  <2>2. PICK b \in Nat : d = b * N + t
    BY <1>5 DEF IsFor
  <2>3. a * N \in Nat /\ b * N \in Nat
    BY <1>2
  <2>4. a < b
    <3>1. CASE b < a
      BY <3>1, <1>1, <1>3, <1>5, <2>1, <2>2, <2>3
    <3>2. CASE a = b
      BY <3>2, <1>5, <2>1, <2>2, <2>3
    <3> QED BY <3>1, <3>2
  <2> QED BY <1>1, <1>3, <2>1, <2>2, <2>3, <2>4
<1>6. ASSUME NEW c \in Nat, IsFor(c, t)
      PROVE  IsFor(c + 1, Wrap(t + 1)) /\ IsFor(c + N, t)
  <2>1. PICK a \in Nat : c = a * N + t
    BY <1>6 DEF IsFor
  <2>2. a * N \in Nat /\ (a + 1) * N = a * N + N /\ a + 1 \in Nat
    BY <1>2
  <2>3. c + N = (a + 1) * N + t
    BY <1>1, <2>1, <2>2
  <2>4. IsFor(c + N, t)
    BY <2>2, <2>3 DEF IsFor
  <2>5. CASE t + 1 >= N
    <3>1. c + 1 = (a + 1) * N + Wrap(t + 1)
      BY <1>1, <2>1, <2>2, <2>5 DEF Wrap
    <3> QED BY <2>2, <2>4, <3>1 DEF IsFor
  <2>6. CASE ~(t + 1 >= N)
    <3>1. c + 1 = a * N + Wrap(t + 1)
      BY <1>1, <2>1, <2>2, <2>6 DEF Wrap
    <3> QED BY <2>4, <3>1 DEF IsFor
  <2> QED BY <2>5, <2>6
<1>7. ASSUME NEW c \in Nat, NEW u \in Ids, IsFor(c, t), IsFor(c, u)
      PROVE  t = u
  <2>1. PICK a \in Nat : c = a * N + t
    BY <1>7 DEF IsFor
  <2>2. PICK b \in Nat : c = b * N + u
    BY <1>7 DEF IsFor
  <2>3. a * N \in Nat /\ b * N \in Nat /\ u \in Nat /\ u < N
    BY <1>2, IdFacts
  <2>4. CASE a < b
    BY <2>4, <1>1, <1>3, <2>1, <2>2, <2>3
  <2>5. CASE b < a
    BY <2>5, <1>1, <1>3, <2>1, <2>2, <2>3
  <2>6. CASE a = b
    BY <2>6, <1>1, <2>1, <2>2, <2>3
  <2> QED BY <2>4, <2>5, <2>6
<1> QED BY <1>4, <1>5, <1>6, <1>7

(* What gomp_iter_static_next gives thread t on a trip.                    *)
LEMMA TripBlock ==
  ASSUME NEW lp, lp.n \in Nat, lp.chunk \in Nat, NEW t \in Ids, NEW tr \in Nat
  PROVE  /\ tr * N + t \in Nat
         /\ HasStaticBlock(lp, tr, t) <=> Real(lp, tr * N + t)
         /\ HasStaticBlock(lp, tr, t) => StaticBlock(lp, tr, t) = Block(lp, tr * N + t)
<1>1. t \in Nat /\ t < N /\ N \in Nat /\ tr * N \in Nat
  BY IdFacts
<1>2. tr = 0 => tr * N = 0
  BY <1>1
<1>3. tr # 0 => N <= tr * N
  <2>1. SUFFICES ASSUME tr # 0 PROVE N <= tr * N
    OBVIOUS
  <2>2. N * (0 + 1) <= N * tr
    BY <1>1, <2>1, Multiply
  <2>3. N * tr = tr * N /\ N * (0 + 1) = N
    BY <1>1
  <2> QED BY <2>2, <2>3
<1>4. CASE lp.chunk = 0
  <2>1. /\ tr = 0 => tr * N + t = t
        /\ tr * N + t < N <=> tr = 0
    BY <1>1, <1>2, <1>3
  <2>2. CASE tr = 0
    <3>1. tr * N + t = t
      BY <2>1, <2>2
    <3> QED BY <1>1, <1>4, <2>2, <3>1 DEF HasStaticBlock, Real, Block
  <2>3. CASE tr # 0
    BY <1>1, <1>4, <2>1, <2>3 DEF HasStaticBlock, Real
  <2> QED BY <2>2, <2>3
<1>5. CASE lp.chunk # 0
  BY <1>1, <1>5 DEF HasStaticBlock, Real, Block, StaticBlock
<1> QED BY <1>4, <1>5

(* A dynamic or guided block is not empty and not too large.               *)
LEMMA SizeOfBlock ==
  ASSUME NEW lp, lp.chunk \in Nat \ {0}, NEW left \in Nat \ {0}
  PROVE  BlockSize(lp, left) \in 1 .. left
<1>1. left + N - 1 \in Nat
  BY IdFacts
<1>2. (left + N - 1) \div N \in Nat
  BY <1>1, DivMod
<1> QED BY <1>2 DEF BlockSize, Least, Greatest

-----------------------------------------------------------------------------
(* Where the turn of a loop is. *)

LEMMA QueueFacts ==
  ASSUME TypeOK, NEW k \in OrderedLoops
  PROVE  /\ k \in LoopIds /\ ws[k] \in WorkShares
         /\ Leader(k) \in Ids
         /\ ~Static(k) => Leader(k) = Queued(ws[k], 0)
         /\ \A j \in 0 .. N : Wrap(ws[k].cur + j) \in Ids /\ Queued(ws[k], j) \in Ids
<1>1. k \in LoopIds /\ ws[k] \in WorkShares
  BY DEF TypeOK, OrderedLoops
<1>2. ws[k].cur \in Ids /\ ws[k].ids \in [Ids -> Ids]
  BY <1>1 DEF WorkShares
<1>3. /\ \A j \in 0 .. N : Wrap(ws[k].cur + j) \in Ids
      /\ Wrap(ws[k].cur + 0) = ws[k].cur
  BY <1>2, WrapFacts
<1> QED BY <1>1, <1>2, <1>3, IdFacts DEF Leader, Queued

(* Where one thread has come to a static loop, all others are on the way.  *)
LEMMA Come ==
  ASSUME TypeOK, Barriers, StaticLoopsApart, NEW k \in OrderedLoops, Static(k),
         NEW u \in Ids, loop[u] >= k, NEW h \in Ids, loop[h] < k
  PROVE  Coming(h, k)
<1>1. loop[u] \in Nat /\ loop[h] \in Nat \ {0} /\ k \in Nat
  BY LoopFacts DEF TypeOK, OrderedLoops
<1>2. k > 1
  BY <1>1
<1>3. k - 1 \in LoopIds /\ ~program[k - 1].nowait
  BY <1>2, ApartFacts
<1>4. loop[u] > k - 1
  BY <1>1
<1>5. arrived[k - 1] = Ids
  BY <1>3, <1>4 DEF Barriers
<1>6. loop[h] > k - 1 \/ (loop[h] = k - 1 /\ pc[h] = "barrier")
  BY <1>3, <1>5 DEF Barriers
<1>7. ~(loop[h] > k - 1)
  BY <1>1
<1> QED BY <1>6, <1>7 DEF Coming

(* Its thread is in the loop, or will come to it.                          *)
LEMMA LeaderThere ==
  ASSUME TypeOK, Barriers, StaticLoopsApart, NEW k \in OrderedLoops, LoopInv(k), Active(k),
         ws[k].owner # Leader(k)
  PROVE  Holds(Leader(k), k) \/ (Static(k) /\ Coming(Leader(k), k))
<1> DEFINE h == Leader(k)
<1>1. h \in Ids /\ k \in LoopIds /\ ws[k] \in WorkShares
  BY QueueFacts
<1>2. CASE ~Static(k)
  <2>1. Queue(k) /\ ws[k].used > 0 /\ h = Queued(ws[k], 0)
    BY <1>2, QueueFacts DEF LoopInv, Active
  <2>2. ws[k].used \in Nat
    BY <1>1, IdFacts DEF WorkShares
  <2> QED BY <1>1, <2>1, <2>2 DEF Queue, QueueMembers
<1>3. CASE Static(k)
  <2>1. PICK m \in Nat : TurnOf(k, m)
    BY <1>3 DEF LoopInv, Blocks, Active
  <2>2. ~Ended(h, k)
    BY <1>1, <2>1 DEF TurnOf
  <2>3. loop[h] \in Nat /\ k \in Nat /\ pc[h] \in Places /\ Len(program) \in Nat
    BY <1>1, LoopFacts DEF TypeOK
  <2>4. ~(loop[h] > k)
    BY <2>2 DEF Ended
  <2>5. CASE loop[h] = k
    <3>1. pc[h] \notin {"end", "barrier"} \cup CrossPlaces
      BY <1>1, <2>2, <2>5 DEF Ended, TypeOK
    <3>2. pc[h] = "pass" => i[h] < iend[h]
      <4>1. SUFFICES ASSUME pc[h] = "pass" PROVE i[h] < iend[h]
        OBVIOUS
      <4>2. i[h] <= iend[h] /\ i[h] # iend[h]
        BY <1>1, <2>2, <2>5, <4>1 DEF Ended, LoopInv, Turn
      <4>3. i[h] \in Nat /\ iend[h] \in Nat
        BY <1>1, <2>5 DEF TypeOK
      <4> QED BY <4>2, <4>3
    <3>3. pc[h] # "done"
      BY <1>1, <2>5 DEF TypeOK
    <3> QED BY <1>3, <2>3, <2>5, <3>1, <3>2, <3>3 DEF Places, Holds, Coming
  <2>6. CASE loop[h] < k
    <3>1. ws[k].init
      BY <1>3 DEF Active
    <3>2. PICK u \in Ids : loop[u] > k \/ (loop[u] = k /\ pc[u] # "start")
      BY <1>1, <3>1 DEF Barriers
    <3>3. loop[u] >= k
      <4>1. loop[u] \in Nat
        BY LoopFacts DEF TypeOK
      <4> QED BY <2>3, <3>2, <4>1
    <3> QED BY <1>1, <1>3, <2>6, <3>3, Come
  <2> QED BY <2>3, <2>4, <2>5, <2>6
<1> QED BY <1>2, <1>3

Base == IInv /\ StaticLoopsApart

LEMMA PostedTo ==
  ASSUME Base, NEW k \in OrderedLoops, NEW t \in Ids, Posted(k, t)
  PROVE  \/ loop[t] = k /\ pc[t] \in {"body", "wait", "sync", "resync"}
         \/ Static(k) /\ Coming(t, k)
<1>1. Holds(t, k) \/ (Static(k) /\ Coming(t, k))
  BY LeaderThere DEF Base, IInv, Posted
<1>2. loop[t] = k => pc[t] \notin {"ordered", "next", "pass"}
  BY DEF Base, IInv, Posted, LoopInv, Turn, Locked
<1> QED BY <1>1, <1>2 DEF Holds, BlockPlaces

(* A thread that is at one loop, or comes to it, has no turn elsewhere.    *)
LEMMA NotElsewhere ==
  ASSUME Base, NEW k \in OrderedLoops, NEW l \in OrderedLoops, k # l, NEW t \in Ids,
         Coming(t, k) \/ (loop[t] = k /\ pc[t] # "barrier")
  PROVE  ~Posted(l, t)
<1>1. SUFFICES ASSUME Posted(l, t) PROVE FALSE
  OBVIOUS
<1>2. (loop[t] = l /\ pc[t] # "barrier") \/ (loop[t] = l - 1 /\ pc[t] = "barrier")
  BY <1>1, PostedTo DEF Coming
<1>3. k \in Nat /\ l \in Nat
  BY LoopFacts DEF Base, IInv, OrderedLoops
<1> QED BY <1>2, <1>3 DEF Coming

LEMMA PostedOnce ==
  ASSUME Base, NEW k \in OrderedLoops, NEW l \in OrderedLoops, k # l, NEW t \in Ids, Posted(k, t)
  PROVE  ~Posted(l, t)
<1>1. Coming(t, k) \/ (loop[t] = k /\ pc[t] # "barrier")
  BY PostedTo
<1> QED BY <1>1, NotElsewhere

-----------------------------------------------------------------------------
(* What a step leaves as it is. *)

Same(u) == /\ loop'[u] = loop[u] /\ pc'[u] = pc[u]
           /\ i'[u] = i[u] /\ iend'[u] = iend[u] /\ trip'[u] = trip[u]
           /\ next_id'[u] = next_id[u]

Idle(u, k) == loop[u] = k => pc[u] \in {"start", "end", "barrier"}

(* A loop is disturbed neither by what happens to its idle threads, nor by *)
(* iterations that end.                                                    *)
LEMMA LoopKept ==
  ASSUME TypeOK, NEW k \in OrderedLoops, LoopInv(k), program' = program, ws'[k] = ws[k],
         done[k] \subseteq done'[k],
         \A u \in Ids : \/ Same(u)
                        \/ /\ Idle(u, k) /\ Idle(u, k)'
                           /\ Static(k) /\ ws[k].init =>
                                /\ Coming(u, k)' => Coming(u, k)
                                /\ Ended(u, k)' => Ended(u, k)
  PROVE  LoopInv(k)'
<1>1. /\ Static(k)' <=> Static(k)
      /\ Leader(k)' = Leader(k)
      /\ Active(k)' <=> Active(k)
      /\ program'[k] = program[k]
  BY DEF Static, Leader, Active
<1>2. \A u \in Ids : /\ Holds(u, k)' <=> Holds(u, k)
                     /\ Holds(u, k) => Same(u)
                     /\ Holds(u, k) => (Within(u)' <=> Within(u))
  BY DEF Same, Idle, Holds, BlockPlaces, Within
<1>3. Turn(k)'
  <2>1. Turn(k)
    BY DEF LoopInv
  <2>2. \A u \in Ids : loop'[u] = k /\ pc'[u] \in {"pass", "ordered", "next", "wait", "resync"}
                         => Same(u)
    BY DEF Idle
  <2> QED BY <1>1, <2>1, <2>2 DEF Turn, Same
<1>4. CASE ~Static(k)
  <2> DEFINE w == ws[k]
  <2>1. Queue(k)
    BY <1>4 DEF LoopInv
  <2>2. \A u \in Ids : Holds(u, k) => i'[u] = i[u] /\ iend'[u] = iend[u]
    BY <1>2 DEF Same
  <2>3. \A j \in 0 .. w.used - 1 : Queued(w, j) \in Ids /\ Holds(Queued(w, j), k)
    <3>1. w.used \in 0 .. N
      BY QueueFacts DEF WorkShares
    <3> QED BY <2>1, <3>1, QueueFacts, IdFacts DEF Queue, QueueMembers
  <2>4. \A j \in 0 .. w.used - 1 : /\ i'[Queued(w, j)] = i[Queued(w, j)]
                                    /\ iend'[Queued(w, j)] = iend[Queued(w, j)]
    BY <2>2, <2>3
  <2>5. ws'[k] = w /\ \A j : Queued(ws'[k], j) = Queued(w, j) /\ Queued(ws[k], j)' = Queued(w, j)
    BY DEF Queued
  <2>6. w.used > 0 => w.used - 1 \in 0 .. w.used - 1
    <3>1. w.used \in 0 .. N
      BY QueueFacts DEF WorkShares
    <3> QED BY <3>1, IdFacts
  <2> HIDE DEF w
  <2>7. QueueEnd(k)'
    BY <1>1, <2>1, <2>4, <2>5, <2>6 DEF Queue, QueueEnd, w
  <2>8. QueueMembers(k)'
    BY <1>2, <2>1, <2>5 DEF Queue, QueueMembers, w
  <2>9. QueueOrder(k)'
    BY <2>1, <2>4, <2>5 DEF Queue, QueueOrder, w
  <2>10. QueueRest(k)'
    BY <1>2, <2>1, <2>2, <2>5 DEF Queue, QueueRest, w
  <2> QED BY <1>1, <1>3, <1>4, <2>7, <2>8, <2>9, <2>10 DEF LoopInv, Queue
<1>5. CASE Static(k)
  <2>1. Blocks(k)
    BY <1>5 DEF LoopInv
  <2>2. CASE ~ws[k].init
    BY <1>1, <1>3, <1>5, <2>1, <2>2 DEF Blocks, LoopInv
  <2>3. CASE ws[k].init
    <3>1. PICK m \in Nat : TurnOf(k, m)
      BY <2>1, <2>3 DEF Blocks
    <3>2. \A u \in Ids : /\ Coming(u, k)' => Coming(u, k)
                         /\ Ended(u, k)' => Ended(u, k)
      BY <1>5, <2>3 DEF Same, Coming, Ended
    <3>3. ASSUME NEW u \in Ids, NEW c \in Nat, Holds(u, k), In(u, k, c)
          PROVE  In(u, k, c)'
      <4>1. i'[u] = i[u] /\ iend'[u] = iend[u] /\ trip'[u] = trip[u]
        BY <1>2, <3>3 DEF Same
      <4> QED BY <1>1, <3>3, <4>1 DEF In, Real, Block, StaticBlock, Least
    <3>4. TurnOf(k, m)'
      BY <1>1, <1>2, <3>1, <3>2, <3>3 DEF TurnOf, Real, Block, StaticBlock, Least, IsFor
    <3> QED BY <1>1, <1>3, <1>5, <2>3, <3>4 DEF Blocks, LoopInv
  <2> QED BY <2>2, <2>3
<1> QED BY <1>4, <1>5

LEMMA PostedKept ==
  ASSUME NEW k \in OrderedLoops, program' = program, ws'[k] = ws[k],
         \A u \in Ids : loop'[u] = k /\ pc'[u] = "pass" <=> loop[u] = k /\ pc[u] = "pass"
  PROVE  \A u \in Ids : Posted(k, u)' <=> Posted(k, u)
  BY DEF Posted, Active, Leader, Locked, Static

(* If the turn of loop k only moves, the semaphores stay right.            *)
LEMMA ReleasesKept ==
  ASSUME Base, program' = program, NEW k \in OrderedLoops,
         \A l \in OrderedLoops, u \in Ids : l # k => (Posted(l, u)' <=> Posted(l, u)),
         \A u \in Ids :
           /\ release'[u] = release[u] - (IF Posted(k, u) THEN 1 ELSE 0)
                                       + (IF Posted(k, u)' THEN 1 ELSE 0)
           /\ Posted(k, u)' =>
                \/ Posted(k, u)
                \/ Coming(u, k) \/ (loop[u] = k /\ pc[u] # "barrier")
  PROVE  Releases'
<1>1. OrderedLoops' = OrderedLoops
  BY ProgramKept
<1>2. SUFFICES ASSUME NEW u \in Ids
               PROVE  release'[u] = IF \E l \in OrderedLoops : Posted(l, u)' THEN 1 ELSE 0
  BY <1>1 DEF Releases
<1>3. Releases
  BY DEF Base, IInv
<1>4. CASE Posted(k, u)
  <2>1. release[u] = 1
    BY <1>3, <1>4 DEF Releases
  <2>2. \A l \in OrderedLoops : l # k => ~Posted(l, u)'
    BY <1>4, PostedOnce
  <2> QED BY <1>4, <2>1, <2>2
<1>5. CASE ~Posted(k, u) /\ Posted(k, u)'
  <2>1. \A l \in OrderedLoops : l # k => ~Posted(l, u)
    BY <1>5, NotElsewhere
  <2>2. release[u] = 0
    BY <1>3, <1>5, <2>1 DEF Releases
  <2> QED BY <1>5, <2>2
<1>6. CASE ~Posted(k, u) /\ ~Posted(k, u)'
  <2>1. (\E l \in OrderedLoops : Posted(l, u)') <=> \E l \in OrderedLoops : Posted(l, u)
    BY <1>6
  <2>2. release[u] \in Nat
    BY DEF Base, IInv, TypeOK
  <2> QED BY <1>3, <1>6, <2>1, <2>2 DEF Releases
<1> QED BY <1>4, <1>5, <1>6

(* The same where no turn moves. *)
LEMMA ReleasesSame ==
  ASSUME Base, program' = program, release' = release,
         \A k \in OrderedLoops, u \in Ids : Posted(k, u)' <=> Posted(k, u)
  PROVE  Releases'
<1>1. OrderedLoops' = OrderedLoops
  BY ProgramKept
<1> QED BY <1>1 DEF Base, IInv, Releases

-----------------------------------------------------------------------------
(* The steps of a thread within an ordered loop. *)

LEMMA BarriersKept ==
  ASSUME TypeOK, Barriers, UNCHANGED <<program, loop, arrived>>, NEW t \in Ids,
         pc[t] # "barrier", pc'[t] \notin {"start", "barrier"},
         \A u \in Ids : u # t => pc'[u] = pc[u],
         \A k \in OrderedLoops : ws'[k].init <=> ws[k].init \/ loop[t] = k
  PROVE  Barriers'
<1>1. LoopIds' = LoopIds /\ OrderedLoops' = OrderedLoops
  BY ProgramKept
<1>2. \A u \in Ids : pc'[u] = "barrier" <=> pc[u] = "barrier"
  OBVIOUS
<1>3. ASSUME NEW k \in LoopIds, ~program[k].nowait
      PROVE  /\ \A u \in Ids : u \in arrived[k] <=> loop[u] > k \/ (loop[u] = k /\ pc'[u] = "barrier")
             /\ \A u \in Ids : loop[u] > k => arrived[k] = Ids
  BY <1>2, <1>3 DEF Barriers
<1>4. ASSUME NEW k \in OrderedLoops
      PROVE  ws'[k].init <=> \E u \in Ids : loop[u] > k \/ (loop[u] = k /\ pc'[u] # "start")
  <2>1. k \in LoopIds
    BY DEF OrderedLoops
  <2>2. ws[k].init <=> \E u \in Ids : loop[u] > k \/ (loop[u] = k /\ pc[u] # "start")
    BY <2>1 DEF Barriers
  <2> QED BY <2>2
<1> QED BY <1>1, <1>3, <1>4 DEF Barriers

LEMMA InnerStep ==
  ASSUME Base, NEW t \in Ids, NEW k \in OrderedLoops, loop[t] = k, pc[t] # "barrier",
         UNCHANGED <<program, loop, arrived>>,
         ws' = [ws EXCEPT ![k] = ws'[k]], ws'[k] \in WorkShares, ws'[k].init,
         pc' = [pc EXCEPT ![t] = pc'[t]], pc'[t] \in BlockPlaces \cup {"pass", "end"},
         i' = [i EXCEPT ![t] = i'[t]], i'[t] \in Nat,
         iend' = [iend EXCEPT ![t] = iend'[t]], iend'[t] \in Nat,
         trip' = [trip EXCEPT ![t] = trip'[t]], trip'[t] \in Int,
         next_id' = [next_id EXCEPT ![t] = next_id'[t]], next_id'[t] \in Ids \cup {Nobody},
         done' = [done EXCEPT ![k] = done'[k]], done[k] \subseteq done'[k],
         release' \in [Ids -> Nat],
         LoopInv(k)', Releases'
  PROVE  IInv'
<1>0. TypeOK /\ Barriers /\ k \in LoopIds
  BY DEF Base, IInv, OrderedLoops
<1>1. LoopIds' = LoopIds /\ OrderedLoops' = OrderedLoops
  BY ProgramKept
<1>2. /\ \A u \in Ids : u # t => Same(u)
      /\ \A l \in LoopIds : l # k => ws'[l] = ws[l] /\ done'[l] = done[l]
  BY <1>0 DEF TypeOK, Same
<1>3. TypeOK'
  <2>1. /\ ws' = [l \in LoopIds |-> ws'[l]] /\ done' = [l \in LoopIds |-> done'[l]]
        /\ i' = [u \in Ids |-> i'[u]] /\ iend' = [u \in Ids |-> iend'[u]]
        /\ trip' = [u \in Ids |-> trip'[u]]
    BY <1>0 DEF TypeOK
  <2>2. \A l \in OrderedLoops : ws'[l] \in WorkShares
    BY <1>0, <1>2 DEF TypeOK, OrderedLoops
  <2>3. \A u \in Ids : loop[u] \in OrderedLoops => i'[u] \in Nat /\ iend'[u] \in Nat /\ trip'[u] \in Int
    BY <1>0, <1>2 DEF TypeOK, Same
  <2>4. next_id' \in [Ids -> Ids \cup {Nobody}] /\ pc' \in [Ids -> Places]
    <3>1. pc \in [Ids -> Places] /\ pc'[t] \in Places
      BY <1>0 DEF TypeOK, Places
    <3>2. pc' \in [Ids -> Places]
      BY <3>1
    <3> QED BY <1>0, <3>2 DEF TypeOK
  <2>5. \A u \in Ids : /\ loop[u] \in LoopIds <=> pc'[u] # "done"
                       /\ pc'[u] \in BlockPlaces \cup {"pass"} => loop[u] \in OrderedLoops
                       /\ pc'[u] \in CrossPlaces => loop[u] \notin OrderedLoops
    <3>1. \A u \in Ids : /\ loop[u] \in LoopIds <=> pc[u] # "done"
                         /\ pc[u] \in BlockPlaces \cup {"pass"} => loop[u] \in OrderedLoops
                         /\ pc[u] \in CrossPlaces => loop[u] \notin OrderedLoops
      BY <1>0 DEF TypeOK
    <3>2. pc'[t] # "done" /\ pc'[t] \notin CrossPlaces
      BY DEF BlockPlaces, CrossPlaces
    <3> QED BY <1>0, <1>2, <3>1, <3>2 DEF Same
  <2>6. /\ program \in Programs /\ loop \in [Ids -> 1 .. Len(program) + 1]
        /\ arrived \in [LoopIds -> SUBSET Ids]
    BY <1>0 DEF TypeOK
  <2> QED BY <1>1, <2>1, <2>2, <2>3, <2>4, <2>5, <2>6 DEF TypeOK, WorkShares
<1>4. Barriers'
  <2>1. \A l \in OrderedLoops : ws'[l].init <=> ws[l].init \/ loop[t] = l
    BY <1>2 DEF OrderedLoops
  <2>2. pc'[t] \notin {"start", "barrier"}
    BY <1>2 DEF BlockPlaces
  <2> QED BY <1>0, <1>2, <2>1, <2>2, BarriersKept DEF Same
<1>5. ASSUME NEW l \in OrderedLoops, l # k
      PROVE  LoopInv(l)'
  <2>1. LoopInv(l) /\ l \in LoopIds
    BY DEF Base, IInv, OrderedLoops
  <2>2. ws'[l] = ws[l] /\ done[l] \subseteq done'[l]
    BY <1>2, <1>5, <2>1
  <2>3. /\ Idle(t, l) /\ Idle(t, l)'
        /\ Ended(t, l)' => Ended(t, l)
        /\ Coming(t, l)' => Coming(t, l)
    BY <1>2, <1>5 DEF Idle, Ended, Coming, BlockPlaces
  <2> QED BY <1>0, <1>2, <2>1, <2>2, <2>3, LoopKept
<1> QED BY <1>1, <1>3, <1>4, <1>5 DEF IInv

(* Where the turn of no other loop moves, and that of this one stays.      *)
LEMMA OthersPosted ==
  ASSUME Base, NEW t \in Ids, NEW k \in OrderedLoops, loop[t] = k,
         UNCHANGED <<program, loop>>,
         ws' = [ws EXCEPT ![k] = ws'[k]], pc' = [pc EXCEPT ![t] = pc'[t]]
  PROVE  \A l \in OrderedLoops, u \in Ids : l # k => (Posted(l, u)' <=> Posted(l, u))
<1>1. /\ \A u \in Ids : u # t => pc'[u] = pc[u]
      /\ \A l \in LoopIds : l # k => ws'[l] = ws[l]
  BY DEF Base, IInv, TypeOK
<1>2. ASSUME NEW l \in OrderedLoops, l # k
      PROVE  \A u \in Ids : Posted(l, u)' <=> Posted(l, u)
  BY <1>1, <1>2, PostedKept DEF OrderedLoops
<1> QED BY <1>2

-----------------------------------------------------------------------------

LEMMA EndIterationStep ==
  ASSUME Base, NEW t \in Ids, NEW k \in OrderedLoops, loop[t] = k, EndIteration(t)
  PROVE  IInv'
<1> DEFINE place == IF i[t] + 1 = iend[t] THEN "sync" ELSE "body"
<1>1. TypeOK /\ pc[t] \in {"body", "ordered"} /\ k \in LoopIds
  BY DEF Base, IInv, TypeOK, EndIteration, BlockPlaces, OrderedLoops
<1>2. LoopInv(k) /\ ws[k] \in WorkShares /\ ws[k].init
  <2>1. ws[k].init
    BY <1>1 DEF Base, IInv, Barriers
  <2> QED BY <1>1, <2>1 DEF Base, IInv, TypeOK
<1>3. /\ UNCHANGED <<program, ws, release, loop, iend, trip, next_id, arrived>>
      /\ i' = [i EXCEPT ![t] = i[t] + 1] /\ pc' = [pc EXCEPT ![t] = place]
      /\ done' = [done EXCEPT ![k] = done[k] \cup {i[t]}]
  BY DEF EndIteration, Goto
<1>4. /\ \A u \in Ids : pc'[u] = IF u = t THEN place ELSE pc[u]
      /\ \A u \in Ids : i'[u] = IF u = t THEN i[t] + 1 ELSE i[u]
      /\ done'[k] = done[k] \cup {i[t]}
      /\ place \in {"body", "sync"}
  BY <1>1, <1>3 DEF TypeOK
<1>5. /\ i[t] \in Nat /\ iend[t] \in Nat /\ i[t] < iend[t]
  <2>1. Holds(t, k)
    BY <1>1 DEF Holds, BlockPlaces
  <2>2. Within(t)
    BY <1>2, <2>1 DEF LoopInv, Queue, QueueMembers, Blocks, TurnOf
  <2> QED BY <1>1, <2>2 DEF TypeOK, Within
<1> HIDE DEF place
<1>6. /\ Static(k)' <=> Static(k)
      /\ Leader(k)' = Leader(k)
      /\ Active(k)' <=> Active(k)
  BY <1>3 DEF Static, Leader, Active
<1>7. /\ \A u \in Ids : Holds(u, k)' <=> Holds(u, k)
      /\ \A u \in Ids : Holds(u, k) /\ Within(u) => Within(u)'
      /\ \A u \in Ids : Coming(u, k)' <=> Coming(u, k)
      /\ \A u \in Ids : Ended(u, k)' <=> Ended(u, k)
  BY <1>1, <1>3, <1>4, <1>5 DEF Holds, Within, Coming, Ended, BlockPlaces, place
<1>8. Turn(k)'
  BY <1>1, <1>2, <1>3, <1>4, <1>6 DEF LoopInv, Turn
<1>9. ASSUME ~Static(k)
      PROVE  Queue(k)'
  <2> DEFINE w == ws[k]
  <2>1. Queue(k) /\ ws'[k] = w
    BY <1>2, <1>3, <1>9 DEF LoopInv
  <2>2. \A j \in 0 .. w.used - 1 : Queued(w, j) \in Ids /\ Holds(Queued(w, j), k)
    <3>1. w.used \in 0 .. N
      BY <1>2 DEF WorkShares
    <3> QED BY <1>1, <2>1, <3>1, QueueFacts, IdFacts DEF Queue, QueueMembers
  <2>3. \A u \in Ids : Holds(u, k) => i[u] \in Nat /\ iend[u] \in Nat
    BY <1>1 DEF TypeOK, Holds
  <2>4. \A j : Queued(w, j)' = Queued(w, j)
    BY <1>3 DEF Queued
  <2>5. QueueEnd(k)' /\ QueueMembers(k)'
    BY <1>3, <1>7, <2>1, <2>4 DEF Queue, QueueEnd, QueueMembers
  <2>6. QueueOrder(k)'
    BY <1>3, <1>4, <1>5, <2>1, <2>2, <2>3, <2>4 DEF Queue, QueueOrder
  <2>7. QueueRest(k)'
    BY <1>3, <1>4, <1>5, <1>7, <2>1, <2>3 DEF Queue, QueueRest
  <2> QED BY <2>5, <2>6, <2>7 DEF Queue
<1>10. ASSUME Static(k)
       PROVE  Blocks(k)'
  <2>1. PICK m \in Nat : TurnOf(k, m)
    BY <1>2, <1>10 DEF LoopInv, Blocks
  <2>2. ASSUME NEW u \in Ids, NEW c \in Nat, Holds(u, k), In(u, k, c)
        PROVE  In(u, k, c)'
    <3>1. Block(program[k], c).first \in Nat /\ i[u] \in Nat
      BY <1>1, <2>2, BlockFacts, LoopFacts DEF TypeOK, Holds
    <3>2. Block(program[k], c).first .. i'[u] - 1 \subseteq done'[k]
      BY <1>4, <2>2, <3>1 DEF In
    <3>3. i'[u] >= i[u] /\ i'[u] \in Nat
      BY <1>4, <1>5, <3>1
    <3>4. Block(program[k], c).first <= i'[u]
      BY <2>2, <3>1, <3>3 DEF In
    <3> HIDE <1>4
    <3> QED BY <1>3, <2>2, <3>2, <3>4 DEF In, Real, Block, StaticBlock, Least
  <2>3. TurnOf(k, m)'
    BY <1>3, <1>4, <1>6, <1>7, <2>1, <2>2 DEF TurnOf, Real, Block, StaticBlock, Least, IsFor
  <2> QED BY <1>2, <1>3, <2>3 DEF Blocks
<1>11. LoopInv(k)'
  BY <1>6, <1>8, <1>9, <1>10 DEF LoopInv
<1>12. Releases'
  <2>1. \A l \in OrderedLoops, u \in Ids : Posted(l, u)' <=> Posted(l, u)
    BY <1>1, <1>3, <1>4, PostedKept
  <2> QED BY <1>3, <2>1, ReleasesSame
<1>13. /\ ws' = [ws EXCEPT ![k] = ws'[k]] /\ pc' = [pc EXCEPT ![t] = pc'[t]]
       /\ i' = [i EXCEPT ![t] = i'[t]] /\ iend' = [iend EXCEPT ![t] = iend'[t]]
       /\ trip' = [trip EXCEPT ![t] = trip'[t]]
       /\ next_id' = [next_id EXCEPT ![t] = next_id'[t]]
       /\ done' = [done EXCEPT ![k] = done'[k]]
  BY <1>1, <1>3 DEF TypeOK
<1>14. /\ ws'[k] \in WorkShares /\ ws'[k].init
       /\ pc'[t] \in BlockPlaces \cup {"pass", "end"}
       /\ i'[t] \in Nat /\ iend'[t] \in Nat /\ trip'[t] \in Int
       /\ next_id'[t] \in Ids \cup {Nobody} /\ done[k] \subseteq done'[k]
       /\ release' \in [Ids -> Nat] /\ pc[t] # "barrier"
  BY <1>1, <1>2, <1>3, <1>4, <1>5 DEF TypeOK, BlockPlaces
<1>15. UNCHANGED <<program, loop, arrived>>
  BY <1>3
<1> QED BY <1>11, <1>12, <1>13, <1>14, <1>15, InnerStep

-----------------------------------------------------------------------------
(* A step by which no block changes hands. *)

LEMMA QueueSame ==
  ASSUME NEW k \in OrderedLoops, Queue(k), UNCHANGED <<program, i, iend, done>>,
         ws'[k].next = ws[k].next, ws'[k].used = ws[k].used,
         ws'[k].cur = ws[k].cur, ws'[k].ids = ws[k].ids,
         \A u \in Ids : /\ Holds(u, k)' <=> Holds(u, k)
                        /\ Holds(u, k) /\ Within(u) => Within(u)'
  PROVE  Queue(k)'
<1> DEFINE w == ws'[k]
<1>1. \A j : Queued(w, j) = Queued(ws[k], j)
  BY DEF Queued
<1>2. w.next = ws[k].next /\ w.used = ws[k].used
  OBVIOUS
<1> HIDE DEF w
<1>3. QueueEnd(k)'
  BY <1>1, <1>2 DEF Queue, QueueEnd, w
<1>4. QueueMembers(k)'
  BY <1>1, <1>2 DEF Queue, QueueMembers, w
<1>5. QueueOrder(k)'
  BY <1>1, <1>2 DEF Queue, QueueOrder, w
<1>6. QueueRest(k)'
  BY <1>2 DEF Queue, QueueRest, w
<1> QED BY <1>3, <1>4, <1>5, <1>6 DEF Queue

LEMMA HandsKept ==
  ASSUME TypeOK, NEW k \in OrderedLoops, LoopInv(k),
         UNCHANGED <<program, loop, i, iend, trip, done>>,
         ws[k].init, NEW o \in Ids \cup {Nobody}, ws'[k] = [ws[k] EXCEPT !.owner = o],
         \A u \in Ids : /\ Holds(u, k)' <=> Holds(u, k)
                        /\ Holds(u, k) /\ Within(u) => Within(u)'
                        /\ Coming(u, k)' <=> Coming(u, k)
                        /\ Ended(u, k)' <=> Ended(u, k)
                        /\ Ended(u, k) /\ ws[k].owner = u => o = u
  PROVE  IF Static(k)' THEN Blocks(k)' ELSE Queue(k)'
<1> DEFINE w == ws'[k]
<1>1. ws[k] \in WorkShares
  BY QueueFacts
<1>2. /\ Static(k)' <=> Static(k)
      /\ w.init = ws[k].init /\ w.next = ws[k].next /\ w.cur = ws[k].cur
      /\ w.used = ws[k].used /\ w.ids = ws[k].ids /\ w.owner = o
  BY <1>1 DEF Static, WorkShares
<1>3. Leader(k)' = Leader(k)
  BY <1>2 DEF Leader
<1> HIDE DEF w
<1>4. CASE ~Static(k)
  <2>1. Queue(k)
    BY <1>4 DEF LoopInv
  <2>2. Queue(k)'
    BY <1>2, <2>1, QueueSame DEF w
  <2> QED BY <1>2, <1>4, <2>2
<1>5. CASE Static(k)
  <2>1. Blocks(k)
    BY <1>5 DEF LoopInv
  <2>2. PICK m \in Nat : TurnOf(k, m)
    BY <2>1 DEF Blocks
  <2>3. ASSUME NEW u \in Ids, NEW c \in Nat
        PROVE  In(u, k, c)' <=> In(u, k, c)
    BY DEF In, Real, Block, StaticBlock, Least
  <2>4. TurnOf(k, m)'
    BY <1>2, <1>3, <2>2, <2>3 DEF TurnOf, Real, Block, StaticBlock, Least, IsFor, w
  <2> QED BY <1>2, <1>5, <2>4 DEF Blocks, w
<1> QED BY <1>4, <1>5

LEMMA Here ==
  ASSUME Base, NEW t \in Ids, NEW k \in OrderedLoops, loop[t] = k
  PROVE  /\ TypeOK /\ k \in LoopIds /\ ws[k] \in WorkShares /\ LoopInv(k)
         /\ i[t] \in Nat /\ iend[t] \in Nat /\ trip[t] \in Int
         /\ next_id[t] \in Ids \cup {Nobody} /\ release \in [Ids -> Nat]
         /\ pc[t] # "start" => ws[k].init
         /\ Holds(t, k) => Within(t)
         /\ ws = [ws EXCEPT ![k] = ws[k]] /\ pc = [pc EXCEPT ![t] = pc[t]]
         /\ i = [i EXCEPT ![t] = i[t]] /\ iend = [iend EXCEPT ![t] = iend[t]]
         /\ trip = [trip EXCEPT ![t] = trip[t]] /\ next_id = [next_id EXCEPT ![t] = next_id[t]]
         /\ done = [done EXCEPT ![k] = done[k]]
<1>1. TypeOK /\ k \in LoopIds
  BY DEF Base, IInv, OrderedLoops
<1>2. ws[k] \in WorkShares /\ LoopInv(k)
  BY <1>1 DEF Base, IInv, TypeOK
<1>3. pc[t] # "start" => ws[k].init
  BY <1>1 DEF Base, IInv, Barriers
<1>4. Holds(t, k) => Within(t)
  BY <1>1, <1>2, <1>3 DEF Holds, BlockPlaces, LoopInv, Queue, QueueMembers, Blocks, TurnOf
<1> QED BY <1>1, <1>2, <1>3, <1>4 DEF TypeOK

LEMMA SyncStep ==
  ASSUME Base, NEW t \in Ids, NEW k \in OrderedLoops, loop[t] = k, Sync(t)
  PROVE  IInv'
<1>1. pc[t] \in {"body", "sync"} /\ pc[t] # "start"
  BY DEF Sync
<1>2. /\ TypeOK /\ k \in LoopIds /\ ws[k] \in WorkShares /\ ws[k].init /\ LoopInv(k)
      /\ pc \in [Ids -> Places]
  BY <1>1, Here DEF TypeOK
<1>3. /\ UNCHANGED <<program, ws, release, loop, i, iend, trip, next_id, arrived, done>>
      /\ pc' = [pc EXCEPT ![t] = CASE pc[t] = "body" -> IF ws[k].owner = t THEN "ordered" ELSE "wait"
                                   [] pc[t] = "sync" -> IF ws[k].owner = t THEN "next" ELSE "resync"]
  BY DEF Sync, Goto, Ws, blockVars
<1>4. /\ \A u \in Ids : u # t => pc'[u] = pc[u]
      /\ pc[t] = "body" => pc'[t] = IF ws[k].owner = t THEN "ordered" ELSE "wait"
      /\ pc[t] = "sync" => pc'[t] = IF ws[k].owner = t THEN "next" ELSE "resync"
      /\ pc' = [pc EXCEPT ![t] = pc'[t]]
  BY <1>1, <1>2, <1>3
<1>5. /\ \A u \in Ids : Holds(u, k)' <=> Holds(u, k)
      /\ \A u \in Ids : Holds(u, k) /\ Within(u) => Within(u)'
      /\ \A u \in Ids : Coming(u, k)' <=> Coming(u, k)
      /\ \A u \in Ids : Ended(u, k)' <=> Ended(u, k)
  BY <1>1, <1>3, <1>4 DEF Holds, Within, Coming, Ended, BlockPlaces
<1>6. Turn(k)'
  <2>1. /\ Leader(k)' = Leader(k)
        /\ Active(k)' <=> Active(k)
    BY <1>3 DEF Static, Leader, Active
  <2> QED BY <1>1, <1>2, <1>3, <1>4, <2>1 DEF LoopInv, Turn
<1>7. IF Static(k)' THEN Blocks(k)' ELSE Queue(k)'
  <2>1. ws'[k] = [ws[k] EXCEPT !.owner = ws[k].owner] /\ ws[k].owner \in Ids \cup {Nobody}
    BY <1>2, <1>3 DEF WorkShares
  <2> QED BY <1>2, <1>3, <1>5, <2>1, HandsKept
<1>8. Releases'
  <2>1. \A l \in OrderedLoops, u \in Ids : Posted(l, u)' <=> Posted(l, u)
    BY <1>1, <1>3, <1>4, PostedKept
  <2> QED BY <1>3, <2>1, ReleasesSame
<1>9. /\ ws' = [ws EXCEPT ![k] = ws'[k]]
      /\ i' = [i EXCEPT ![t] = i'[t]] /\ iend' = [iend EXCEPT ![t] = iend'[t]]
      /\ trip' = [trip EXCEPT ![t] = trip'[t]]
      /\ next_id' = [next_id EXCEPT ![t] = next_id'[t]]
      /\ done' = [done EXCEPT ![k] = done'[k]]
  BY <1>1, <1>3, Here
<1>10. /\ ws'[k] \in WorkShares /\ ws'[k].init
       /\ i'[t] \in Nat /\ iend'[t] \in Nat /\ trip'[t] \in Int
       /\ next_id'[t] \in Ids \cup {Nobody} /\ done[k] \subseteq done'[k]
       /\ release' \in [Ids -> Nat]
  BY <1>1, <1>3, Here
<1>11. pc'[t] \in BlockPlaces \cup {"pass", "end"} /\ pc[t] # "barrier"
  BY <1>1, <1>4 DEF BlockPlaces
<1>12. LoopInv(k)' /\ UNCHANGED <<program, loop, arrived>>
  BY <1>3, <1>6, <1>7 DEF LoopInv
<1> QED BY <1>4, <1>8, <1>9, <1>10, <1>11, <1>12, InnerStep

(* A turn that changes hands leaves the rest of the work share. *)
LEMMA OwnerSet ==
  ASSUME NEW w \in WorkShares, NEW o \in Ids \cup {Nobody}
  PROVE  LET v == [w EXCEPT !.owner = o] IN
         /\ v \in WorkShares /\ v.owner = o /\ v.ids = w.ids /\ v.cur = w.cur
         /\ v.used = w.used /\ v.next = w.next /\ v.init = w.init
  BY DEF WorkShares

LEMMA SemWaitStep ==
  ASSUME Base, NEW t \in Ids, NEW k \in OrderedLoops, loop[t] = k, SemWait(t)
  PROVE  IInv'
<1>1. pc[t] \in {"wait", "resync"} /\ pc[t] # "start"
  BY DEF SemWait
<1>2. /\ TypeOK /\ k \in LoopIds /\ ws[k] \in WorkShares /\ ws[k].init /\ LoopInv(k)
      /\ pc \in [Ids -> Places] /\ release \in [Ids -> Nat]
  BY <1>1, Here DEF TypeOK
<1>3. /\ UNCHANGED <<program, loop, i, iend, trip, next_id, arrived, done>>
      /\ release[t] > 0 /\ release' = [release EXCEPT ![t] = release[t] - 1]
      /\ ws' = [ws EXCEPT ![k] = [ws[k] EXCEPT !.owner = t]]
      /\ pc' = [pc EXCEPT ![t] = IF pc[t] = "wait" THEN "ordered" ELSE "next"]
  BY DEF SemWait, Goto, Ws, SetWs, blockVars
<1>4. /\ \A u \in Ids : u # t => pc'[u] = pc[u]
      /\ pc[t] = "wait" => pc'[t] = "ordered"
      /\ pc[t] = "resync" => pc'[t] = "next"
      /\ pc' = [pc EXCEPT ![t] = pc'[t]]
      /\ ws'[k] = [ws[k] EXCEPT !.owner = t] /\ ws' = [ws EXCEPT ![k] = ws'[k]]
      /\ ws'[k].owner = t
  <2>1. /\ \A u \in Ids : u # t => pc'[u] = pc[u]
        /\ pc[t] = "wait" => pc'[t] = "ordered"
        /\ pc[t] = "resync" => pc'[t] = "next"
        /\ pc' = [pc EXCEPT ![t] = pc'[t]]
    BY <1>1, <1>2, <1>3
  <2>2. ws'[k] = [ws[k] EXCEPT !.owner = t]
    BY <1>2, <1>3 DEF TypeOK
  <2>3. ws'[k].owner = t
    <3>1. ws[k] \in WorkShares
      BY <1>2
    <3>2. t \in Ids \cup {Nobody}
      OBVIOUS
    <3> QED BY <2>2, <3>1, <3>2, OwnerSet
  <2> QED BY <1>3, <2>1, <2>2, <2>3
<1>5. Posted(k, t)
  <2>1. PICK l \in OrderedLoops : Posted(l, t)
    BY <1>3 DEF Base, IInv, Releases
  <2> QED BY <1>1, <2>1, NotElsewhere
<1>6. ws[k].owner = Nobody /\ Leader(k) = t /\ Active(k) /\ ~Locked(k)
  BY <1>2, <1>5 DEF LoopInv, Turn, Posted
<1>7. /\ \A u \in Ids : Holds(u, k)' <=> Holds(u, k)
      /\ \A u \in Ids : Holds(u, k) /\ Within(u) => Within(u)'
      /\ \A u \in Ids : Coming(u, k)' <=> Coming(u, k)
      /\ \A u \in Ids : Ended(u, k)' <=> Ended(u, k)
  BY <1>1, <1>3, <1>4 DEF Holds, Within, Coming, Ended, BlockPlaces
<1>8. /\ Leader(k)' = t
      /\ Active(k)'
      /\ ~Locked(k)'
  <2>1. /\ ws'[k].ids = ws[k].ids /\ ws'[k].cur = ws[k].cur /\ ws'[k].used = ws[k].used
        /\ ws'[k].init = ws[k].init
    <3>1. ws[k] \in WorkShares /\ ws'[k] = [ws[k] EXCEPT !.owner = t]
      BY <1>2, <1>4
    <3>2. t \in Ids \cup {Nobody}
      OBVIOUS
    <3> QED BY <3>1, <3>2, OwnerSet
  <2>2. ~Locked(k)'
    BY <1>1, <1>3, <1>4, <1>6 DEF Locked
  <2> QED BY <1>3, <1>6, <2>1, <2>2 DEF Leader, Active, Static
<1>9. Turn(k)'
  <2>1. \A u \in Ids : loop[u] = k /\ pc[u] \in {"ordered", "next"} => ws[k].owner = u
    BY <1>2 DEF LoopInv, Turn
  <2>2. \A u \in Ids : loop[u] = k /\ u # t => pc[u] \notin {"ordered", "next"}
    BY <1>6, <2>1, IdFacts
  <2>3. \A u \in Ids : loop[u] = k => pc'[u] # "pass"
    BY <1>3, <1>8 DEF Locked
  <2> QED BY <1>1, <1>3, <1>4, <1>8, <2>2, <2>3 DEF Turn
<1>10. IF Static(k)' THEN Blocks(k)' ELSE Queue(k)'
  <2>1. \A u \in Ids : Ended(u, k) /\ ws[k].owner = u => t = u
    BY <1>6, IdFacts
  <2>2. t \in Ids \cup {Nobody} /\ UNCHANGED <<program, loop, i, iend, trip, done>>
    BY <1>3
  <2>3. ws'[k] = [ws[k] EXCEPT !.owner = t]
    BY <1>4
  <2> QED BY <1>2, <1>7, <2>1, <2>2, <2>3, HandsKept
<1>11. Releases'
  <2>1. \A l \in OrderedLoops, u \in Ids : l # k => (Posted(l, u)' <=> Posted(l, u))
    BY <1>3, <1>4, OthersPosted
  <2>2. \A u \in Ids : Posted(k, u) <=> u = t
    BY <1>5, <1>6 DEF Posted
  <2>3. \A u \in Ids : ~Posted(k, u)'
    BY <1>4, <1>8 DEF Posted
  <2>4. \A u \in Ids : release'[u] = release[u] - (IF u = t THEN 1 ELSE 0)
    BY <1>2, <1>3
  <2>5. \A u \in Ids : release'[u] = release[u] - (IF Posted(k, u) THEN 1 ELSE 0)
                                                + (IF Posted(k, u)' THEN 1 ELSE 0)
    <3>1. \A u \in Ids : release'[u] \in Int
      BY <1>2, <2>4
    <3> QED BY <1>2, <2>2, <2>3, <2>4, <3>1
  <2> QED BY <1>3, <2>1, <2>3, <2>5, ReleasesKept
<1>12. /\ i' = [i EXCEPT ![t] = i'[t]] /\ iend' = [iend EXCEPT ![t] = iend'[t]]
       /\ trip' = [trip EXCEPT ![t] = trip'[t]]
       /\ next_id' = [next_id EXCEPT ![t] = next_id'[t]]
       /\ done' = [done EXCEPT ![k] = done'[k]]
       /\ i'[t] \in Nat /\ iend'[t] \in Nat /\ trip'[t] \in Int
       /\ next_id'[t] \in Ids \cup {Nobody} /\ done[k] \subseteq done'[k]
  BY <1>1, <1>3, Here
<1>13. ws'[k] \in WorkShares /\ ws'[k].init
  BY <1>2, <1>4 DEF WorkShares
<1>14. /\ pc'[t] \in BlockPlaces \cup {"pass", "end"} /\ pc[t] # "barrier"
       /\ release' \in [Ids -> Nat]
  BY <1>1, <1>2, <1>3, <1>4 DEF BlockPlaces
<1>15. LoopInv(k)' /\ UNCHANGED <<program, loop, arrived>>
  BY <1>3, <1>9, <1>10 DEF LoopInv
<1> QED BY <1>4, <1>11, <1>12, <1>13, <1>14, <1>15, InnerStep

LEMMA PassStep ==
  ASSUME Base, NEW t \in Ids, NEW k \in OrderedLoops, loop[t] = k, Pass(t)
  PROVE  IInv'
<1>1. pc[t] = "pass" /\ pc[t] # "start"
  BY DEF Pass
<1>2. /\ TypeOK /\ k \in LoopIds /\ ws[k] \in WorkShares /\ ws[k].init /\ LoopInv(k)
      /\ pc \in [Ids -> Places] /\ release \in [Ids -> Nat] /\ next_id \in [Ids -> Ids \cup {Nobody}]
      /\ i[t] \in Nat /\ iend[t] \in Nat
  BY <1>1, Here DEF TypeOK
<1>3. /\ UNCHANGED <<program, ws, loop, i, iend, trip, arrived, done>>
      /\ release' = [release EXCEPT ![next_id[t]] = release[next_id[t]] + 1]
      /\ next_id' = [next_id EXCEPT ![t] = Nobody]
      /\ pc' = [pc EXCEPT ![t] = IF i[t] = iend[t] THEN "end" ELSE "body"]
  BY DEF Pass, Post, Goto, blockVars
<1>4. /\ \A u \in Ids : u # t => pc'[u] = pc[u]
      /\ i[t] = iend[t] => pc'[t] = "end"
      /\ i[t] # iend[t] => pc'[t] = "body"
      /\ pc' = [pc EXCEPT ![t] = pc'[t]]
      /\ \A u \in Ids : u # t => next_id'[u] = next_id[u]
      /\ next_id' = [next_id EXCEPT ![t] = next_id'[t]] /\ next_id'[t] = Nobody
  BY <1>1, <1>2, <1>3
<1>5. /\ Active(k) /\ ws[k].owner = Nobody /\ next_id[t] = Leader(k) /\ Leader(k) \in Ids
      /\ \A u \in Ids : loop[u] = k /\ pc[u] = "pass" => u = t
      /\ i[t] <= iend[t] /\ Locked(k)
  <2>1. Leader(k) \in Ids
    BY <1>2, QueueFacts
  <2> QED BY <1>1, <1>2, <2>1 DEF LoopInv, Turn, Locked
<1>6. /\ \A u \in Ids : Holds(u, k)' <=> Holds(u, k)
      /\ \A u \in Ids : Holds(u, k) /\ Within(u) => Within(u)'
      /\ \A u \in Ids : Coming(u, k)' <=> Coming(u, k)
      /\ \A u \in Ids : Ended(u, k)' <=> Ended(u, k)
  BY <1>1, <1>2, <1>3, <1>4, <1>5 DEF Holds, Within, Coming, Ended, BlockPlaces
<1>7. /\ Leader(k)' = Leader(k)
      /\ Active(k)'
      /\ ~Locked(k)'
      /\ ws'[k].owner = Nobody
  BY <1>1, <1>3, <1>4, <1>5 DEF Locked, Leader, Active, Static
<1>8. Turn(k)'
  <2>1. \A u \in Ids : loop[u] = k /\ pc[u] \in {"ordered", "next"} => ws[k].owner = u
    BY <1>2 DEF LoopInv, Turn
  <2>2. \A u \in Ids : loop[u] = k => pc[u] \notin {"ordered", "next"}
    BY <1>5, <2>1, IdFacts
  <2>3. \A u \in Ids : loop[u] = k => pc'[u] # "pass"
    BY <1>3, <1>7 DEF Locked
  <2> QED BY <1>1, <1>3, <1>4, <1>7, <2>2, <2>3, IdFacts DEF Turn
<1>9. IF Static(k)' THEN Blocks(k)' ELSE Queue(k)'
  <2>1. ws'[k] = [ws[k] EXCEPT !.owner = Nobody] /\ Nobody \in Ids \cup {Nobody}
    BY <1>2, <1>3, <1>5 DEF WorkShares
  <2> QED BY <1>2, <1>3, <1>5, <1>6, <2>1, HandsKept
<1>10. Releases'
  <2>1. \A l \in OrderedLoops, u \in Ids : l # k => (Posted(l, u)' <=> Posted(l, u))
    <3>1. ws' = [ws EXCEPT ![k] = ws'[k]]
      BY <1>1, <1>3, Here
    <3> QED BY <1>3, <1>4, <3>1, OthersPosted
  <2>2. \A u \in Ids : ~Posted(k, u)
    BY <1>5 DEF Posted
  <2>3. \A u \in Ids : Posted(k, u)' <=> u = Leader(k)
    BY <1>7, IdFacts DEF Posted
  <2>4. \A u \in Ids : release'[u] = release[u] + (IF u = Leader(k) THEN 1 ELSE 0)
    BY <1>2, <1>3, <1>5
  <2>5. \A u \in Ids : release'[u] = release[u] - (IF Posted(k, u) THEN 1 ELSE 0)
                                                + (IF Posted(k, u)' THEN 1 ELSE 0)
    BY <1>2, <2>2, <2>3, <2>4
  <2>6. ASSUME NEW u \in Ids, Posted(k, u)'
        PROVE  Posted(k, u) \/ Coming(u, k) \/ (loop[u] = k /\ pc[u] # "barrier")
    <3>1. u = Leader(k) /\ ws[k].owner # Leader(k)
      BY <1>5, <2>3, <2>6, IdFacts
    <3>2. Holds(u, k) \/ Coming(u, k)
      BY <1>2, <1>5, <3>1, LeaderThere DEF Base, IInv
    <3> QED BY <3>2 DEF Holds, BlockPlaces
  <2> QED BY <1>3, <2>1, <2>5, <2>6, ReleasesKept
<1>11. /\ ws' = [ws EXCEPT ![k] = ws'[k]]
       /\ i' = [i EXCEPT ![t] = i'[t]] /\ iend' = [iend EXCEPT ![t] = iend'[t]]
       /\ trip' = [trip EXCEPT ![t] = trip'[t]]
       /\ done' = [done EXCEPT ![k] = done'[k]]
       /\ ws'[k] \in WorkShares /\ ws'[k].init
       /\ i'[t] \in Nat /\ iend'[t] \in Nat /\ trip'[t] \in Int /\ done[k] \subseteq done'[k]
  BY <1>1, <1>3, Here
<1>12. /\ pc'[t] \in BlockPlaces \cup {"pass", "end"} /\ pc[t] # "barrier"
       /\ release' \in [Ids -> Nat] /\ next_id'[t] \in Ids \cup {Nobody}
  BY <1>1, <1>2, <1>3, <1>4, <1>5 DEF BlockPlaces
<1>13. LoopInv(k)' /\ UNCHANGED <<program, loop, arrived>>
  BY <1>3, <1>8, <1>9 DEF LoopInv
<1> QED BY <1>4, <1>10, <1>11, <1>12, <1>13, InnerStep

-----------------------------------------------------------------------------
(* The thread whose turn it is passes a static loop on. *)

LEMMA AtTurn ==
  ASSUME Base, NEW t \in Ids, NEW k \in OrderedLoops, loop[t] = k, pc[t] = "next"
  PROVE  /\ ws[k].owner = t /\ Leader(k) = t /\ Active(k)
         /\ \A u \in Ids : ~Posted(k, u)
         /\ \A u \in Ids : u # t /\ loop[u] = k => pc[u] \notin {"ordered", "next"}
         /\ Holds(t, k) /\ i[t] = iend[t]
<1>1. LoopInv(k) /\ TypeOK
  BY Here
<1>2. /\ ws[k].owner = t
      /\ \A u \in Ids : loop[u] = k /\ pc[u] \in {"ordered", "next"} => ws[k].owner = u
  BY <1>1 DEF LoopInv, Turn
<1>3. Leader(k) = t /\ Active(k)
  BY <1>1, <1>2, IdFacts DEF LoopInv, Turn
<1>4. Holds(t, k)
  BY DEF Holds, BlockPlaces
<1>5. i[t] = iend[t]
  BY <1>4, Here DEF Within
<1> QED BY <1>2, <1>3, <1>4, <1>5 DEF Posted

LEMMA TurnPassed ==
  ASSUME Base, NEW t \in Ids, NEW k \in OrderedLoops, loop[t] = k, pc[t] = "next", ~Locked(k),
         UNCHANGED <<program, loop, release>>, \A u \in Ids : u # t => Same(u),
         ws' = [ws EXCEPT ![k] = ws'[k]], ws'[k].owner = Nobody, Active(k)',
         pc' = [pc EXCEPT ![t] = pc'[t]], pc'[t] = "pass",
         next_id'[t] = Leader(k)', i'[t] <= iend'[t]
  PROVE  Turn(k)' /\ Releases'
<1>1. Turn(k)'
  <2>1. \A u \in Ids : u # t /\ loop[u] = k => pc'[u] \notin {"ordered", "next", "pass"}
    BY AtTurn DEF Locked, Same
  <2> QED BY <2>1, IdFacts DEF Turn
<1>2. Releases'
  <2>1. \A u \in Ids : ~Posted(k, u) /\ ~Posted(k, u)'
    BY AtTurn DEF Posted, Locked
  <2>2. \A l \in OrderedLoops, u \in Ids : l # k => (Posted(l, u)' <=> Posted(l, u))
    BY OthersPosted
  <2>3. \A l \in OrderedLoops, u \in Ids : Posted(l, u)' <=> Posted(l, u)
    BY <2>1, <2>2
  <2> QED BY <2>3, ReleasesSame
<1> QED BY <1>1, <1>2

LEMMA BlockOver ==
  ASSUME Base, NEW t \in Ids, NEW k \in OrderedLoops, loop[t] = k, pc[t] = "next", Static(k)
  PROVE  \E m \in Nat : /\ TurnOf(k, m) /\ In(t, k, m)
                        /\ 0 .. Block(program[k], m).end - 1 \subseteq done[k]
<1> DEFINE lp == program[k]
<1>1. /\ LoopInv(k) /\ TypeOK /\ ws[k].init /\ k \in LoopIds
      /\ i[t] \in Nat
  BY Here
<1>2. PICK m \in Nat : TurnOf(k, m)
  BY <1>1 DEF LoopInv, Blocks
<1>3. PICK c \in Nat : m <= c /\ c < m + N /\ In(t, k, c)
  BY <1>2, AtTurn DEF TurnOf
<1>4. IsFor(m, t) /\ IsFor(c, t)
  BY <1>2, <1>3, AtTurn DEF TurnOf, In, IsFor
<1>5. c = m
  <2>1. m < c => m + N <= c
    BY <1>4, ForFacts
  <2> QED BY <1>3, <2>1, IdFacts
<1>6. In(t, k, m)
  BY <1>3, <1>5
<1>7. /\ 0 .. Block(lp, m).first - 1 \subseteq done[k]
      /\ Block(lp, m).first .. Block(lp, m).end - 1 \subseteq done[k]
  BY <1>2, <1>6, AtTurn DEF TurnOf, In
<1>8. Block(lp, m).first \in Nat /\ Block(lp, m).end \in Nat
  BY <1>1, LoopFacts, BlockFacts
<1>9. 0 .. Block(lp, m).end - 1 \subseteq done[k]
  BY <1>7, <1>8
<1> QED BY <1>2, <1>6, <1>9

LEMMA LastStatic ==
  ASSUME Base, NEW t \in Ids, NEW k \in OrderedLoops, loop[t] = k, NextStatic(t), trip[t] = -1
  PROVE  IInv'
<1>1. pc[t] = "next" /\ Static(k) /\ ~Locked(k)
  BY DEF NextStatic, Loop, Static
<1>2. /\ TypeOK /\ k \in LoopIds /\ ws[k] \in WorkShares /\ ws[k].init /\ LoopInv(k)
      /\ pc \in [Ids -> Places]
  BY <1>1, Here DEF TypeOK
<1>3. /\ UNCHANGED <<program, ws, release, loop, i, iend, trip, next_id, arrived, done>>
      /\ pc' = [pc EXCEPT ![t] = "end"]
  BY DEF NextStatic, Goto, blockVars
<1>4. /\ \A u \in Ids : u # t => pc'[u] = pc[u]
      /\ pc'[t] = "end" /\ pc' = [pc EXCEPT ![t] = pc'[t]]
  BY <1>1, <1>2, <1>3
<1>5. /\ Leader(k)' = Leader(k)
      /\ Active(k)' <=> Active(k)
      /\ Static(k)' <=> Static(k)
  BY <1>3 DEF Static, Leader, Active
<1>6. Turn(k)'
  BY <1>1, <1>2, <1>3, <1>4, <1>5 DEF LoopInv, Turn
<1>7. Blocks(k)'
  <2>1. PICK m \in Nat : TurnOf(k, m) /\ In(t, k, m)
    BY <1>1, BlockOver
  <2>2. Block(program[k], m).end = program[k].n
    BY <2>1 DEF In
  <2>3. ASSUME NEW c \in Nat, m <= c, Real(program[k], c)
        PROVE  c = m
    <3>1. m < c => ~Real(program[k], c)
      BY <1>2, <2>1, <2>2, LoopFacts, BlockFacts DEF In
    <3> QED BY <2>3, <3>1
  <2>4. \A u \in Ids : /\ Holds(u, k)' <=> Holds(u, k) /\ u # t
                       /\ Coming(u, k)' <=> Coming(u, k)
                       /\ Ended(u, k)' <=> Ended(u, k) \/ u = t
                       /\ u # t /\ Within(u) => Within(u)'
    BY <1>1, <1>3, <1>4 DEF Holds, Coming, Ended, Within, BlockPlaces
  <2>5. ASSUME NEW u \in Ids, NEW c \in Nat
        PROVE  In(u, k, c)' <=> In(u, k, c)
    BY <1>3 DEF In, Real, Block, StaticBlock, Least
  <2>6. ws[k].owner = t
    BY <1>1, AtTurn
  <2>7. TurnOf(k, m)'
    BY <1>3, <1>5, <2>1, <2>2, <2>3, <2>4, <2>5, <2>6 DEF TurnOf, Real, Block, StaticBlock, Least, IsFor
  <2> QED BY <1>2, <1>3, <2>7 DEF Blocks
<1>8. Releases'
  <2>1. \A l \in OrderedLoops, u \in Ids : Posted(l, u)' <=> Posted(l, u)
    BY <1>1, <1>3, <1>4, PostedKept
  <2> QED BY <1>3, <2>1, ReleasesSame
<1>9. /\ ws' = [ws EXCEPT ![k] = ws'[k]]
      /\ i' = [i EXCEPT ![t] = i'[t]] /\ iend' = [iend EXCEPT ![t] = iend'[t]]
      /\ trip' = [trip EXCEPT ![t] = trip'[t]]
      /\ next_id' = [next_id EXCEPT ![t] = next_id'[t]]
      /\ done' = [done EXCEPT ![k] = done'[k]]
  BY <1>1, <1>3, Here
<1>10. /\ ws'[k] \in WorkShares /\ ws'[k].init
       /\ i'[t] \in Nat /\ iend'[t] \in Nat /\ trip'[t] \in Int
       /\ next_id'[t] \in Ids \cup {Nobody} /\ done[k] \subseteq done'[k]
       /\ release' \in [Ids -> Nat] /\ pc[t] # "barrier"
  BY <1>1, <1>3, Here
<1>11. LoopInv(k)' /\ UNCHANGED <<program, loop, arrived>>
  BY <1>1, <1>3, <1>5, <1>6, <1>7 DEF LoopInv
<1> QED BY <1>4, <1>8, <1>9, <1>10, <1>11, InnerStep

LEMMA PassStatic ==
  ASSUME Base, NEW t \in Ids, NEW k \in OrderedLoops, loop[t] = k, NextStatic(t), trip[t] # -1
  PROVE  IInv'
<1> DEFINE lp == program[k]
           next == Wrap(t + 1)
<1>1. /\ pc[t] = "next" /\ pc[t] # "start" /\ Static(k) /\ ~Locked(k)
      /\ ws[k].owner = t /\ Leader(k) = t /\ i[t] = iend[t]
  <2>1. pc[t] = "next" /\ Static(k) /\ ~Locked(k)
    BY DEF NextStatic, Loop, Static
  <2> QED BY <2>1, AtTurn
<1>2. /\ TypeOK /\ k \in LoopIds /\ ws[k] \in WorkShares /\ ws[k].init /\ LoopInv(k)
      /\ pc \in [Ids -> Places] /\ release \in [Ids -> Nat] /\ next_id \in [Ids -> Ids \cup {Nobody}]
      /\ i[t] \in Nat /\ iend[t] \in Nat /\ trip[t] \in Int
      /\ lp.n \in Nat /\ lp.chunk \in Nat
  BY <1>1, Here, LoopFacts DEF TypeOK
<1>3. next \in Ids
  BY WrapFacts, IdFacts
<1>4. PICK m \in Nat : /\ TurnOf(k, m) /\ In(t, k, m)
                       /\ 0 .. Block(lp, m).end - 1 \subseteq done[k]
  BY <1>1, BlockOver
<1>5. PICK tr \in Nat : m = tr * N + t /\ trip[t] = tr + 1 /\ Block(lp, m).end # lp.n
  BY <1>4 DEF In
<1>6. m + N = (tr + 1) * N + t /\ m + N \in Nat /\ m + 1 \in Nat
  BY <1>4, <1>5, IdFacts
<1>7. /\ UNCHANGED <<program, release, loop, arrived, done>>
      /\ ws' = [ws EXCEPT ![k] = [ws[k] EXCEPT !.owner = Nobody, !.ids[0] = next]]
      /\ next_id' = [next_id EXCEPT ![t] = next]
      /\ pc' = [pc EXCEPT ![t] = "pass"]
      /\ TakeStatic(t, trip[t])
  BY DEF NextStatic, Goto, SetWs, Ws
<1>8. /\ \A u \in Ids : u # t => pc'[u] = pc[u]
      /\ pc'[t] = "pass" /\ pc' = [pc EXCEPT ![t] = pc'[t]]
      /\ \A u \in Ids : u # t => next_id'[u] = next_id[u]
      /\ next_id'[t] = next /\ next_id' = [next_id EXCEPT ![t] = next_id'[t]]
      /\ \A l \in LoopIds : l # k => ws'[l] = ws[l]
      /\ ws' = [ws EXCEPT ![k] = ws'[k]]
  <2>1. ws'[k] = [ws[k] EXCEPT !.owner = Nobody, !.ids[0] = next]
    BY <1>2, <1>7 DEF TypeOK
  <2> QED BY <1>2, <1>7, <2>1 DEF TypeOK
<1>9. /\ ws'[k] \in WorkShares /\ ws'[k].init /\ ws'[k].owner = Nobody
      /\ ws'[k].ids[0] = next
  <2>1. ws'[k] = [ws[k] EXCEPT !.owner = Nobody, !.ids[0] = next]
    BY <1>2, <1>7 DEF TypeOK
  <2>2. ws[k].ids \in [Ids -> Ids] /\ 0 \in Ids
    BY <1>2, IdFacts DEF WorkShares
  <2>3. /\ ws'[k] = [ws[k] EXCEPT !.owner = Nobody, !.ids = [@ EXCEPT ![0] = next]]
        /\ [ws[k].ids EXCEPT ![0] = next] \in [Ids -> Ids]
        /\ [ws[k].ids EXCEPT ![0] = next][0] = next
    BY <1>2, <1>3, <2>1, <2>2 DEF WorkShares
  <2> HIDE DEF next
  <2>4. ws'[k] = [ws[k] EXCEPT !.owner = Nobody, !.ids = [ws[k].ids EXCEPT ![0] = next]]
    BY <1>2, <2>3 DEF WorkShares
  <2>5. /\ ws'[k].owner = Nobody /\ ws'[k].ids = [ws[k].ids EXCEPT ![0] = next]
        /\ ws'[k].init = ws[k].init
    BY <1>2, <2>4 DEF WorkShares
  <2>6. ws'[k] \in WorkShares
    <3> DEFINE ids == [ws[k].ids EXCEPT ![0] = next]
    <3>1. ws[k] \in WorkShares /\ ids \in [Ids -> Ids]
      BY <1>2, <2>3
    <3>2. ws'[k] = [ws[k] EXCEPT !.owner = Nobody, !.ids = ids]
      BY <2>4
    <3> HIDE DEF ids
    <3> QED BY <3>1, <3>2 DEF WorkShares
  <2> QED BY <1>2, <2>3, <2>5, <2>6
<1>10. /\ i' = [i EXCEPT ![t] = i'[t]] /\ iend' = [iend EXCEPT ![t] = iend'[t]]
       /\ trip' = [trip EXCEPT ![t] = trip'[t]]
       /\ i'[t] \in Nat /\ iend'[t] \in Nat /\ trip'[t] \in Int /\ i'[t] <= iend'[t]
       /\ IF Real(lp, m + N)
          THEN /\ i'[t] = Block(lp, m + N).first /\ iend'[t] = Block(lp, m + N).end
               /\ i'[t] < iend'[t]
               /\ trip'[t] = IF Block(lp, m + N).end = lp.n THEN -1 ELSE tr + 2
          ELSE i'[t] = iend'[t]
  <2>1. Loop(t) = lp /\ trip[t] = tr + 1 /\ tr + 1 \in Nat
    BY <1>5 DEF Loop
  <2>2. /\ HasStaticBlock(lp, tr + 1, t) <=> Real(lp, m + N)
        /\ HasStaticBlock(lp, tr + 1, t) => StaticBlock(lp, tr + 1, t) = Block(lp, m + N)
    BY <1>2, <1>6, <2>1, TripBlock
  <2>3. Block(lp, m + N).first \in Nat /\ Block(lp, m + N).end \in Nat
    BY <1>2, <1>6, BlockFacts
  <2>4. /\ i = [u \in Ids |-> i[u]] /\ iend = [u \in Ids |-> iend[u]]
        /\ trip = [u \in Ids |-> trip[u]]
    BY <1>2 DEF TypeOK
  <2>5. CASE Real(lp, m + N)
    <3>1. Block(lp, m + N).first < Block(lp, m + N).end
      BY <2>5 DEF Real
    <3>2. /\ i' = [i EXCEPT ![t] = Block(lp, m + N).first]
          /\ iend' = [iend EXCEPT ![t] = Block(lp, m + N).end]
          /\ trip' = [trip EXCEPT ![t] = IF Block(lp, m + N).end = lp.n THEN -1 ELSE tr + 1 + 1]
      BY <1>7, <2>1, <2>2, <2>5 DEF TakeStatic
    <3> QED BY <2>3, <2>4, <2>5, <3>1, <3>2
  <2>6. CASE ~Real(lp, m + N)
    <3>1. /\ i' = [i EXCEPT ![t] = iend[t]] /\ iend' = iend
          /\ trip' = [trip EXCEPT ![t] = IF lp.chunk = 0 THEN 1 ELSE tr + 1]
      BY <1>7, <2>1, <2>2, <2>6 DEF TakeStatic
    <3>2. i'[t] = iend[t] /\ iend'[t] = iend[t] /\ trip'[t] \in Int
      BY <1>2, <2>1, <2>4, <3>1
    <3>3. /\ i' = [i EXCEPT ![t] = i'[t]] /\ iend' = [iend EXCEPT ![t] = iend'[t]]
          /\ trip' = [trip EXCEPT ![t] = trip'[t]]
      BY <2>4, <3>1
    <3> QED BY <1>2, <2>6, <3>2, <3>3
  <2> QED BY <2>5, <2>6
<1> HIDE DEF next, lp
<1>11. /\ Leader(k)' = next
       /\ Active(k)'
       /\ Static(k)' <=> Static(k)
       /\ Locked(k)'
  BY <1>1, <1>7, <1>8, <1>9 DEF Static, Leader, Active, Locked
<1>12. \A u \in Ids : u # t => Same(u)
  BY <1>2, <1>7, <1>8, <1>10 DEF Same, TypeOK
<1>13. Turn(k)' /\ Releases'
  <2>1. UNCHANGED <<program, loop, release>>
    BY <1>7
  <2>2. next_id'[t] = Leader(k)' /\ i'[t] <= iend'[t]
    BY <1>8, <1>10, <1>11
  <2> QED BY <1>1, <1>8, <1>9, <1>11, <1>12, <2>1, <2>2, TurnPassed
<1>14. Blocks(k)'
  <2>1. ASSUME NEW u \in Ids, u # t
        PROVE  /\ Holds(u, k)' <=> Holds(u, k)
               /\ Within(u) => Within(u)'
               /\ Coming(u, k)' <=> Coming(u, k)
               /\ Ended(u, k)' <=> Ended(u, k)
               /\ \A c \in Nat : In(u, k, c) => In(u, k, c)'
    BY <1>7, <1>12, <2>1 DEF Same, Holds, Within, Coming, Ended, In, Real, Block, StaticBlock, Least
  <2>2. \A u \in Ids : IsFor(m, u) => u = t
    BY <1>4, <1>1, ForFacts DEF TurnOf
  <2>3. Real(lp, m + 1) /\ IsFor(m + 1, next) /\ 0 .. Block(lp, m + 1).first - 1 \subseteq done[k]
    <3>1. IsFor(m, t)
      BY <1>1, <1>4 DEF TurnOf
    <3>2. IsFor(m + 1, next)
      BY <3>1, ForFacts DEF next
    <3>3. Real(lp, m + 1) /\ Block(lp, m + 1).first = Block(lp, m).end
      BY <1>2, <1>4, <1>5, BlockFacts DEF In, lp
    <3> QED BY <1>4, <3>2, <3>3
  <2>4. ASSUME NEW u \in Ids, u # t
        PROVE  /\ Coming(u, k)' => m + 1 <= u
               /\ Holds(u, k)' => Within(u)' /\ \E c \in Nat : m + 1 <= c /\ c < m + 1 + N /\ In(u, k, c)'
               /\ Ended(u, k)' => \A c \in Nat : ~(m + 1 <= c /\ IsFor(c, u) /\ Real(lp, c))
    <3>1. /\ Coming(u, k) => m <= u
          /\ Holds(u, k) => Within(u) /\ \E c \in Nat : m <= c /\ c < m + N /\ In(u, k, c)
          /\ Ended(u, k) => \A c \in Nat : m <= c /\ IsFor(c, u) /\ Real(lp, c) => c = m
      BY <1>4 DEF TurnOf, lp
    <3>2. ~IsFor(m, u) /\ u # m /\ u \in Nat
      <4>1. ~IsFor(m, u)
        BY <2>2, <2>4
      <4>2. IsFor(u, u)
        BY ForFacts
      <4>3. u \in Nat
        BY IdFacts
      <4> QED BY <4>1, <4>2, <4>3
    <3>3. \A c \in Nat : In(u, k, c) => c # m
      BY <3>2 DEF In, IsFor
    <3>4. \A c \in Nat : m <= c /\ c # m => m + 1 <= c
      OBVIOUS
    <3>5. \A c \in Nat : c < m + N => c < m + 1 + N
      BY IdFacts
    <3>6. \A c \in Nat : m + 1 <= c => m <= c /\ c # m
      OBVIOUS
    <3>7. Coming(u, k)' => m + 1 <= u
      BY <2>1, <2>4, <3>1, <3>2, <3>4
    <3>8. ASSUME Holds(u, k)'
          PROVE  Within(u)' /\ \E c \in Nat : m + 1 <= c /\ c < m + 1 + N /\ In(u, k, c)'
      <4>1. Holds(u, k)
        BY <2>1, <2>4, <3>8
      <4>2. PICK c \in Nat : m <= c /\ c < m + N /\ In(u, k, c)
        BY <3>1, <4>1
      <4>3. m + 1 <= c /\ c < m + 1 + N /\ In(u, k, c)'
        BY <2>1, <2>4, <3>3, <3>4, <3>5, <4>2
      <4> QED BY <2>1, <2>4, <3>1, <4>1, <4>3
    <3>9. Ended(u, k)' => \A c \in Nat : ~(m + 1 <= c /\ IsFor(c, u) /\ Real(lp, c))
      BY <2>1, <2>4, <3>1, <3>6
    <3> QED BY <3>7, <3>8, <3>9
  <2>5. CASE Real(lp, m + N)
    <3>1. Holds(t, k)' /\ ~Coming(t, k)' /\ ~Ended(t, k)'
      <4>1. k \in Nat
        BY <1>2, LoopFacts
      <4>2. loop'[t] = k /\ pc'[t] = "pass" /\ i'[t] < iend'[t] /\ i'[t] \in Nat /\ iend'[t] \in Nat
        BY <1>7, <1>8, <1>10, <2>5
      <4> QED BY <4>1, <4>2 DEF Holds, Coming, Ended
    <3>2. Within(t)'
      BY <1>8, <1>10 DEF Within
    <3>3. In(t, k, m + N)'
      <4>1. /\ Real(lp, m + N) /\ m + N = (tr + 1) * N + t /\ tr + 1 \in Nat
            /\ i'[t] = Block(lp, m + N).first /\ iend'[t] = Block(lp, m + N).end
            /\ trip'[t] = IF Block(lp, m + N).end = lp.n THEN -1 ELSE tr + 1 + 1
        BY <1>6, <1>10, <2>5
      <4>2. Block(lp, m + N).first .. i'[t] - 1 = {} /\ Block(lp, m + N).first <= i'[t]
        BY <1>10, <4>1
      <4>3. lp' = lp /\ \A c : Real(lp, c)' <=> Real(lp, c)
        BY <1>7 DEF lp, Real, Block, StaticBlock, Least
      <4>4. \A c : Block(lp, c)' = Block(lp, c)
        BY <4>3 DEF Block, StaticBlock, Least
      <4>5. \E x \in Nat : /\ m + N = x * N + t
                           /\ trip'[t] = IF Block(lp, m + N).end = lp.n THEN -1 ELSE x + 1
        BY <4>1
      <4>6. Block(lp, m + N).first .. i'[t] - 1 \subseteq done'[k]
        BY <4>2
      <4> QED BY <1>7, <4>1, <4>2, <4>3, <4>4, <4>5, <4>6 DEF In, lp
    <3>4. m + 1 <= m + N /\ m + N < m + 1 + N
      BY IdFacts
    <3>5. TurnOf(k, m + 1)'
      BY <1>6, <1>7, <1>11, <2>3, <2>4, <3>1, <3>2, <3>3, <3>4
         DEF TurnOf, Real, Block, StaticBlock, Least, IsFor, lp
    <3> QED BY <1>6, <1>9, <3>5 DEF Blocks
  <2>6. CASE ~Real(lp, m + N)
    <3>1. ~Holds(t, k)' /\ ~Coming(t, k)'
      BY <1>2, <1>7, <1>8, <1>10, <2>6 DEF Holds, Coming, BlockPlaces
    <3>2. ASSUME NEW c \in Nat, m + 1 <= c, IsFor(c, t)
          PROVE  ~Real(lp, c)
      <4>1. m + N <= c
        BY <1>1, <1>4, <3>2, ForFacts DEF TurnOf
      <4> QED BY <1>2, <1>6, <2>6, <4>1, BlockFacts
    <3>3. TurnOf(k, m + 1)'
      BY <1>6, <1>7, <1>11, <2>3, <2>4, <3>1, <3>2
         DEF TurnOf, Real, Block, StaticBlock, Least, IsFor, lp
    <3> QED BY <1>6, <1>9, <3>3 DEF Blocks
  <2> QED BY <2>5, <2>6
<1>15. /\ done' = [done EXCEPT ![k] = done'[k]] /\ done[k] \subseteq done'[k]
       /\ pc'[t] \in BlockPlaces \cup {"pass", "end"} /\ pc[t] # "barrier"
       /\ release' \in [Ids -> Nat] /\ next_id'[t] \in Ids \cup {Nobody}
  BY <1>1, <1>2, <1>3, <1>7, <1>8, Here
<1>16. LoopInv(k)' /\ UNCHANGED <<program, loop, arrived>>
  BY <1>1, <1>7, <1>11, <1>13, <1>14 DEF LoopInv
<1> QED BY <1>8, <1>9, <1>10, <1>13, <1>15, <1>16, InnerStep

-----------------------------------------------------------------------------
(* The thread at the head of the queue of a dynamic loop passes it on. *)

LEMMA RingFacts ==
  ASSUME NEW w \in WorkShares, w.used > 0
  PROVE  /\ w.used \in 1 .. N /\ w.cur \in Ids /\ w.ids \in [Ids -> Ids]
         /\ Wrap(w.cur + 1) \in Ids
         /\ \A j \in 0 .. N : Wrap(w.cur + j) \in Ids
         /\ \A j \in 0 .. N - 1 : Wrap(Wrap(w.cur + 1) + j) = Wrap(w.cur + (j + 1))
         /\ \A j \in 0 .. N - 1 : \A l \in 0 .. N - 1 : Wrap(w.cur + j) = Wrap(w.cur + l) => j = l
<1>1. w.used \in 1 .. N /\ w.cur \in Ids /\ w.ids \in [Ids -> Ids]
  BY IdFacts DEF WorkShares
<1>2. /\ \A j \in 0 .. N : Wrap(w.cur + j) \in Ids
      /\ \A j \in 0 .. N - 1 : Wrap(Wrap(w.cur + 1) + j) = Wrap(w.cur + (j + 1))
      /\ \A j, l \in 0 .. N - 1 : Wrap(w.cur + j) = Wrap(w.cur + l) => j = l
  BY <1>1, WrapFacts
<1>3. Wrap(w.cur + 1) \in Ids
  BY <1>2, IdFacts
<1> QED BY <1>1, <1>2, <1>3

LEMMA HeadToEnd ==
  ASSUME NEW w \in WorkShares, w.used > 0, NEW t \in Ids, Queued(w, 0) = t
  PROVE  LET v == OrderedNext(w, t) IN
         /\ v \in WorkShares /\ v.used = w.used /\ v.next = w.next /\ v.init = w.init
         /\ v.owner = Nobody
         /\ \A j \in 0 .. w.used - 2 : Queued(v, j) = Queued(w, j + 1)
         /\ Queued(v, w.used - 1) = t
<1> DEFINE v == OrderedNext(w, t)
<1>1. /\ w.used \in 1 .. N /\ w.cur \in Ids /\ w.ids \in [Ids -> Ids]
      /\ Wrap(w.cur + 1) \in Ids
      /\ \A j \in 0 .. N : Wrap(w.cur + j) \in Ids
      /\ \A j \in 0 .. N - 1 : Wrap(Wrap(w.cur + 1) + j) = Wrap(w.cur + (j + 1))
      /\ \A j \in 0 .. N - 1 : \A l \in 0 .. N - 1 : Wrap(w.cur + j) = Wrap(w.cur + l) => j = l
  BY RingFacts
<1>0. w.used \in Nat /\ 1 <= w.used /\ w.used <= N /\ N \in Nat /\ N > 1
  <2>1. w.used \in 1 .. N
    BY <1>1
  <2> HIDE DEF v
  <2> QED BY <2>1, IdFacts
<1>2. CASE w.used = 1
  <2>1. v = [w EXCEPT !.owner = Nobody]
    BY <1>2 DEF OrderedNext
  <2>2. /\ v \in WorkShares /\ v.used = w.used /\ v.next = w.next /\ v.init = w.init
        /\ v.owner = Nobody /\ v.cur = w.cur /\ v.ids = w.ids
    BY <2>1 DEF WorkShares
  <2> HIDE DEF v
  <2>3. Queued(v, w.used - 1) = t
    BY <1>2, <2>2 DEF Queued
  <2>4. 0 .. w.used - 2 = {}
    BY <1>2
  <2> QED BY <2>2, <2>3, <2>4 DEF v
<1>3. CASE w.used # 1
  <2> DEFINE ids == IF w.used < N THEN [w.ids EXCEPT ![Wrap(w.cur + w.used)] = t] ELSE w.ids
  <2>1. v = [w EXCEPT !.owner = Nobody, !.cur = Wrap(w.cur + 1), !.ids = ids]
    BY <1>3 DEF OrderedNext, WorkShares
  <2>2. ids \in [Ids -> Ids]
    BY <1>1
  <2>3. /\ v \in WorkShares /\ v.used = w.used /\ v.next = w.next /\ v.init = w.init
        /\ v.owner = Nobody /\ v.cur = Wrap(w.cur + 1) /\ v.ids = ids
    <3> HIDE DEF ids
    <3> QED BY <1>1, <2>1, <2>2 DEF WorkShares
  <2>4. \A j \in 0 .. w.used - 1 : Queued(v, j) = ids[Wrap(w.cur + (j + 1))]
    <3> HIDE DEF ids
    <3>1. \A j \in 0 .. w.used - 1 : j \in 0 .. N - 1
      BY <1>0
    <3> QED BY <1>1, <2>3, <3>1 DEF Queued
  <2>5. ASSUME NEW j \in 0 .. w.used - 2
        PROVE  Queued(v, j) = Queued(w, j + 1)
    <3>1. j \in 0 .. w.used - 1 /\ j + 1 \in 0 .. N - 1 /\ j + 1 < w.used
      BY <1>0
    <3>2. w.used < N => Wrap(w.cur + (j + 1)) # Wrap(w.cur + w.used)
      <4>1. SUFFICES ASSUME w.used < N PROVE Wrap(w.cur + (j + 1)) # Wrap(w.cur + w.used)
        OBVIOUS
      <4>2. w.used \in 0 .. N - 1 /\ j + 1 # w.used
        BY <1>0, <3>1, <4>1
      <4> QED BY <1>1, <3>1, <4>2
    <3>3. ids[Wrap(w.cur + (j + 1))] = w.ids[Wrap(w.cur + (j + 1))]
      BY <1>1, <3>1, <3>2
    <3> QED BY <2>4, <3>1, <3>3 DEF Queued
  <2>6. Queued(v, w.used - 1) = t
    <3>1. w.used - 1 \in 0 .. w.used - 1 /\ w.used - 1 + 1 = w.used
      BY <1>0
    <3>2. Queued(v, w.used - 1) = ids[Wrap(w.cur + w.used)]
      BY <2>4, <3>1
    <3>3. CASE w.used < N
      <4>1. Wrap(w.cur + w.used) \in Ids
        BY <1>0, <1>1, <3>3
      <4> QED BY <1>1, <3>2, <3>3, <4>1
    <3>4. CASE ~(w.used < N)
      <4>1. w.used = N
        BY <1>0, <3>4
      <4>2. Wrap(w.cur + w.used) = Wrap(w.cur + 0)
        BY <1>1, <4>1, WrapFacts
      <4> QED BY <3>2, <3>4, <4>2 DEF Queued
    <3> QED BY <3>3, <3>4
  <2> HIDE DEF v
  <2> QED BY <2>3, <2>5, <2>6 DEF v
<1> QED BY <1>2, <1>3

LEMMA HeadLeaves ==
  ASSUME NEW w \in WorkShares, w.used > 0
  PROVE  LET v == OrderedLast(w) IN
         /\ v \in WorkShares /\ v.used = w.used - 1 /\ v.next = w.next /\ v.init = w.init
         /\ v.owner = Nobody
         /\ \A j \in 0 .. w.used - 2 : Queued(v, j) = Queued(w, j + 1)
<1> DEFINE v == OrderedLast(w)
           cur == IF w.used > 1 THEN Wrap(w.cur + 1) ELSE w.cur
<1>1. /\ w.used \in 1 .. N /\ w.cur \in Ids
      /\ Wrap(w.cur + 1) \in Ids
      /\ \A j \in 0 .. N - 1 : Wrap(Wrap(w.cur + 1) + j) = Wrap(w.cur + (j + 1))
  BY RingFacts
<1>2. v = [w EXCEPT !.owner = Nobody, !.used = w.used - 1, !.cur = cur]
  BY DEF OrderedLast, WorkShares
<1>3. cur \in Ids /\ w.used - 1 \in 0 .. N /\ (w.used > 1 => cur = Wrap(w.cur + 1))
  <2>1. w.cur \in Ids /\ Wrap(w.cur + 1) \in Ids
    BY <1>1
  <2>2. cur \in Ids /\ (w.used > 1 => cur = Wrap(w.cur + 1))
    BY <2>1
  <2>3. \A n \in 1 .. N : n - 1 \in 0 .. N
    BY IdFacts
  <2>4. w.used \in 1 .. N
    BY <1>1
  <2> QED BY <2>2, <2>3, <2>4
<1> HIDE DEF cur
<1>4. /\ v \in WorkShares /\ v.used = w.used - 1 /\ v.next = w.next /\ v.init = w.init
      /\ v.owner = Nobody /\ v.cur = cur /\ v.ids = w.ids
  BY <1>2, <1>3 DEF WorkShares
<1>5. ASSUME NEW j \in 0 .. w.used - 2
      PROVE  Queued(v, j) = Queued(w, j + 1)
  <2>1. w.used > 1 /\ j \in 0 .. N - 1
    <3>1. w.used \in 1 .. N
      BY <1>1
    <3> HIDE DEF v
    <3> QED BY <3>1, IdFacts
  <2> HIDE DEF v
  <2> QED BY <1>1, <1>3, <1>4, <2>1 DEF Queued
<1> HIDE DEF v
<1> QED BY <1>4, <1>5 DEF v

LEMMA QueueTypes ==
  ASSUME Base, NEW k \in OrderedLoops, ~Static(k)
  PROVE  /\ Queue(k) /\ ws[k].used \in 0 .. N /\ ws[k].next \in Nat /\ program[k].n \in Nat
         /\ \A j \in 0 .. ws[k].used - 1 :
              LET u == Queued(ws[k], j) IN
              u \in Ids /\ Holds(u, k) /\ i[u] \in Nat /\ iend[u] \in Nat
         /\ \A u \in Ids : Holds(u, k) => i[u] \in Nat /\ iend[u] \in Nat
<1>1. TypeOK /\ LoopInv(k)
  BY DEF Base, IInv
<1>2. Queue(k) /\ k \in LoopIds /\ ws[k] \in WorkShares
  BY <1>1, QueueFacts DEF LoopInv
<1>3. ws[k].used \in 0 .. N /\ ws[k].next \in Nat /\ program[k].n \in Nat
  BY <1>1, <1>2, LoopFacts DEF WorkShares
<1>4. \A u \in Ids : Holds(u, k) => i[u] \in Nat /\ iend[u] \in Nat
  BY <1>1 DEF TypeOK, Holds
<1>5. \A j \in 0 .. ws[k].used - 1 : Queued(ws[k], j) \in Ids /\ Holds(Queued(ws[k], j), k)
  <2>1. \A j \in 0 .. ws[k].used - 1 : j \in 0 .. N
    BY <1>3, IdFacts
  <2>2. \A j \in 0 .. ws[k].used - 1 : Queued(ws[k], j) \in Ids
    BY <1>1, <2>1, QueueFacts
  <2> QED BY <1>2, <2>2 DEF Queue, QueueMembers
<1> QED BY <1>2, <1>3, <1>4, <1>5

LEMMA AtHead ==
  ASSUME Base, NEW t \in Ids, NEW k \in OrderedLoops, loop[t] = k, pc[t] = "next", ~Static(k)
  PROVE  /\ ws[k].used \in 1 .. N /\ Queued(ws[k], 0) = t
         /\ \A j \in 1 .. ws[k].used - 1 : Queued(ws[k], j) # t
<1>1. ws[k].used \in 1 .. N
  <2>1. ws[k].used \in 0 .. N
    BY QueueTypes
  <2> QED BY <2>1, AtTurn, IdFacts DEF Active
<1>2. Queued(ws[k], 0) = t
  <2>1. TypeOK
    BY DEF Base, IInv
  <2> QED BY <2>1, AtTurn, QueueFacts
<1>3. ASSUME NEW j \in 1 .. ws[k].used - 1, Queued(ws[k], j) = t
      PROVE  FALSE
  <2>1. 0 \in 0 .. ws[k].used - 1 /\ j \in 0 .. ws[k].used - 1 /\ 0 < j
    BY <1>1, IdFacts
  <2>2. iend[Queued(ws[k], 0)] < iend[Queued(ws[k], j)]
    BY <2>1, QueueTypes DEF Queue, QueueOrder
  <2>3. iend[t] \in Nat
    BY Here
  <2> QED BY <1>2, <1>3, <2>2, <2>3
<1> QED BY <1>1, <1>2, <1>3

LEMMA QueuePassed ==
  ASSUME Base, NEW t \in Ids, NEW k \in OrderedLoops, loop[t] = k, pc[t] = "next", ~Static(k),
         UNCHANGED <<program, loop, done>>, \A u \in Ids : u # t => Same(u), pc'[t] = "pass",
         ws'[k] = [OrderedNext(ws[k], t) EXCEPT !.next = iend'[t]],
         i'[t] = ws[k].next, iend'[t] \in ws[k].next + 1 .. program[k].n
  PROVE  /\ Queue(k)'
         /\ ws'[k] \in WorkShares /\ ws'[k].init = ws[k].init /\ ws'[k].owner = Nobody
         /\ ws'[k].used = ws[k].used
<1> DEFINE w == ws[k]
           v == OrderedNext(ws[k], t)
           n == ws[k].used
<1>1. /\ Queue(k) /\ n \in 1 .. N /\ w.next \in Nat /\ program[k].n \in Nat
      /\ \A j \in 0 .. n - 1 : /\ Queued(w, j) \in Ids /\ Holds(Queued(w, j), k)
                               /\ i[Queued(w, j)] \in Nat /\ iend[Queued(w, j)] \in Nat
      /\ \A u \in Ids : Holds(u, k) => i[u] \in Nat /\ iend[u] \in Nat
  BY QueueTypes, AtHead
<1>2. /\ Queued(w, 0) = t
      /\ \A j \in 1 .. n - 1 : Queued(w, j) # t
      /\ i[t] = iend[t]
  BY AtHead, AtTurn
<1>3. w \in WorkShares
  BY Here
<1>4. /\ v \in WorkShares /\ v.used = n /\ v.next = w.next /\ v.init = w.init
      /\ v.owner = Nobody
      /\ \A j \in 0 .. n - 2 : Queued(v, j) = Queued(w, j + 1)
      /\ Queued(v, n - 1) = t
  BY <1>1, <1>2, <1>3, HeadToEnd
<1> HIDE DEF v
<1>5. /\ ws'[k] \in WorkShares /\ ws'[k].used = n /\ ws'[k].next = iend'[t]
      /\ ws'[k].init = w.init /\ ws'[k].owner = Nobody
      /\ ws'[k].cur = v.cur /\ ws'[k].ids = v.ids
  BY <1>1, <1>4 DEF WorkShares, v
<1>6. \A j : Queued(ws'[k], j) = Queued(v, j)
  BY <1>5 DEF Queued
<1>7. /\ n \in Nat /\ 1 <= n
      /\ i'[t] \in Nat /\ iend'[t] \in Nat /\ i'[t] < iend'[t]
      /\ i'[t] = w.next
  BY <1>1, IdFacts
<1> HIDE DEF n
<1>8. /\ \A j \in 0 .. n - 2 : /\ j + 1 \in 1 .. n - 1 /\ j + 1 \in 0 .. n - 1
                               /\ Queued(ws'[k], j) = Queued(w, j + 1)
      /\ Queued(ws'[k], n - 1) = t
      /\ \A j \in 1 .. n - 1 : j - 1 \in 0 .. n - 2 /\ j - 1 + 1 = j
      /\ \A j \in 0 .. n - 1 : j = n - 1 \/ j \in 0 .. n - 2
      /\ 0 .. n - 2 \subseteq 0 .. n - 1 /\ n - 1 \in 0 .. n - 1
  BY <1>4, <1>6, <1>7
<1>9. \A u \in Ids : u # t => /\ Holds(u, k)' <=> Holds(u, k)
                              /\ Within(u) => Within(u)'
                              /\ i'[u] = i[u] /\ iend'[u] = iend[u]
  BY DEF Same, Holds, Within
<1>10. Holds(t, k)' /\ Within(t)'
  BY <1>7 DEF Holds, Within
<1>11. QueueEnd(k)'
  BY <1>1, <1>5, <1>7, <1>8 DEF QueueEnd, n
<1>12. QueueMembers(k)'
  <2>1. \A u \in Ids : /\ Holds(u, k) <=> \E j \in 0 .. n - 1 : Queued(w, j) = u
                       /\ Holds(u, k) => Within(u)
    BY <1>1 DEF Queue, QueueMembers, n
  <2>2. ASSUME NEW u \in Ids, u # t, Holds(u, k)
        PROVE  \E j \in 0 .. n - 1 : Queued(ws'[k], j) = u
    <3>1. PICK j \in 0 .. n - 1 : Queued(w, j) = u
      BY <2>1, <2>2
    <3>2. j # 0
      BY <1>2, <2>2, <3>1
    <3>3. j \in 1 .. n - 1
      BY <1>7, <3>2
    <3>4. j - 1 \in 0 .. n - 2 /\ Queued(ws'[k], j - 1) = Queued(w, j)
      BY <1>8, <3>3
    <3> QED BY <1>8, <3>1, <3>4
  <2>3. ASSUME NEW u \in Ids, u # t, NEW j \in 0 .. n - 1, Queued(ws'[k], j) = u
        PROVE  Holds(u, k)
    <3>1. j \in 0 .. n - 2
      BY <1>8, <2>3
    <3> QED BY <1>8, <2>1, <2>3, <3>1
  <2>4. \E j \in 0 .. n - 1 : Queued(ws'[k], j) = t
    BY <1>8
  <2>5. ASSUME NEW u \in Ids
        PROVE  /\ Holds(u, k)' <=> \E j \in 0 .. n - 1 : Queued(ws'[k], j) = u
               /\ Holds(u, k)' => Within(u)'
    <3>1. CASE u = t
      BY <1>10, <2>4, <3>1
    <3>2. CASE u # t
      BY <1>9, <2>1, <2>2, <2>3, <3>2
    <3> QED BY <3>1, <3>2
  <2> QED BY <1>5, <2>5 DEF QueueMembers
<1>13. QueueOrder(k)'
  <2>1. SUFFICES ASSUME NEW j \in 0 .. n - 1, NEW l \in 0 .. n - 1, j < l
                 PROVE  /\ iend'[Queued(ws'[k], j)] <= i'[Queued(ws'[k], l)]
                        /\ iend'[Queued(ws'[k], j)] < iend'[Queued(ws'[k], l)]
    BY <1>5 DEF QueueOrder
  <2>2. /\ j \in 0 .. n - 2 /\ Queued(ws'[k], j) = Queued(w, j + 1) /\ j + 1 \in 0 .. n - 1
        /\ Queued(w, j + 1) \in Ids /\ Queued(w, j + 1) # t
        /\ iend[Queued(w, j + 1)] \in Nat
    <3>1. j \in 0 .. n - 2
      BY <1>7, <2>1
    <3> QED BY <1>1, <1>2, <1>8, <3>1 DEF n
  <2>3. iend'[Queued(ws'[k], j)] = iend[Queued(w, j + 1)]
    BY <1>9, <2>2
  <2>4. \A a, b \in 0 .. n - 1 : a < b => /\ iend[Queued(w, a)] <= i[Queued(w, b)]
                                          /\ iend[Queued(w, a)] < iend[Queued(w, b)]
    BY <1>1 DEF Queue, QueueOrder, n
  <2>5. CASE l \in 0 .. n - 2
    <3>1. /\ Queued(ws'[k], l) = Queued(w, l + 1) /\ l + 1 \in 0 .. n - 1 /\ j + 1 < l + 1
          /\ Queued(w, l + 1) \in Ids /\ Queued(w, l + 1) # t
      BY <1>1, <1>2, <1>8, <2>1, <2>5 DEF n
    <3>2. /\ i'[Queued(ws'[k], l)] = i[Queued(w, l + 1)]
          /\ iend'[Queued(ws'[k], l)] = iend[Queued(w, l + 1)]
      BY <1>9, <3>1
    <3> QED BY <2>2, <2>3, <2>4, <3>1, <3>2
  <2>6. CASE l = n - 1
    <3>1. iend[Queued(w, n - 1)] = w.next
      BY <1>1, <1>7 DEF Queue, QueueEnd, n
    <3>2. iend[Queued(w, j + 1)] <= w.next
      <4>1. CASE j + 1 = n - 1
        BY <2>2, <3>1, <4>1
      <4>2. CASE j + 1 # n - 1
        <5>1. j + 1 < n - 1 /\ n - 1 \in 0 .. n - 1
          BY <1>7, <2>2, <4>2
        <5>2. iend[Queued(w, j + 1)] < iend[Queued(w, n - 1)]
          BY <2>2, <2>4, <5>1
        <5> QED BY <1>1, <2>2, <3>1, <5>2
      <4> QED BY <4>1, <4>2
    <3> QED BY <1>1, <1>7, <1>8, <2>2, <2>3, <2>6, <3>2
  <2> QED BY <1>8, <2>5, <2>6
<1>14. QueueRest(k)'
  <2>1. SUFFICES ASSUME NEW x \in 0 .. iend'[t] - 1, x \notin done[k]
                 PROVE  \E u \in Ids : Holds(u, k)' /\ i'[u] <= x /\ x < iend'[u]
    BY <1>5 DEF QueueRest
  <2>2. CASE x < w.next
    <3>1. x \in 0 .. w.next - 1
      BY <1>1, <1>7, <2>2
    <3>2. PICK u \in Ids : Holds(u, k) /\ i[u] <= x /\ x < iend[u]
      BY <1>1, <2>1, <3>1 DEF Queue, QueueRest
    <3>3. u # t
      BY <1>1, <1>2, <3>2
    <3> QED BY <1>9, <3>2, <3>3
  <2>3. CASE ~(x < w.next)
    BY <1>1, <1>7, <1>10, <2>1, <2>3
  <2> QED BY <2>2, <2>3
<1> QED BY <1>5, <1>11, <1>12, <1>13, <1>14 DEF Queue, n

LEMMA PassDynamic ==
  ASSUME Base, NEW t \in Ids, NEW k \in OrderedLoops, loop[t] = k, NextDynamic(t), ~Exhausted(t)
  PROVE  IInv'
<1> DEFINE lp == program[k]
           w == ws[k]
           v == OrderedNext(ws[k], t)
           end == w.next + BlockSize(lp, lp.n - w.next)
<1>1. /\ pc[t] = "next" /\ pc[t] # "start" /\ ~Static(k) /\ ~Locked(k) /\ w.next # lp.n
  BY DEF NextDynamic, Loop, Static, Exhausted, Ws
<1>2. /\ TypeOK /\ k \in LoopIds /\ w \in WorkShares /\ w.init
      /\ pc \in [Ids -> Places] /\ release \in [Ids -> Nat] /\ next_id \in [Ids -> Ids \cup {Nobody}]
      /\ trip[t] \in Int /\ lp.chunk \in Nat \ {0}
  BY <1>1, Here, LoopFacts DEF TypeOK
<1>3. /\ w.next \in Nat /\ lp.n \in Nat /\ w.next < lp.n
      /\ w.used \in 1 .. N /\ Queued(w, 0) = t
  <2>1. w.next \in Nat /\ lp.n \in Nat /\ Queue(k)
    BY <1>1, QueueTypes
  <2>2. w.next <= lp.n
    BY <2>1 DEF Queue, QueueEnd
  <2> QED BY <1>1, <2>1, <2>2, AtHead
<1>4. end \in w.next + 1 .. lp.n
  <2>1. lp.n - w.next \in Nat \ {0}
    BY <1>3
  <2>2. BlockSize(lp, lp.n - w.next) \in 1 .. lp.n - w.next
    BY <1>2, <2>1, SizeOfBlock
  <2> QED BY <1>3, <2>2
<1>5. /\ UNCHANGED <<program, release, loop, arrived, done, trip>>
      /\ ws' = [ws EXCEPT ![k] = [v EXCEPT !.next = iend'[t]]]
      /\ next_id' = [next_id EXCEPT ![t] = IF v.used = 1 THEN t ELSE v.ids[v.cur]]
      /\ pc' = [pc EXCEPT ![t] = "pass"]
      /\ i' = [i EXCEPT ![t] = w.next]
      /\ iend' = [iend EXCEPT ![t] = end]
  BY DEF NextDynamic, TakeNext, Goto, SetWs, Ws, Loop
<1> HIDE DEF lp, v, end
<1>6. /\ \A u \in Ids : u # t => pc'[u] = pc[u]
      /\ pc'[t] = "pass" /\ pc' = [pc EXCEPT ![t] = pc'[t]]
      /\ i'[t] = w.next /\ i' = [i EXCEPT ![t] = i'[t]]
      /\ iend'[t] = end /\ iend' = [iend EXCEPT ![t] = iend'[t]]
      /\ next_id' = [next_id EXCEPT ![t] = next_id'[t]]
      /\ next_id'[t] = IF v.used = 1 THEN t ELSE v.ids[v.cur]
      /\ ws'[k] = [v EXCEPT !.next = iend'[t]]
      /\ ws' = [ws EXCEPT ![k] = ws'[k]]
      /\ \A u \in Ids : u # t => Same(u)
  BY <1>2, <1>5 DEF TypeOK, Same
<1>7. /\ Queue(k)'
      /\ ws'[k] \in WorkShares /\ ws'[k].init /\ ws'[k].owner = Nobody
      /\ ws'[k].used = ws[k].used
  <2>1. iend'[t] \in ws[k].next + 1 .. program[k].n
    BY <1>4, <1>6 DEF lp
  <2>2. UNCHANGED <<program, loop, done>>
    BY <1>5
  <2>3. ws'[k] = [OrderedNext(ws[k], t) EXCEPT !.next = iend'[t]]
    BY <1>6 DEF v
  <2>4. i'[t] = ws[k].next /\ pc'[t] = "pass" /\ \A u \in Ids : u # t => Same(u)
    BY <1>6
  <2> QED BY <1>1, <1>2, <2>1, <2>2, <2>3, <2>4, QueuePassed
<1>8. /\ Static(k)' <=> Static(k)
      /\ Active(k)'
      /\ next_id'[t] = Leader(k)' /\ next_id'[t] \in Ids
  <2>1. Static(k)' <=> Static(k)
    BY <1>5 DEF Static
  <2>2. /\ v \in WorkShares /\ v.used = w.used
        /\ v.used = 1 => Queued(v, 0) = t
    <3>1. w.used > 0
      BY <1>3, IdFacts
    <3>2. v \in WorkShares /\ v.used = w.used /\ Queued(v, w.used - 1) = t
      BY <1>2, <1>3, <3>1, HeadToEnd DEF v
    <3> QED BY <3>2
  <2>3. v.cur \in Ids /\ v.ids[v.cur] \in Ids /\ Queued(v, 0) = v.ids[v.cur]
    <3>1. v.cur \in Ids /\ v.ids \in [Ids -> Ids]
      BY <2>2 DEF WorkShares
    <3> QED BY <3>1, WrapFacts DEF Queued
  <2>4. Leader(k)' = v.ids[v.cur]
    BY <1>1, <1>6, <2>1, <2>2 DEF Leader, WorkShares
  <2>5. Active(k)'
    BY <1>1, <1>3, <1>7, <2>1, IdFacts DEF Active
  <2> QED BY <1>6, <2>1, <2>2, <2>3, <2>4, <2>5
<1>9. i'[t] \in Nat /\ iend'[t] \in Nat /\ i'[t] <= iend'[t]
  BY <1>3, <1>4, <1>6
<1>10. Turn(k)' /\ Releases'
  <2>1. UNCHANGED <<program, loop, release>>
    BY <1>5
  <2> QED BY <1>1, <1>6, <1>7, <1>8, <1>9, <2>1, TurnPassed
<1>11. /\ done' = [done EXCEPT ![k] = done'[k]] /\ done[k] \subseteq done'[k]
       /\ trip' = [trip EXCEPT ![t] = trip'[t]] /\ trip'[t] \in Int
       /\ pc'[t] \in BlockPlaces \cup {"pass", "end"} /\ pc[t] # "barrier"
       /\ release' \in [Ids -> Nat] /\ next_id'[t] \in Ids \cup {Nobody}
  BY <1>1, <1>2, <1>5, <1>6, <1>8, Here
<1>12. LoopInv(k)' /\ UNCHANGED <<program, loop, arrived>>
  BY <1>1, <1>5, <1>7, <1>8, <1>10 DEF LoopInv
<1> QED BY <1>6, <1>7, <1>9, <1>10, <1>11, <1>12, InnerStep

LEMMA QueueLeft ==
  ASSUME Base, NEW t \in Ids, NEW k \in OrderedLoops, loop[t] = k, pc[t] = "next", ~Static(k),
         UNCHANGED <<program, loop, i, iend, done>>, \A u \in Ids : u # t => Same(u),
         pc'[t] \in {"pass", "end"}, ws'[k] = OrderedLast(ws[k]), ws[k].next = program[k].n
  PROVE  /\ Queue(k)'
         /\ ws'[k] \in WorkShares /\ ws'[k].init = ws[k].init /\ ws'[k].owner = Nobody
<1> DEFINE w == ws[k]
           v == OrderedLast(ws[k])
           n == ws[k].used
<1>1. /\ Queue(k) /\ n \in 1 .. N /\ w.next \in Nat /\ program[k].n \in Nat
      /\ \A j \in 0 .. n - 1 : /\ Queued(w, j) \in Ids /\ Holds(Queued(w, j), k)
                               /\ i[Queued(w, j)] \in Nat /\ iend[Queued(w, j)] \in Nat
      /\ \A u \in Ids : Holds(u, k) => i[u] \in Nat /\ iend[u] \in Nat
  BY QueueTypes, AtHead
<1>2. /\ Queued(w, 0) = t
      /\ \A j \in 1 .. n - 1 : Queued(w, j) # t
      /\ i[t] = iend[t]
  BY AtHead, AtTurn
<1>3. w \in WorkShares
  BY Here
<1>4. /\ v \in WorkShares /\ v.used = n - 1 /\ v.next = w.next /\ v.init = w.init
      /\ v.owner = Nobody /\ ws'[k] = v
      /\ \A j \in 0 .. n - 2 : Queued(v, j) = Queued(w, j + 1)
  BY <1>1, <1>3, IdFacts, HeadLeaves
<1> HIDE DEF v
<1>5. n \in Nat /\ 1 <= n
  BY <1>1, IdFacts
<1> HIDE DEF n
<1>6. /\ \A j \in 0 .. n - 2 : j + 1 \in 1 .. n - 1 /\ j + 1 \in 0 .. n - 1
      /\ \A j \in 1 .. n - 1 : j - 1 \in 0 .. n - 2 /\ j - 1 + 1 = j
      /\ n - 1 - 1 = n - 2
  BY <1>5
<1>7. \A u \in Ids : u # t => /\ Holds(u, k)' <=> Holds(u, k)
                              /\ Within(u) => Within(u)'
  BY DEF Same, Holds, Within
<1>8. ~Holds(t, k)'
  <2>1. i[t] \in Nat
    BY Here
  <2> QED BY <1>2, <2>1 DEF Holds, BlockPlaces
<1>9. QueueEnd(k)'
  <2>1. n - 1 > 0 => n - 2 \in 0 .. n - 2 /\ n - 2 + 1 = n - 1
    BY <1>5
  <2>2. n > 0 => iend[Queued(w, n - 1)] = w.next
    BY <1>1 DEF Queue, QueueEnd, n
  <2> QED BY <1>1, <1>4, <1>5, <1>6, <2>1, <2>2 DEF QueueEnd
<1>10. QueueMembers(k)'
  <2>1. \A u \in Ids : /\ Holds(u, k) <=> \E j \in 0 .. n - 1 : Queued(w, j) = u
                       /\ Holds(u, k) => Within(u)
    BY <1>1 DEF Queue, QueueMembers, n
  <2>2. ASSUME NEW u \in Ids, u # t, Holds(u, k)
        PROVE  \E j \in 0 .. n - 2 : Queued(v, j) = u
    <3>1. PICK j \in 0 .. n - 1 : Queued(w, j) = u
      BY <2>1, <2>2
    <3>2. j # 0
      BY <1>2, <2>2, <3>1
    <3>3. j \in 1 .. n - 1
      BY <1>5, <3>2
    <3>4. j - 1 \in 0 .. n - 2 /\ Queued(v, j - 1) = Queued(w, j)
      BY <1>4, <1>6, <3>3
    <3> QED BY <3>1, <3>4
  <2>3. ASSUME NEW j \in 0 .. n - 2
        PROVE  Holds(Queued(v, j), k) /\ Queued(v, j) # t
    BY <1>1, <1>2, <1>4, <1>6 DEF n
  <2>4. \A u \in Ids : /\ Holds(u, k)' <=> \E j \in 0 .. n - 2 : Queued(v, j) = u
                       /\ Holds(u, k)' => Within(u)'
    BY <1>7, <1>8, <2>1, <2>2, <2>3
  <2> QED BY <1>4, <1>6, <2>4 DEF QueueMembers
<1>11. QueueOrder(k)'
  <2>1. \A a, b \in 0 .. n - 1 : a < b => /\ iend[Queued(w, a)] <= i[Queued(w, b)]
                                          /\ iend[Queued(w, a)] < iend[Queued(w, b)]
    BY <1>1 DEF Queue, QueueOrder, n
  <2>2. ASSUME NEW j \in 0 .. n - 2, NEW l \in 0 .. n - 2, j < l
        PROVE  /\ iend[Queued(v, j)] <= i[Queued(v, l)]
               /\ iend[Queued(v, j)] < iend[Queued(v, l)]
    <3>1. j + 1 \in 0 .. n - 1 /\ l + 1 \in 0 .. n - 1 /\ j + 1 < l + 1
      BY <1>6, <2>2
    <3> QED BY <1>4, <2>1, <3>1
  <2> QED BY <1>4, <1>6, <2>2 DEF QueueOrder
<1>12. QueueRest(k)'
  <2>1. SUFFICES ASSUME NEW x \in 0 .. w.next - 1, x \notin done[k]
                 PROVE  \E u \in Ids : Holds(u, k)' /\ i[u] <= x /\ x < iend[u]
    BY <1>4 DEF QueueRest
  <2>2. PICK u \in Ids : Holds(u, k) /\ i[u] <= x /\ x < iend[u]
    BY <1>1, <2>1 DEF Queue, QueueRest
  <2>3. u # t
    BY <1>1, <1>2, <2>2
  <2> QED BY <1>7, <2>2, <2>3
<1> QED BY <1>4, <1>9, <1>10, <1>11, <1>12 DEF Queue

LEMMA LeaveDynamic ==
  ASSUME Base, NEW t \in Ids, NEW k \in OrderedLoops, loop[t] = k, NextDynamic(t), Exhausted(t)
  PROVE  IInv'
<1> DEFINE v == OrderedLast(ws[k])
           h == IF v.used > 0 THEN v.ids[v.cur] ELSE Nobody
           place == IF v.used > 0 THEN "pass" ELSE "end"
<1>1. /\ pc[t] = "next" /\ pc[t] # "start" /\ ~Static(k) /\ ~Locked(k)
      /\ ws[k].next = program[k].n
  BY DEF NextDynamic, Loop, Static, Exhausted, Ws
<1>2. /\ TypeOK /\ k \in LoopIds /\ ws[k] \in WorkShares /\ ws[k].init
      /\ pc \in [Ids -> Places] /\ release \in [Ids -> Nat] /\ next_id \in [Ids -> Ids \cup {Nobody}]
      /\ i[t] \in Nat /\ iend[t] \in Nat
  BY <1>1, Here DEF TypeOK
<1>3. /\ UNCHANGED <<program, release, loop, arrived, done, i, iend, trip>>
      /\ ws' = [ws EXCEPT ![k] = v]
      /\ next_id' = [next_id EXCEPT ![t] = h]
      /\ pc' = [pc EXCEPT ![t] = place]
  BY DEF NextDynamic, Goto, SetWs, Ws, blockVars
<1> HIDE DEF v, h, place
<1>4. /\ \A u \in Ids : u # t => pc'[u] = pc[u]
      /\ pc'[t] = place /\ pc' = [pc EXCEPT ![t] = pc'[t]]
      /\ next_id'[t] = h /\ next_id' = [next_id EXCEPT ![t] = next_id'[t]]
      /\ ws'[k] = v /\ ws' = [ws EXCEPT ![k] = ws'[k]]
      /\ \A u \in Ids : u # t => Same(u)
  BY <1>2, <1>3 DEF TypeOK, Same
<1>5. place \in {"pass", "end"}
  BY DEF place
<1>6. Queue(k)' /\ v \in WorkShares /\ v.init /\ v.owner = Nobody
  <2>1. UNCHANGED <<program, loop, i, iend, done>>
    BY <1>3
  <2>2. ws'[k] = OrderedLast(ws[k]) /\ pc'[t] \in {"pass", "end"}
    BY <1>4, <1>5 DEF v
  <2> QED BY <1>1, <1>2, <1>4, <2>1, <2>2, QueueLeft
<1>7. v.cur \in Ids /\ v.ids[v.cur] \in Ids /\ v.used \in Nat
  BY <1>6, IdFacts DEF WorkShares
<1>8. /\ Static(k)' <=> Static(k)
      /\ Active(k)' <=> v.used > 0
      /\ Leader(k)' = v.ids[v.cur]
  BY <1>1, <1>3, <1>4 DEF Static, Active, Leader
<1>9. i'[t] <= iend'[t]
  BY <1>1, <1>2, <1>3, AtTurn
<1>10. Turn(k)' /\ Releases'
  <2>1. UNCHANGED <<program, loop, release>>
    BY <1>3
  <2>2. CASE v.used > 0
    <3>1. pc'[t] = "pass" /\ next_id'[t] = Leader(k)' /\ Active(k)' /\ ws'[k].owner = Nobody
      BY <1>4, <1>6, <1>8, <2>2 DEF place, h
    <3> QED BY <1>1, <1>4, <1>9, <2>1, <3>1, TurnPassed
  <2>3. CASE ~(v.used > 0)
    <3>1. pc'[t] = "end" /\ ~Active(k)' /\ ws'[k].owner = Nobody
      BY <1>4, <1>6, <1>8, <2>3 DEF place
    <3>2. \A u \in Ids : u # t /\ loop[u] = k => pc'[u] \notin {"ordered", "next", "pass"}
      BY <1>1, <1>4, AtTurn DEF Locked
    <3>3. Turn(k)'
      BY <2>1, <3>1, <3>2, IdFacts DEF Turn
    <3>4. \A u \in Ids : ~Posted(k, u) /\ ~Posted(k, u)'
      BY <1>1, <3>1, AtTurn DEF Posted
    <3>5. \A l \in OrderedLoops, u \in Ids : l # k => (Posted(l, u)' <=> Posted(l, u))
      BY <1>4, <2>1, OthersPosted
    <3>6. \A l \in OrderedLoops, u \in Ids : Posted(l, u)' <=> Posted(l, u)
      BY <3>4, <3>5
    <3> QED BY <2>1, <3>3, <3>6, ReleasesSame
  <2> QED BY <2>2, <2>3
<1>11. /\ done' = [done EXCEPT ![k] = done'[k]] /\ done[k] \subseteq done'[k]
       /\ trip' = [trip EXCEPT ![t] = trip'[t]] /\ trip'[t] \in Int
       /\ i' = [i EXCEPT ![t] = i'[t]] /\ i'[t] \in Nat
       /\ iend' = [iend EXCEPT ![t] = iend'[t]] /\ iend'[t] \in Nat
  BY <1>1, <1>3, Here
<1>12. /\ pc'[t] \in BlockPlaces \cup {"pass", "end"} /\ pc[t] # "barrier"
       /\ release' \in [Ids -> Nat] /\ next_id'[t] \in Ids \cup {Nobody}
       /\ ws'[k] \in WorkShares /\ ws'[k].init
  BY <1>1, <1>2, <1>3, <1>4, <1>5, <1>6, <1>7 DEF h
<1>13. LoopInv(k)' /\ UNCHANGED <<program, loop, arrived>>
  BY <1>1, <1>3, <1>6, <1>8, <1>10 DEF LoopInv
<1> QED BY <1>4, <1>10, <1>11, <1>12, <1>13, InnerStep

-----------------------------------------------------------------------------
(* A thread starts a static loop. *)

LEMMA FirstBlock ==
  ASSUME TypeOK, NEW t \in Ids, NEW k \in OrderedLoops, loop[t] = k, TakeStatic(t, 0),
         UNCHANGED <<program, loop, done>>,
         pc'[t] = IF HasStaticBlock(Loop(t), 0, t) THEN "body" ELSE "end"
  PROVE  /\ i' = [i EXCEPT ![t] = i'[t]] /\ i'[t] \in Nat
         /\ iend' = [iend EXCEPT ![t] = iend'[t]] /\ iend'[t] \in Nat
         /\ trip' = [trip EXCEPT ![t] = trip'[t]] /\ trip'[t] \in Int
         /\ ~Coming(t, k)' /\ pc'[t] \in {"body", "end"}
         /\ Real(program[k], t) => Holds(t, k)' /\ ~Ended(t, k)' /\ Within(t)' /\ In(t, k, t)'
         /\ ~Real(program[k], t) => ~Holds(t, k)'
<1> DEFINE lp == program[k]
<1>1. /\ lp.n \in Nat /\ lp.chunk \in Nat /\ Loop(t) = lp /\ k \in Nat /\ t \in Nat
      /\ i[t] \in Nat /\ iend[t] \in Nat
      /\ i = [u \in Ids |-> i[u]] /\ iend = [u \in Ids |-> iend[u]]
      /\ trip = [u \in Ids |-> trip[u]]
  <2>1. lp.n \in Nat /\ lp.chunk \in Nat /\ k \in Nat
    BY LoopFacts DEF OrderedLoops
  <2>2. t \in Nat
    BY IdFacts
  <2> QED BY <2>1, <2>2 DEF Loop, TypeOK
<1>2. 0 * N + t = t
  BY <1>1, IdFacts
<1> HIDE DEF lp
<1>3. /\ HasStaticBlock(lp, 0, t) <=> Real(lp, t)
      /\ HasStaticBlock(lp, 0, t) => StaticBlock(lp, 0, t) = Block(lp, t)
  BY <1>1, <1>2, TripBlock
<1>4. Block(lp, t).first \in Nat /\ Block(lp, t).end \in Nat
  BY <1>1, BlockFacts
<1>5. CASE Real(lp, t)
  <2>1. /\ i' = [i EXCEPT ![t] = Block(lp, t).first]
        /\ iend' = [iend EXCEPT ![t] = Block(lp, t).end]
        /\ trip' = [trip EXCEPT ![t] = IF Block(lp, t).end = lp.n THEN -1 ELSE 0 + 1]
        /\ pc'[t] = "body"
    BY <1>1, <1>3, <1>5 DEF TakeStatic
  <2>2. /\ i' = [i EXCEPT ![t] = i'[t]] /\ iend' = [iend EXCEPT ![t] = iend'[t]]
        /\ trip' = [trip EXCEPT ![t] = trip'[t]]
        /\ i'[t] = Block(lp, t).first /\ iend'[t] = Block(lp, t).end
        /\ trip'[t] = IF Block(lp, t).end = lp.n THEN -1 ELSE 0 + 1
    BY <1>1, <2>1
  <2>3. trip'[t] \in Int /\ i'[t] < iend'[t] /\ i'[t] \in Nat /\ iend'[t] \in Nat
    BY <1>4, <1>5, <2>2 DEF Real
  <2>4. Holds(t, k)' /\ ~Ended(t, k)' /\ ~Coming(t, k)'
    BY <1>1, <2>1 DEF Holds, Ended, Coming, BlockPlaces
  <2>5. Within(t)'
    BY <2>1, <2>3 DEF Within
  <2>6. In(t, k, t)'
    <3>1. \E tr \in Nat : /\ t = tr * N + t
                          /\ trip'[t] = IF Block(lp, t).end = lp.n THEN -1 ELSE tr + 1
      BY <1>2, <2>2
    <3>2. /\ Block(lp, t).first <= i'[t] /\ iend'[t] = Block(lp, t).end
          /\ Block(lp, t).first .. i'[t] - 1 \subseteq done'[k]
      BY <2>2, <2>3
    <3>3. /\ lp' = lp
          /\ Real(lp, t)' <=> Real(lp, t)
          /\ Block(lp, t)' = Block(lp, t)
      BY DEF lp, Real, Block, StaticBlock, Least
    <3> QED BY <1>5, <3>1, <3>2, <3>3 DEF In, lp
  <2> QED BY <1>5, <2>1, <2>2, <2>3, <2>4, <2>5, <2>6 DEF lp
<1>6. CASE ~Real(lp, t)
  <2>1. /\ i' = [i EXCEPT ![t] = iend[t]] /\ iend' = iend
        /\ trip' = [trip EXCEPT ![t] = IF lp.chunk = 0 THEN 1 ELSE 0]
        /\ pc'[t] = "end"
    BY <1>1, <1>3, <1>6 DEF TakeStatic
  <2>2. /\ i' = [i EXCEPT ![t] = i'[t]] /\ iend' = [iend EXCEPT ![t] = iend'[t]]
        /\ trip' = [trip EXCEPT ![t] = trip'[t]]
        /\ i'[t] \in Nat /\ iend'[t] \in Nat /\ trip'[t] \in Int
    <3>1. (IF lp.chunk = 0 THEN 1 ELSE 0) \in Int
      OBVIOUS
    <3>2. i'[t] = iend[t] /\ iend'[t] = iend[t] /\ trip'[t] \in Int
      BY <1>1, <2>1, <3>1
    <3> QED BY <1>1, <2>1, <3>2
  <2>3. ~Holds(t, k)' /\ ~Coming(t, k)'
    BY <1>1, <2>1 DEF Holds, Coming, BlockPlaces
  <2> QED BY <1>6, <2>1, <2>2, <2>3 DEF lp
<1> QED BY <1>5, <1>6

(* The turn of a block that is not behind the first of this thread's.      *)
LEMMA TurnStarts ==
  ASSUME TypeOK, NEW t \in Ids, NEW k \in OrderedLoops, loop[t] = k, Static(k), TakeStatic(t, 0),
         UNCHANGED <<program, loop, done>>,
         pc'[t] = IF HasStaticBlock(Loop(t), 0, t) THEN "body" ELSE "end",
         NEW m \in Nat, m <= t, Real(program[k], m), IsFor(m, Leader(k)'),
         0 .. Block(program[k], m).first - 1 \subseteq done[k],
         \A u \in Ids : u # t =>
           /\ Coming(u, k)' => m <= u
           /\ Holds(u, k)' => Within(u)' /\ \E c \in Nat : m <= c /\ c < m + N /\ In(u, k, c)'
           /\ Ended(u, k)' => \A c \in Nat : m <= c /\ IsFor(c, u) /\ Real(program[k], c)
                                => c = m /\ ws'[k].owner = u /\ Block(program[k], m).end = program[k].n
  PROVE  TurnOf(k, m)'
<1>1. /\ ~Coming(t, k)'
      /\ Real(program[k], t) => ~Ended(t, k)' /\ Within(t)' /\ In(t, k, t)'
      /\ ~Real(program[k], t) => ~Holds(t, k)'
  BY FirstBlock
<1>2. t \in Nat /\ t < m + N
  BY IdFacts
<1>3. ASSUME ~Real(program[k], t)
      PROVE  \A c \in Nat : ~(IsFor(c, t) /\ Real(program[k], c))
  <2>1. \A c \in Nat : IsFor(c, t) => t <= c
    BY ForFacts
  <2>2. program[k].n \in Nat /\ program[k].chunk \in Nat
    BY LoopFacts DEF OrderedLoops
  <2> QED BY <1>2, <1>3, <2>1, <2>2, BlockFacts
<1>4. /\ program' = program
      /\ \A c : Real(program[k], c)' <=> Real(program[k], c)
      /\ \A c : Block(program[k], c)' = Block(program[k], c)
      /\ \A c, u : IsFor(c, u)' <=> IsFor(c, u)
  BY DEF Real, Block, StaticBlock, Least, IsFor
<1>5. ASSUME NEW u \in Ids
      PROVE  /\ Coming(u, k)' => m <= u
             /\ Holds(u, k)' => Within(u)' /\ \E c \in Nat : m <= c /\ c < m + N /\ In(u, k, c)'
             /\ Ended(u, k)' => \A c \in Nat : m <= c /\ IsFor(c, u) /\ Real(program[k], c)
                                  => c = m /\ ws'[k].owner = u /\ Block(program[k], m).end = program[k].n
  <2>1. CASE u = t
    BY <1>1, <1>2, <1>3, <2>1
  <2>2. CASE u # t
    BY <2>2
  <2> QED BY <2>1, <2>2
<1> QED BY <1>4, <1>5 DEF TurnOf

LEMMA StartStaticStep ==
  ASSUME Base, NEW t \in Ids, NEW k \in OrderedLoops, loop[t] = k, StartStatic(t)
  PROVE  IInv'
<1> DEFINE w == ws[k]
           lp == program[k]
<1>1. pc[t] = "start" /\ Static(k)
  BY DEF StartStatic, Loop, Static
<1>2. /\ TypeOK /\ k \in LoopIds /\ w \in WorkShares /\ LoopInv(k)
      /\ pc \in [Ids -> Places] /\ release \in [Ids -> Nat]
  BY <1>1, Here DEF TypeOK
<1>3. /\ UNCHANGED <<program, loop, next_id, arrived, done>>
      /\ IF w.init THEN UNCHANGED <<ws, release>>
         ELSE /\ ws' = [ws EXCEPT ![k] = [w EXCEPT !.init = TRUE]]
              /\ release' = [release EXCEPT ![0] = release[0] + 1]
      /\ TakeStatic(t, 0)
      /\ pc' = [pc EXCEPT ![t] = IF HasStaticBlock(Loop(t), 0, t) THEN "body" ELSE "end"]
  BY DEF StartStatic, Goto, SetWs, Ws, Post
<1>4. /\ pc'[t] = IF HasStaticBlock(Loop(t), 0, t) THEN "body" ELSE "end"
      /\ pc' = [pc EXCEPT ![t] = pc'[t]]
      /\ \A u \in Ids : u # t => pc'[u] = pc[u]
  BY <1>2, <1>3
<1>5. /\ i' = [i EXCEPT ![t] = i'[t]] /\ i'[t] \in Nat
      /\ iend' = [iend EXCEPT ![t] = iend'[t]] /\ iend'[t] \in Nat
      /\ trip' = [trip EXCEPT ![t] = trip'[t]] /\ trip'[t] \in Int
      /\ pc'[t] \in {"body", "end"}
  BY <1>2, <1>1, <1>3, <1>4, FirstBlock
<1>6. \A u \in Ids : u # t => Same(u)
  BY <1>2, <1>3, <1>4, <1>5 DEF TypeOK, Same
<1>7. /\ ws' = [ws EXCEPT ![k] = ws'[k]] /\ ws'[k] = [w EXCEPT !.init = TRUE]
      /\ ws'[k] \in WorkShares /\ ws'[k].init
      /\ ws'[k].owner = w.owner /\ ws'[k].ids = w.ids
  <2>1. ws' = [ws EXCEPT ![k] = ws'[k]] /\ ws'[k] = [w EXCEPT !.init = TRUE]
    <3>1. CASE w.init
      <4>1. ws' = ws /\ ws = [ws EXCEPT ![k] = ws[k]]
        BY <1>3, <3>1, Here
      <4>2. w = [w EXCEPT !.init = TRUE]
        BY <1>2, <3>1 DEF WorkShares
      <4> QED BY <4>1, <4>2
    <3>2. CASE ~w.init
      BY <1>2, <1>3, <3>2 DEF TypeOK
    <3> QED BY <3>1, <3>2
  <2>2. ws'[k] \in WorkShares /\ ws'[k].init /\ ws'[k].owner = w.owner /\ ws'[k].ids = w.ids
    BY <1>2, <2>1 DEF WorkShares
  <2> QED BY <2>1, <2>2
<1>8. /\ Static(k)' <=> Static(k)
      /\ Leader(k)' = Leader(k)
      /\ Active(k)'
      /\ Locked(k)' <=> Locked(k)
  BY <1>1, <1>3, <1>4, <1>5, <1>7 DEF Static, Leader, Active, Locked
<1>9. \A l \in OrderedLoops, u \in Ids : l # k => (Posted(l, u)' <=> Posted(l, u))
  <2>1. UNCHANGED <<program, loop>>
    BY <1>3
  <2> QED BY <1>4, <1>7, <2>1, OthersPosted
<1>10. ASSUME NEW u \in Ids, u # t
       PROVE  /\ Holds(u, k)' <=> Holds(u, k)
              /\ Within(u) => Within(u)'
              /\ Coming(u, k)' <=> Coming(u, k)
              /\ Ended(u, k)' <=> Ended(u, k)
              /\ \A c \in Nat : In(u, k, c) => In(u, k, c)'
    BY <1>3, <1>6, <1>10 DEF Same, Holds, Within, Coming, Ended, In, Real, Block, StaticBlock, Least
<1>11. Turn(k)' /\ Blocks(k)' /\ Releases' /\ release' \in [Ids -> Nat]
  <2>1. CASE w.init
    <3>1. Turn(k)'
      <4>1. Turn(k) /\ UNCHANGED ws
        BY <1>2, <1>3, <2>1 DEF LoopInv
      <4>2. \A u \in Ids : loop'[u] = k /\ pc'[u] \in {"pass", "ordered", "next", "wait", "resync"}
                             => u # t
        BY <1>5
      <4> QED BY <1>3, <1>6, <1>8, <4>1, <4>2 DEF Turn, Same
    <3>2. PICK m \in Nat : TurnOf(k, m)
      BY <1>1, <1>2, <2>1 DEF LoopInv, Blocks
    <3>3. m <= t
      BY <1>1, <3>2 DEF TurnOf, Coming
    <3>4. TurnOf(k, m)'
      <4>1. /\ Real(program[k], m) /\ IsFor(m, Leader(k)')
            /\ 0 .. Block(program[k], m).first - 1 \subseteq done[k]
        BY <1>8, <3>2 DEF TurnOf
      <4>2. ASSUME NEW u \in Ids, u # t
            PROVE  /\ Coming(u, k)' => m <= u
                   /\ Holds(u, k)' => Within(u)' /\ \E c \in Nat : m <= c /\ c < m + N /\ In(u, k, c)'
                   /\ Ended(u, k)' => \A c \in Nat : m <= c /\ IsFor(c, u) /\ Real(program[k], c)
                                => c = m /\ ws'[k].owner = u /\ Block(program[k], m).end = program[k].n
        BY <1>7, <1>10, <3>2, <4>2 DEF TurnOf
      <4> QED BY <1>1, <1>2, <1>3, <1>4, <3>3, <4>1, <4>2, TurnStarts
    <3>5. Blocks(k)'
      BY <1>7, <3>4 DEF Blocks
    <3>6. Releases'
      <4>1. \A u \in Ids : Posted(k, u)' <=> Posted(k, u)
        BY <1>1, <1>7, <1>8, <2>1 DEF Posted, Active
      <4>2. \A l \in OrderedLoops, u \in Ids : Posted(l, u)' <=> Posted(l, u)
        BY <1>9, <4>1
      <4> QED BY <1>3, <2>1, <4>2, ReleasesSame
    <3> QED BY <1>2, <1>3, <2>1, <3>1, <3>5, <3>6
  <2>2. CASE ~w.init
    <3>1. \A u \in Ids : ~(loop[u] > k) /\ (loop[u] = k => pc[u] = "start")
      BY <1>2, <2>2 DEF Base, IInv, Barriers
    <3>2. w.owner = Nobody /\ Leader(k) = 0
      BY <1>1, <1>2, <2>2 DEF LoopInv, Blocks, Leader
    <3>3. Turn(k)'
      BY <1>3, <1>5, <1>6, <1>7, <3>1, <3>2, IdFacts DEF Turn, Same
    <3>4. /\ Real(program[k], 0) /\ IsFor(0, Leader(k)') /\ 0 <= t
          /\ 0 .. Block(program[k], 0).first - 1 = {}
      <4>1. lp.n \in Nat /\ lp.chunk \in Nat /\ lp.n > 0
        BY <1>1, <1>2, LoopFacts, ApartFacts DEF Base
      <4>2. Real(lp, 0) /\ Block(lp, 0).first = 0
        BY <4>1, BlockFacts
      <4>3. IsFor(0, 0) /\ 0 <= t
        BY IdFacts, ForFacts
      <4> QED BY <1>8, <3>2, <4>2, <4>3
    <3>5. TurnOf(k, 0)'
      <4>1. ASSUME NEW u \in Ids, u # t
            PROVE  ~Holds(u, k)' /\ ~Ended(u, k)' /\ 0 <= u
        BY <1>10, <3>1, <4>1, IdFacts DEF Holds, Ended, BlockPlaces
      <4> QED BY <1>1, <1>2, <1>3, <1>4, <3>4, <4>1, TurnStarts
    <3>6. Blocks(k)'
      BY <1>7, <3>5 DEF Blocks
    <3>7. \A u \in Ids : ~Posted(k, u)
      BY <1>1, <2>2 DEF Posted, Active
    <3>8. ~Locked(k)
      BY <3>1 DEF Locked
    <3>9. \A u \in Ids : Posted(k, u)' <=> u = 0
      BY <1>7, <1>8, <3>2, <3>8, IdFacts DEF Posted
    <3>10. \A u \in Ids : release'[u] = release[u] + (IF u = 0 THEN 1 ELSE 0)
      BY <1>2, <1>3, <2>2
    <3>11. Coming(0, k) \/ (loop[0] = k /\ pc[0] # "barrier")
      <4>1. 0 \in Ids /\ loop[0] \in Nat /\ k \in Nat
        BY <1>2, IdFacts, LoopFacts DEF TypeOK
      <4>2. CASE loop[0] < k
        BY <1>1, <1>2, <4>1, <4>2, Come DEF Base, IInv
      <4>3. CASE ~(loop[0] < k)
        BY <3>1, <4>1, <4>3
      <4> QED BY <4>2, <4>3
    <3>12. Releases'
      <4>1. \A u \in Ids : release'[u] = release[u] - (IF Posted(k, u) THEN 1 ELSE 0)
                                                    + (IF Posted(k, u)' THEN 1 ELSE 0)
        BY <1>2, <3>7, <3>9, <3>10
      <4> QED BY <1>3, <1>9, <3>9, <3>11, <4>1, ReleasesKept
    <3>13. release' \in [Ids -> Nat]
      BY <1>2, <1>3, <2>2, IdFacts
    <3> QED BY <3>3, <3>6, <3>12, <3>13
  <2> QED BY <2>1, <2>2
<1>12. /\ next_id' = [next_id EXCEPT ![t] = next_id'[t]] /\ next_id'[t] \in Ids \cup {Nobody}
       /\ done' = [done EXCEPT ![k] = done'[k]] /\ done[k] \subseteq done'[k]
       /\ pc'[t] \in BlockPlaces \cup {"pass", "end"} /\ pc[t] # "barrier"
  BY <1>1, <1>3, <1>5, Here DEF BlockPlaces
<1>13. LoopInv(k)' /\ UNCHANGED <<program, loop, arrived>>
  BY <1>1, <1>3, <1>8, <1>11 DEF LoopInv
<1> QED BY <1>4, <1>5, <1>7, <1>11, <1>12, <1>13, InnerStep

-----------------------------------------------------------------------------
(* A thread starts a dynamic loop. *)

LEMMA ApartInQueue ==
  ASSUME Base, NEW k \in OrderedLoops, ~Static(k)
  PROVE  \A j \in 0 .. ws[k].used - 1 : \A l \in 0 .. ws[k].used - 1 :
           j # l => Queued(ws[k], j) # Queued(ws[k], l)
<1> DEFINE w == ws[k]
           n == ws[k].used
<1>1. /\ \A j \in 0 .. n - 1 : iend[Queued(w, j)] \in Nat
      /\ n \in Nat
      /\ \A j, l \in 0 .. n - 1 : j < l => iend[Queued(w, j)] < iend[Queued(w, l)]
  <2>1. Queue(k) /\ n \in 0 .. N /\ \A j \in 0 .. n - 1 : iend[Queued(w, j)] \in Nat
    BY QueueTypes
  <2> QED BY <2>1, IdFacts DEF Queue, QueueOrder
<1> HIDE DEF w, n
<1>2. \A j, l \in 0 .. n - 1 : j # l => j < l \/ l < j
  BY <1>1
<1>3. \A j, l \in 0 .. n - 1 : j < l => Queued(w, j) # Queued(w, l)
  BY <1>1
<1> QED BY <1>2, <1>3 DEF w, n

(* The ring has room for every thread that is not on the queue.            *)
LEMMA Room ==
  ASSUME Base, NEW k \in OrderedLoops, ~Static(k), NEW t \in Ids, ~Holds(t, k)
  PROVE  ws[k].used \in 0 .. N - 1
<1> DEFINE w == ws[k]
           n == ws[k].used
           f == [j \in 0 .. n - 1 |-> Queued(w, j)]
<1>1. n \in 0 .. N /\ \A j \in 0 .. n - 1 : Queued(w, j) \in Ids /\ Queued(w, j) # t
  BY QueueTypes
<1>2. \A j \in 0 .. n - 1 : \A l \in 0 .. n - 1 : j # l => Queued(w, j) # Queued(w, l)
  BY ApartInQueue
<1>3. SUFFICES ASSUME n = N PROVE FALSE
  BY <1>1, IdFacts
<1> HIDE DEF n
<1>4. IsFiniteSet(Ids) /\ Cardinality(Ids) = N
  <2>1. 0 \in Int /\ N - 1 \in Int /\ ~(0 > N - 1) /\ N - 1 - 0 + 1 = N
    BY IdFacts
  <2>2. IsFiniteSet(0 .. N - 1) /\ Cardinality(0 .. N - 1) = N
    BY <2>1, FS_Interval
  <2> QED BY <2>2, IdFacts
<1>5. IsFiniteSet(Ids \ {t}) /\ Cardinality(Ids \ {t}) = N - 1
  BY <1>4, FS_RemoveElement
<1>6. f \in [Ids -> Ids \ {t}]
  BY <1>1, <1>3, IdFacts
<1>7. Cardinality(Ids \ {t}) < Cardinality(Ids)
  BY <1>4, <1>5, IdFacts
<1>8. \E x, y \in Ids : x # y /\ f[x] = f[y]
  <2> HIDE DEF f
  <2> QED BY <1>4, <1>5, <1>6, <1>7, FS_PigeonHole
<1> QED BY <1>2, <1>3, <1>8, IdFacts

LEMMA EnterQueue ==
  ASSUME NEW w \in WorkShares, w.used \in 0 .. N - 1, NEW t \in Ids, NEW x \in Nat
  PROVE  LET v == First([w EXCEPT !.init = TRUE, !.next = x], t) IN
         /\ v \in WorkShares /\ v.used = w.used + 1 /\ v.next = x /\ v.init
         /\ v.owner = w.owner
         /\ \A j \in 0 .. w.used - 1 : Queued(v, j) = Queued(w, j)
         /\ Queued(v, w.used) = t
<1> DEFINE v == First([w EXCEPT !.init = TRUE, !.next = x], t)
           ids == [w.ids EXCEPT ![Wrap(w.cur + w.used)] = t]
<1>1. w.cur \in Ids /\ w.ids \in [Ids -> Ids]
  BY DEF WorkShares
<1>2. /\ \A j \in 0 .. N : Wrap(w.cur + j) \in Ids
      /\ \A j, l \in 0 .. N - 1 : Wrap(w.cur + j) = Wrap(w.cur + l) => j = l
  BY <1>1, WrapFacts
<1>3. /\ w.used \in 0 .. N /\ w.used + 1 \in 0 .. N
      /\ \A j \in 0 .. w.used - 1 : j \in 0 .. N - 1 /\ j \in 0 .. N /\ j # w.used
  BY IdFacts
<1>4. v = [w EXCEPT !.init = TRUE, !.next = x, !.ids = ids, !.used = w.used + 1]
  BY DEF First, WorkShares
<1>5. ids \in [Ids -> Ids]
  BY <1>1
<1>6. /\ v \in WorkShares /\ v.used = w.used + 1 /\ v.next = x /\ v.init
      /\ v.owner = w.owner /\ v.cur = w.cur /\ v.ids = ids
  <2> HIDE DEF ids
  <2> QED BY <1>3, <1>4, <1>5 DEF WorkShares
<1>7. /\ \A j \in 0 .. w.used - 1 : ids[Wrap(w.cur + j)] = w.ids[Wrap(w.cur + j)]
      /\ ids[Wrap(w.cur + w.used)] = t
  BY <1>1, <1>2, <1>3
<1> HIDE DEF v, ids
<1>8. /\ \A j \in 0 .. w.used - 1 : Queued(v, j) = Queued(w, j)
      /\ Queued(v, w.used) = t
  BY <1>6, <1>7 DEF Queued
<1> QED BY <1>6, <1>8 DEF v

LEMMA QueueJoined ==
  ASSUME Base, NEW t \in Ids, NEW k \in OrderedLoops, loop[t] = k, pc[t] = "start", ~Static(k),
         UNCHANGED <<program, loop, done>>, \A u \in Ids : u # t => Same(u), pc'[t] = "body",
         ws'[k] = First([ws[k] EXCEPT !.init = TRUE, !.next = iend'[t]], t),
         i'[t] = ws[k].next, iend'[t] \in ws[k].next + 1 .. program[k].n
  PROVE  /\ Queue(k)'
         /\ ws'[k] \in WorkShares /\ ws'[k].init /\ ws'[k].owner = ws[k].owner
         /\ ws'[k].used = ws[k].used + 1 /\ ws[k].used \in Nat
         /\ Queued(ws'[k], 0) = IF ws[k].used = 0 THEN t ELSE Queued(ws[k], 0)
<1> DEFINE w == ws[k]
           v == ws'[k]
           n == ws[k].used
<1>1. /\ Queue(k) /\ w.next \in Nat /\ program[k].n \in Nat
      /\ \A j \in 0 .. n - 1 : /\ Queued(w, j) \in Ids /\ Holds(Queued(w, j), k)
                               /\ i[Queued(w, j)] \in Nat /\ iend[Queued(w, j)] \in Nat
      /\ \A u \in Ids : Holds(u, k) => i[u] \in Nat /\ iend[u] \in Nat
  BY QueueTypes
<1>2. ~Holds(t, k)
  BY DEF Holds, BlockPlaces
<1>3. n \in 0 .. N - 1 /\ w \in WorkShares
  BY <1>2, Room, Here
<1>4. /\ i'[t] \in Nat /\ iend'[t] \in Nat /\ i'[t] < iend'[t]
      /\ i'[t] = w.next /\ iend'[t] <= program[k].n /\ iend'[t] > 0
  BY <1>1
<1>5. /\ v \in WorkShares /\ v.used = n + 1 /\ v.next = iend'[t] /\ v.init
      /\ v.owner = w.owner
      /\ \A j \in 0 .. n - 1 : Queued(v, j) = Queued(w, j)
      /\ Queued(v, n) = t
  <2> DEFINE x == iend'[t]
             f == First([w EXCEPT !.init = TRUE, !.next = x], t)
  <2>1. x \in Nat /\ v = f
    BY <1>4
  <2> HIDE DEF v, x, n
  <2>2. /\ f \in WorkShares /\ f.used = w.used + 1 /\ f.next = x /\ f.init
        /\ f.owner = w.owner
        /\ \A j \in 0 .. w.used - 1 : Queued(f, j) = Queued(w, j)
        /\ Queued(f, w.used) = t
    BY <1>3, <2>1, EnterQueue DEF n
  <2> QED BY <2>1, <2>2 DEF x, n
<1>6. n \in Nat /\ n + 1 - 1 = n
  BY <1>3, IdFacts
<1> HIDE DEF v, n
<1>7. \A j \in 0 .. n : j = n \/ j \in 0 .. n - 1
  BY <1>6
<1>8. \A u \in Ids : u # t => /\ Holds(u, k)' <=> Holds(u, k)
                              /\ Within(u) => Within(u)'
                              /\ i'[u] = i[u] /\ iend'[u] = iend[u]
  BY DEF Same, Holds, Within
<1>9. Holds(t, k)' /\ Within(t)'
  BY <1>4 DEF Holds, Within, BlockPlaces
<1>10. \A j \in 0 .. n - 1 : /\ Queued(w, j) # t
                             /\ iend'[Queued(v, j)] = iend[Queued(w, j)]
                             /\ i'[Queued(v, j)] = i[Queued(w, j)]
                             /\ iend[Queued(w, j)] <= w.next
                             /\ iend[Queued(w, j)] \in Nat
  <2>1. SUFFICES ASSUME NEW j \in 0 .. n - 1
                 PROVE  /\ Queued(w, j) # t
                        /\ iend'[Queued(v, j)] = iend[Queued(w, j)]
                        /\ i'[Queued(v, j)] = i[Queued(w, j)]
                        /\ iend[Queued(w, j)] <= w.next
                        /\ iend[Queued(w, j)] \in Nat
    OBVIOUS
  <2>2. /\ Queued(w, j) \in Ids /\ Queued(w, j) # t /\ Queued(v, j) = Queued(w, j)
        /\ iend[Queued(w, j)] \in Nat
    BY <1>1, <1>2, <1>5 DEF n
  <2>3. iend[Queued(w, j)] <= w.next
    <3>1. n > 0 /\ n - 1 \in 0 .. n - 1
      BY <1>6
    <3>2. iend[Queued(w, n - 1)] = w.next
      BY <1>1, <3>1 DEF Queue, QueueEnd, n
    <3>3. CASE j = n - 1
      BY <1>1, <3>2, <3>3
    <3>4. CASE j # n - 1
      <4>1. j < n - 1
        BY <1>6, <3>4
      <4>2. iend[Queued(w, j)] < iend[Queued(w, n - 1)]
        BY <1>1, <3>1, <4>1 DEF Queue, QueueOrder, n
      <4> QED BY <1>1, <2>2, <3>2, <4>2
    <3> QED BY <3>3, <3>4
  <2> QED BY <1>8, <2>2, <2>3
<1>11. QueueEnd(k)'
  <2>1. n + 1 > 0
    BY <1>6
  <2> QED BY <1>4, <1>5, <1>6, <2>1 DEF QueueEnd, v
<1>12. QueueMembers(k)'
  <2>1. \A u \in Ids : /\ Holds(u, k) <=> \E j \in 0 .. n - 1 : Queued(w, j) = u
                       /\ Holds(u, k) => Within(u)
    BY <1>1 DEF Queue, QueueMembers, n
  <2>2. 0 .. n - 1 \subseteq 0 .. n /\ n \in 0 .. n
    BY <1>6
  <2>3. ASSUME NEW u \in Ids
        PROVE  /\ Holds(u, k)' <=> \E j \in 0 .. n : Queued(v, j) = u
               /\ Holds(u, k)' => Within(u)'
    <3>1. CASE u = t
      BY <1>5, <1>9, <2>2, <3>1
    <3>2. CASE u # t
      <4>1. (\E j \in 0 .. n : Queued(v, j) = u) <=> \E j \in 0 .. n - 1 : Queued(w, j) = u
        BY <1>5, <1>7, <2>2, <3>2
      <4> QED BY <1>8, <2>1, <3>2, <4>1
    <3> QED BY <3>1, <3>2
  <2> QED BY <1>5, <1>6, <2>3 DEF QueueMembers, v
<1>13. QueueOrder(k)'
  <2>1. SUFFICES ASSUME NEW j \in 0 .. n, NEW l \in 0 .. n, j < l
                 PROVE  /\ iend'[Queued(v, j)] <= i'[Queued(v, l)]
                        /\ iend'[Queued(v, j)] < iend'[Queued(v, l)]
    BY <1>5, <1>6 DEF QueueOrder, v
  <2>2. j \in 0 .. n - 1
    BY <1>6, <2>1
  <2>3. CASE l = n
    BY <1>1, <1>4, <1>5, <1>10, <2>2, <2>3
  <2>4. CASE l \in 0 .. n - 1
    BY <1>1, <1>10, <2>1, <2>2, <2>4 DEF Queue, QueueOrder, n
  <2> QED BY <1>7, <2>3, <2>4
<1>14. QueueRest(k)'
  <2>1. SUFFICES ASSUME NEW x \in 0 .. iend'[t] - 1, x \notin done[k]
                 PROVE  \E u \in Ids : Holds(u, k)' /\ i'[u] <= x /\ x < iend'[u]
    BY <1>5 DEF QueueRest, v
  <2>2. CASE x < w.next
    <3>1. x \in 0 .. w.next - 1
      BY <1>1, <1>4, <2>2
    <3>2. PICK u \in Ids : Holds(u, k) /\ i[u] <= x /\ x < iend[u]
      BY <1>1, <2>1, <3>1 DEF Queue, QueueRest
    <3> QED BY <1>2, <1>8, <3>2
  <2>3. CASE ~(x < w.next)
    BY <1>1, <1>4, <1>9, <2>1, <2>3
  <2> QED BY <2>2, <2>3
<1>15. Queued(v, 0) = IF n = 0 THEN t ELSE Queued(w, 0)
  <2>1. n # 0 => 0 \in 0 .. n - 1
    BY <1>6
  <2> QED BY <1>5, <2>1
<1> QED BY <1>5, <1>6, <1>11, <1>12, <1>13, <1>14, <1>15 DEF Queue, v, n

LEMMA StartDynamicStep ==
  ASSUME Base, NEW t \in Ids, NEW k \in OrderedLoops, loop[t] = k, StartDynamic(t)
  PROVE  IInv'
<1> DEFINE w == ws[k]
           lp == program[k]
<1>1. pc[t] = "start" /\ ~Static(k) /\ ~Locked(k)
  BY DEF StartDynamic, Loop, Static
<1>2. /\ TypeOK /\ k \in LoopIds /\ w \in WorkShares /\ LoopInv(k)
      /\ pc \in [Ids -> Places] /\ release \in [Ids -> Nat]
      /\ i[t] \in Nat /\ iend[t] \in Nat /\ trip[t] \in Int /\ lp.chunk \in Nat \ {0}
  BY <1>1, Here, LoopFacts DEF TypeOK
<1>3. /\ Queue(k) /\ w.next \in Nat /\ lp.n \in Nat /\ w.used \in 0 .. N
      /\ \A u \in Ids : loop[u] = k => pc[u] # "pass"
  BY <1>1, QueueTypes DEF Locked
<1>4. /\ UNCHANGED <<program, loop, next_id, arrived, done>>
      /\ Static(k)' <=> Static(k)
  BY DEF StartDynamic, Static
<1>5. /\ next_id' = [next_id EXCEPT ![t] = next_id'[t]] /\ next_id'[t] \in Ids \cup {Nobody}
      /\ done' = [done EXCEPT ![k] = done'[k]] /\ done[k] \subseteq done'[k]
      /\ UNCHANGED <<program, loop, arrived>>
  BY <1>4, Here
<1>6. CASE Exhausted(t)
  <2>1. /\ ws' = [ws EXCEPT ![k] = [w EXCEPT !.init = TRUE]]
        /\ pc' = [pc EXCEPT ![t] = "end"]
        /\ UNCHANGED <<i, iend, trip, release>>
    BY <1>6 DEF StartDynamic, Goto, SetWs, Ws, blockVars
  <2>2. /\ \A u \in Ids : u # t => pc'[u] = pc[u]
        /\ pc'[t] = "end" /\ pc' = [pc EXCEPT ![t] = pc'[t]]
        /\ ws' = [ws EXCEPT ![k] = ws'[k]] /\ ws'[k] = [w EXCEPT !.init = TRUE]
    BY <1>2, <2>1 DEF TypeOK
  <2>3. /\ ws'[k] \in WorkShares /\ ws'[k].init /\ ws'[k].owner = w.owner
        /\ ws'[k].next = w.next /\ ws'[k].used = w.used /\ ws'[k].cur = w.cur
        /\ ws'[k].ids = w.ids
    BY <1>2, <2>2 DEF WorkShares
  <2>4. /\ Leader(k)' = Leader(k)
        /\ Active(k)' <=> Active(k)
        /\ Locked(k)' <=> Locked(k)
    BY <1>1, <1>4, <2>2, <2>3 DEF Leader, Active, Locked
  <2>5. Turn(k)'
    BY <1>1, <1>2, <1>4, <2>1, <2>2, <2>3, <2>4 DEF LoopInv, Turn
  <2>6. Queue(k)'
    <3>1. \A u \in Ids : /\ Holds(u, k)' <=> Holds(u, k)
                         /\ Holds(u, k) /\ Within(u) => Within(u)'
      BY <1>1, <1>4, <2>1, <2>2 DEF Holds, Within, BlockPlaces
    <3>2. UNCHANGED <<program, i, iend, done>>
      BY <1>4, <2>1
    <3> QED BY <1>3, <2>3, <3>1, <3>2, QueueSame
  <2>7. Releases'
    <3>1. \A u \in Ids : Posted(k, u)' <=> Posted(k, u)
      BY <2>3, <2>4 DEF Posted
    <3>2. \A l \in OrderedLoops, u \in Ids : l # k => (Posted(l, u)' <=> Posted(l, u))
      BY <1>5, <2>2, OthersPosted
    <3>3. \A l \in OrderedLoops, u \in Ids : Posted(l, u)' <=> Posted(l, u)
      BY <3>1, <3>2
    <3> QED BY <1>4, <2>1, <3>3, ReleasesSame
  <2>8. /\ i' = [i EXCEPT ![t] = i'[t]] /\ i'[t] \in Nat
        /\ iend' = [iend EXCEPT ![t] = iend'[t]] /\ iend'[t] \in Nat
        /\ trip' = [trip EXCEPT ![t] = trip'[t]] /\ trip'[t] \in Int
        /\ pc'[t] \in BlockPlaces \cup {"pass", "end"} /\ pc[t] # "barrier"
        /\ release' \in [Ids -> Nat]
    BY <1>1, <1>2, <2>1, <2>2, Here
  <2>9. LoopInv(k)'
    BY <1>1, <1>4, <2>5, <2>6 DEF LoopInv
  <2> QED BY <1>5, <2>2, <2>3, <2>7, <2>8, <2>9, InnerStep
<1>7. CASE ~Exhausted(t)
  <2> DEFINE end == w.next + BlockSize(lp, lp.n - w.next)
  <2>1. end \in w.next + 1 .. lp.n
    <3>1. w.next # lp.n
      BY <1>7 DEF Exhausted, Ws, Loop
    <3>2. w.next <= lp.n
      BY <1>3 DEF Queue, QueueEnd
    <3>3. lp.n - w.next \in Nat \ {0}
      BY <1>3, <3>1, <3>2
    <3>4. BlockSize(lp, lp.n - w.next) \in 1 .. lp.n - w.next
      BY <1>2, <3>3, SizeOfBlock
    <3> QED BY <1>3, <3>4
  <2>2. /\ ws' = [ws EXCEPT ![k] = First([w EXCEPT !.init = TRUE, !.next = iend'[t]], t)]
        /\ pc' = [pc EXCEPT ![t] = "body"]
        /\ i' = [i EXCEPT ![t] = w.next]
        /\ iend' = [iend EXCEPT ![t] = end]
        /\ trip' = trip
        /\ IF w.used = 0 THEN release' = [release EXCEPT ![t] = release[t] + 1]
           ELSE release' = release
    BY <1>7 DEF StartDynamic, TakeNext, Goto, SetWs, Ws, Loop, Post
  <2> HIDE DEF end
  <2>3. /\ \A u \in Ids : u # t => pc'[u] = pc[u]
        /\ pc'[t] = "body" /\ pc' = [pc EXCEPT ![t] = pc'[t]]
        /\ ws' = [ws EXCEPT ![k] = ws'[k]]
        /\ ws'[k] = First([w EXCEPT !.init = TRUE, !.next = iend'[t]], t)
        /\ i'[t] = w.next /\ i' = [i EXCEPT ![t] = i'[t]]
        /\ iend'[t] = end /\ iend' = [iend EXCEPT ![t] = iend'[t]]
        /\ \A u \in Ids : u # t => Same(u)
    BY <1>2, <1>4, <2>2 DEF TypeOK, Same
  <2>4. /\ Queue(k)'
        /\ ws'[k] \in WorkShares /\ ws'[k].init /\ ws'[k].owner = w.owner
        /\ ws'[k].used = w.used + 1 /\ w.used \in Nat
        /\ Queued(ws'[k], 0) = IF w.used = 0 THEN t ELSE Queued(w, 0)
    <3>1. UNCHANGED <<program, loop, done>>
      BY <1>4
    <3>2. iend'[t] \in w.next + 1 .. lp.n
      BY <2>1, <2>3
    <3> QED BY <1>1, <2>3, <3>1, <3>2, QueueJoined
  <2>5. Leader(k)' = Queued(ws'[k], 0) /\ Leader(k) = Queued(w, 0)
    <3>1. \A x \in WorkShares : x.ids[x.cur] = Queued(x, 0)
      BY WrapFacts DEF WorkShares, Queued
    <3> QED BY <1>1, <1>2, <1>4, <2>4, <3>1 DEF Leader
  <2>6. /\ Active(k)'
        /\ Active(k) <=> w.used > 0
        /\ ~Locked(k)'
    <3>1. ~Locked(k)'
      BY <1>3, <1>4, <2>3 DEF Locked
    <3>2. ws'[k].used > 0
      BY <2>4
    <3> QED BY <1>1, <1>4, <3>1, <3>2 DEF Active
  <2>7. w.owner # Nobody => w.used > 0 /\ w.owner = Leader(k)
    BY <1>2, <2>6 DEF LoopInv, Turn
  <2>8. Turn(k)'
    <3>1. \A u \in Ids : loop[u] = k => /\ pc[u] \in {"ordered", "next"} => w.owner = u
                                        /\ pc[u] \in {"wait", "resync"} => w.owner # u
      BY <1>2 DEF LoopInv, Turn
    <3>2. ws'[k].owner # Nobody => ws'[k].owner = Leader(k)'
      BY <2>4, <2>5, <2>7
    <3> QED BY <1>3, <1>4, <2>3, <2>4, <2>6, <3>1, <3>2 DEF Turn
  <2>9. \A l \in OrderedLoops, u \in Ids : l # k => (Posted(l, u)' <=> Posted(l, u))
    BY <1>5, <2>3, OthersPosted
  <2>10. Releases' /\ release' \in [Ids -> Nat]
    <3>1. CASE w.used = 0
      <4>1. \A u \in Ids : ~Posted(k, u)
        BY <2>6, <3>1 DEF Posted
      <4>2. \A u \in Ids : Posted(k, u)' <=> u = t
        BY <2>4, <2>5, <2>6, <2>7, <3>1, IdFacts DEF Posted
      <4>3. release' = [release EXCEPT ![t] = release[t] + 1]
        BY <2>2, <3>1
      <4>4. \A u \in Ids : release'[u] = release[u] - (IF Posted(k, u) THEN 1 ELSE 0)
                                                    + (IF Posted(k, u)' THEN 1 ELSE 0)
        <5>1. \A u \in Ids : release'[u] = release[u] + (IF u = t THEN 1 ELSE 0)
          BY <1>2, <4>3
        <5> QED BY <1>2, <4>1, <4>2, <5>1
      <4>5. loop[t] = k /\ pc[t] # "barrier"
        BY <1>1
      <4>6. Releases'
        BY <1>4, <2>9, <4>2, <4>4, <4>5, ReleasesKept
      <4> QED BY <1>2, <4>3, <4>6
    <3>2. CASE w.used # 0
      <4>1. \A u \in Ids : Posted(k, u)' <=> Posted(k, u)
        BY <1>1, <2>4, <2>5, <2>6, <3>2 DEF Posted
      <4>2. \A l \in OrderedLoops, u \in Ids : Posted(l, u)' <=> Posted(l, u)
        BY <2>9, <4>1
      <4> QED BY <1>2, <1>4, <2>2, <3>2, <4>2, ReleasesSame
    <3> QED BY <3>1, <3>2
  <2>11. /\ i'[t] \in Nat /\ iend'[t] \in Nat
         /\ trip' = [trip EXCEPT ![t] = trip'[t]] /\ trip'[t] \in Int
         /\ pc'[t] \in BlockPlaces \cup {"pass", "end"} /\ pc[t] # "barrier"
    <3>1. trip' = [trip EXCEPT ![t] = trip'[t]] /\ trip'[t] \in Int
      BY <1>2, <2>2, Here
    <3> QED BY <1>1, <1>3, <2>1, <2>3, <3>1 DEF BlockPlaces
  <2>12. LoopInv(k)'
    BY <1>1, <1>4, <2>4, <2>8 DEF LoopInv
  <2> QED BY <1>5, <2>3, <2>4, <2>10, <2>11, <2>12, InnerStep
<1> QED BY <1>6, <1>7

-----------------------------------------------------------------------------
(* The steps of a thread that is not within an ordered loop. *)

LEMMA IdleStep ==
  ASSUME Base, NEW t \in Ids, UNCHANGED <<program, release>>, \A u \in Ids : u # t => Same(u),
         \A l \in OrderedLoops :
           /\ ws'[l] = ws[l] /\ done'[l] = done[l] /\ Idle(t, l) /\ Idle(t, l)'
           /\ Static(l) /\ ws[l].init => /\ Coming(t, l)' => Coming(t, l)
                                         /\ Ended(t, l)' => Ended(t, l),
         pc[t] # "pass", pc'[t] # "pass", TypeOK', Barriers'
  PROVE  IInv'
<1>1. OrderedLoops' = OrderedLoops
  BY ProgramKept
<1>2. \A l \in OrderedLoops : LoopInv(l)'
  <2>1. SUFFICES ASSUME NEW l \in OrderedLoops PROVE LoopInv(l)'
    OBVIOUS
  <2>2. TypeOK /\ LoopInv(l) /\ done[l] \subseteq done'[l]
    BY DEF Base, IInv
  <2>3. \A u \in Ids : \/ Same(u)
                       \/ /\ Idle(u, l) /\ Idle(u, l)'
                          /\ Static(l) /\ ws[l].init =>
                               /\ Coming(u, l)' => Coming(u, l)
                               /\ Ended(u, l)' => Ended(u, l)
    OBVIOUS
  <2> QED BY <2>2, <2>3, LoopKept
<1>3. Releases'
  <2>1. \A u \in Ids, l \in OrderedLoops :
          loop'[u] = l /\ pc'[u] = "pass" <=> loop[u] = l /\ pc[u] = "pass"
    BY DEF Same
  <2>2. \A l \in OrderedLoops, u \in Ids : Posted(l, u)' <=> Posted(l, u)
    BY <2>1, PostedKept
  <2> QED BY <2>2, ReleasesSame
<1> QED BY <1>1, <1>2, <1>3 DEF IInv

LEMMA LoopOf ==
  ASSUME Base, NEW t \in Ids, pc[t] # "done"
  PROVE  /\ TypeOK /\ loop[t] \in LoopIds /\ loop[t] \in Nat \ {0} /\ loop[t] <= Len(program)
         /\ Len(program) \in Nat
<1>1. TypeOK /\ loop[t] \in LoopIds
  BY DEF Base, IInv, TypeOK
<1> QED BY <1>1, LoopFacts DEF LoopIds

LEMMA EndArriveStep ==
  ASSUME Base, NEW t \in Ids, EndArrive(t)
  PROVE  IInv'
<1> DEFINE k == loop[t]
<1>1. pc[t] = "end" /\ ~program[k].nowait
  BY DEF EndArrive, Loop
<1>2. /\ TypeOK /\ k \in LoopIds /\ k \in Nat \ {0} /\ Barriers
      /\ pc \in [Ids -> Places] /\ arrived \in [LoopIds -> SUBSET Ids]
      /\ loop \in [Ids -> 1 .. Len(program) + 1] /\ Len(program) \in Nat
  BY <1>1, LoopOf DEF TypeOK, Base, IInv
<1>3. /\ UNCHANGED <<program, ws, release, loop, i, iend, trip, next_id, done>>
      /\ pc' = [pc EXCEPT ![t] = "barrier"]
      /\ arrived' = [arrived EXCEPT ![k] = arrived[k] \cup {t}]
  BY DEF EndArrive, Goto, blockVars
<1> HIDE DEF k
<1>4. /\ \A u \in Ids : u # t => pc'[u] = pc[u] /\ Same(u)
      /\ pc'[t] = "barrier"
      /\ \A l \in LoopIds : l # k => arrived'[l] = arrived[l]
      /\ arrived'[k] = arrived[k] \cup {t}
      /\ loop[t] = k
  BY <1>2, <1>3 DEF Same, k
<1>5. LoopIds' = LoopIds /\ OrderedLoops' = OrderedLoops
  BY <1>3, ProgramKept
<1>6. TypeOK'
  <2>1. pc' \in [Ids -> Places] /\ arrived' \in [LoopIds -> SUBSET Ids]
    BY <1>2, <1>3 DEF Places
  <2>2. \A u \in Ids : /\ loop[u] \in LoopIds <=> pc'[u] # "done"
                       /\ pc'[u] \in BlockPlaces \cup {"pass"} => loop[u] \in OrderedLoops
                       /\ pc'[u] \in CrossPlaces => loop[u] \notin OrderedLoops
    BY <1>1, <1>2, <1>4 DEF TypeOK, BlockPlaces, CrossPlaces
  <2> QED BY <1>2, <1>3, <1>5, <2>1, <2>2 DEF TypeOK, WorkShares
<1>7. Barriers'
  <2>1. ASSUME NEW l \in LoopIds, ~program[l].nowait
        PROVE  /\ \A u \in Ids : u \in arrived'[l] <=> loop[u] > l \/ (loop[u] = l /\ pc'[u] = "barrier")
               /\ \A u \in Ids : loop[u] > l => arrived'[l] = Ids
    <3>1. /\ \A u \in Ids : u \in arrived[l] <=> loop[u] > l \/ (loop[u] = l /\ pc[u] = "barrier")
          /\ \A u \in Ids : loop[u] > l => arrived[l] = Ids
      BY <1>2, <2>1 DEF Barriers
    <3> QED BY <1>1, <1>4, <3>1
  <2>2. ASSUME NEW l \in OrderedLoops
        PROVE  ws[l].init <=> \E u \in Ids : loop[u] > l \/ (loop[u] = l /\ pc'[u] # "start")
    <3>1. l \in LoopIds
      BY DEF OrderedLoops
    <3>2. ws[l].init <=> \E u \in Ids : loop[u] > l \/ (loop[u] = l /\ pc[u] # "start")
      BY <1>2, <3>1 DEF Barriers
    <3>3. \A u \in Ids : pc'[u] # "start" <=> pc[u] # "start"
      BY <1>1, <1>4
    <3> QED BY <3>2, <3>3
  <2> QED BY <1>3, <1>5, <2>1, <2>2 DEF Barriers
<1>8. ASSUME NEW l \in OrderedLoops
      PROVE  /\ Idle(t, l) /\ Idle(t, l)'
             /\ Static(l) /\ ws[l].init => /\ Coming(t, l)' => Coming(t, l)
                                           /\ Ended(t, l)' => Ended(t, l)
  <2>1. Idle(t, l) /\ Idle(t, l)' /\ (Ended(t, l)' => Ended(t, l))
    BY <1>1, <1>3, <1>4 DEF Idle, Ended
  <2>2. ASSUME ws[l].init, loop[t] = l - 1
        PROVE  FALSE
    <3>1. l \in LoopIds /\ l \in Nat
      BY <1>2, LoopFacts DEF OrderedLoops
    <3>2. PICK u \in Ids : loop[u] > l \/ loop[u] = l
      BY <1>2, <2>2, <3>1 DEF Barriers
    <3>3. loop[u] > k
      BY <1>2, <1>4, <2>2, <3>1, <3>2
    <3>4. t \in arrived[k]
      BY <1>1, <1>2, <3>3 DEF Barriers
    <3>5. loop[t] > k \/ pc[t] = "barrier"
      BY <1>1, <1>2, <3>4 DEF Barriers
    <3> QED BY <1>1, <1>2, <1>4, <3>5
  <2> QED BY <1>1, <1>3, <1>4, <2>1, <2>2 DEF Coming
<1>9. UNCHANGED <<program, release>> /\ \A l \in OrderedLoops : ws'[l] = ws[l] /\ done'[l] = done[l]
  BY <1>3
<1>10. pc[t] # "pass" /\ pc'[t] # "pass" /\ \A u \in Ids : u # t => Same(u)
  BY <1>1, <1>4
<1> QED BY <1>6, <1>7, <1>8, <1>9, <1>10, IdleStep

LEMMA MoveOnStep ==
  ASSUME Base, NEW t \in Ids, MoveOn(t), UNCHANGED arrived,
         \/ pc[t] = "end" /\ Loop(t).nowait
         \/ pc[t] = "barrier" /\ arrived[loop[t]] = Ids
  PROVE  IInv'
<1> DEFINE k == loop[t]
           place == IF k = Len(program) THEN "done" ELSE "start"
<1>1. \/ pc[t] = "end" /\ program[k].nowait
      \/ pc[t] = "barrier" /\ arrived[k] = Ids
  BY DEF Loop
<1>2. /\ TypeOK /\ k \in LoopIds /\ k \in Nat \ {0} /\ k <= Len(program) /\ Barriers
      /\ pc \in [Ids -> Places] /\ loop \in [Ids -> 1 .. Len(program) + 1] /\ Len(program) \in Nat
  BY <1>1, LoopOf DEF TypeOK, Base, IInv
<1>3. /\ UNCHANGED <<program, ws, release, next_id, arrived, done>>
      /\ loop' = [loop EXCEPT ![t] = k + 1]
      /\ i' = [i EXCEPT ![t] = 0] /\ iend' = [iend EXCEPT ![t] = 0] /\ trip' = [trip EXCEPT ![t] = 0]
      /\ pc' = [pc EXCEPT ![t] = place]
  BY DEF MoveOn, Goto
<1> HIDE DEF k, place
<1>4. /\ \A u \in Ids : u # t => Same(u)
      /\ pc'[t] = place /\ loop'[t] = k + 1 /\ loop[t] = k
      /\ i'[t] = 0 /\ iend'[t] = 0 /\ trip'[t] = 0
  BY <1>2, <1>3 DEF Same, TypeOK, k
<1>5. LoopIds' = LoopIds /\ OrderedLoops' = OrderedLoops
  BY <1>3, ProgramKept
<1>6. /\ place \in {"done", "start"}
      /\ k + 1 \in LoopIds <=> place # "done"
      /\ k + 1 \in 1 .. Len(program) + 1
  BY <1>2 DEF place, LoopIds
<1>7. TypeOK'
  <2>1. pc' \in [Ids -> Places] /\ loop' \in [Ids -> 1 .. Len(program) + 1]
    BY <1>2, <1>3, <1>6 DEF Places
  <2>2. ASSUME NEW u \in Ids
        PROVE  /\ loop'[u] \in OrderedLoops => i'[u] \in Nat /\ iend'[u] \in Nat /\ trip'[u] \in Int
               /\ loop'[u] \in LoopIds <=> pc'[u] # "done"
               /\ pc'[u] \in BlockPlaces \cup {"pass"} => loop'[u] \in OrderedLoops
               /\ pc'[u] \in CrossPlaces => loop'[u] \notin OrderedLoops
    <3>1. CASE u = t
      BY <1>4, <1>6, <3>1 DEF BlockPlaces, CrossPlaces
    <3>2. CASE u # t
      BY <1>2, <1>4, <3>2 DEF TypeOK, Same
    <3> QED BY <3>1, <3>2
  <2>3. i' = [u \in Ids |-> i'[u]] /\ iend' = [u \in Ids |-> iend'[u]] /\ trip' = [u \in Ids |-> trip'[u]]
    BY <1>2, <1>3 DEF TypeOK
  <2>4. /\ program' \in Programs /\ ws' = [l \in LoopIds |-> ws'[l]]
        /\ \A l \in OrderedLoops : ws'[l] \in WorkShares
        /\ release' \in [Ids -> Nat] /\ next_id' \in [Ids -> Ids \cup {Nobody}]
        /\ arrived' \in [LoopIds -> SUBSET Ids] /\ done' = [l \in LoopIds |-> done'[l]]
        /\ Len(program)' = Len(program)
    BY <1>2, <1>3 DEF TypeOK
  <2> QED BY <1>5, <2>1, <2>2, <2>3, <2>4 DEF TypeOK, WorkShares
<1>8. Barriers'
  <2>1. ASSUME NEW l \in LoopIds, ~program[l].nowait
        PROVE  /\ \A u \in Ids : u \in arrived[l] <=> loop'[u] > l \/ (loop'[u] = l /\ pc'[u] = "barrier")
               /\ \A u \in Ids : loop'[u] > l => arrived[l] = Ids
    <3>1. /\ \A u \in Ids : u \in arrived[l] <=> loop[u] > l \/ (loop[u] = l /\ pc[u] = "barrier")
          /\ \A u \in Ids : loop[u] > l => arrived[l] = Ids
      BY <1>2, <2>1 DEF Barriers
    <3>2. l \in Nat
      BY <1>2, LoopFacts
    <3>3. l = k => pc[t] = "barrier" /\ arrived[k] = Ids
      BY <1>1, <2>1
    <3>4. \A u \in Ids : u # t => loop'[u] = loop[u] /\ pc'[u] = pc[u]
      BY <1>4 DEF Same
    <3>5. t \in arrived[l] <=> loop'[t] > l \/ (loop'[t] = l /\ pc'[t] = "barrier")
      BY <1>2, <1>4, <1>6, <3>1, <3>2, <3>3
    <3>6. loop'[t] > l => arrived[l] = Ids
      BY <1>2, <1>4, <3>1, <3>2, <3>3
    <3> QED BY <3>1, <3>4, <3>5, <3>6
  <2>2. ASSUME NEW l \in OrderedLoops
        PROVE  ws[l].init <=> \E u \in Ids : loop'[u] > l \/ (loop'[u] = l /\ pc'[u] # "start")
    <3>1. l \in LoopIds /\ l \in Nat
      BY <1>2, LoopFacts DEF OrderedLoops
    <3>2. ws[l].init <=> \E u \in Ids : loop[u] > l \/ (loop[u] = l /\ pc[u] # "start")
      BY <1>2, <3>1 DEF Barriers
    <3>3. loop'[t] > l \/ (loop'[t] = l /\ pc'[t] # "start")
            <=> loop[t] > l \/ (loop[t] = l /\ pc[t] # "start")
      BY <1>1, <1>2, <1>4, <1>6, <3>1
    <3>4. \A u \in Ids : u # t => loop'[u] = loop[u] /\ pc'[u] = pc[u]
      BY <1>4 DEF Same
    <3> QED BY <3>2, <3>3, <3>4
  <2> QED BY <1>3, <1>5, <2>1, <2>2 DEF Barriers
<1>9. ASSUME NEW l \in OrderedLoops
      PROVE  /\ Idle(t, l) /\ Idle(t, l)'
             /\ Static(l) /\ ws[l].init => /\ Coming(t, l)' => Coming(t, l)
                                           /\ Ended(t, l)' => Ended(t, l)
  <2>1. l \in LoopIds /\ l \in Nat
    BY <1>2, LoopFacts DEF OrderedLoops
  <2>2. Idle(t, l) /\ Idle(t, l)'
    BY <1>1, <1>4, <1>6, <2>1 DEF Idle
  <2>3. Ended(t, l)' => Ended(t, l)
    BY <1>1, <1>2, <1>4, <1>6, <2>1 DEF Ended
  <2>4. ASSUME Static(l), Coming(t, l)'
        PROVE  Coming(t, l)
    <3>1. l = k + 1
      BY <1>2, <1>4, <1>6, <2>1, <2>4 DEF Coming
    <3>2. l > 1 /\ l - 1 = k
      BY <1>2, <3>1
    <3>3. ~program[k].nowait
      BY <1>2, <2>4, <3>2, ApartFacts DEF Base
    <3> QED BY <1>1, <1>4, <3>2, <3>3 DEF Coming
  <2> QED BY <2>2, <2>3, <2>4
<1>10. UNCHANGED <<program, release>> /\ \A l \in OrderedLoops : ws'[l] = ws[l] /\ done'[l] = done[l]
  BY <1>3
<1>11. pc[t] # "pass" /\ pc'[t] # "pass"
  BY <1>1, <1>4, <1>6
<1> QED BY <1>4, <1>7, <1>8, <1>9, <1>10, <1>11, IdleStep

(* A doacross loop disturbs no ordered one. *)
LEMMA CrossFrame ==
  ASSUME Base, NEW t \in Ids, loop[t] \notin OrderedLoops, pc[t] \in CrossPlaces \cup {"start"},
         UNCHANGED <<program, release, loop, next_id, arrived>>,
         pc' = [pc EXCEPT ![t] = pc'[t]], pc'[t] \in CrossPlaces \cup {"end"},
         ws' = [k \in LoopIds |-> ws'[k]], done' = [k \in LoopIds |-> done'[k]],
         \A k \in OrderedLoops : ws'[k] = ws[k] /\ done'[k] = done[k],
         i' = [u \in Ids |-> i'[u]], iend' = [u \in Ids |-> iend'[u]], trip' = [u \in Ids |-> trip'[u]],
         \A u \in Ids : u # t => i'[u] = i[u] /\ iend'[u] = iend[u] /\ trip'[u] = trip[u]
  PROVE  IInv'
<1>1. /\ pc[t] \notin {"barrier", "done", "pass"} \cup BlockPlaces
      /\ pc'[t] \notin {"start", "barrier", "done", "pass"} \cup BlockPlaces
  BY DEF CrossPlaces, BlockPlaces
<1>2. /\ TypeOK /\ Barriers /\ loop[t] \in LoopIds
      /\ \A u \in Ids : u # t => Same(u)
  BY <1>1, LoopOf DEF Base, IInv, Same, TypeOK
<1>3. LoopIds' = LoopIds /\ OrderedLoops' = OrderedLoops
  BY ProgramKept
<1>4. TypeOK'
  <2>1. pc' \in [Ids -> Places]
    <3>1. pc \in [Ids -> Places] /\ pc'[t] \in Places
      BY <1>2 DEF TypeOK, Places
    <3> QED BY <3>1
  <2>2. ASSUME NEW u \in Ids
        PROVE  /\ loop[u] \in OrderedLoops => i'[u] \in Nat /\ iend'[u] \in Nat /\ trip'[u] \in Int
               /\ loop[u] \in LoopIds <=> pc'[u] # "done"
               /\ pc'[u] \in BlockPlaces \cup {"pass"} => loop[u] \in OrderedLoops
               /\ pc'[u] \in CrossPlaces => loop[u] \notin OrderedLoops
    <3>1. CASE u = t
      BY <1>1, <1>2, <3>1
    <3>2. CASE u # t
      BY <1>2, <3>2 DEF TypeOK, Same
    <3> QED BY <3>1, <3>2
  <2>3. /\ program' \in Programs /\ \A l \in OrderedLoops : ws'[l] \in WorkShares
        /\ release' \in [Ids -> Nat] /\ next_id' \in [Ids -> Ids \cup {Nobody}]
        /\ arrived' \in [LoopIds -> SUBSET Ids]
        /\ loop' \in [Ids -> 1 .. Len(program) + 1] /\ Len(program)' = Len(program)
    BY <1>2 DEF TypeOK
  <2> QED BY <1>3, <2>1, <2>2, <2>3 DEF TypeOK, WorkShares
<1>5. Barriers'
  <2>1. \A k \in OrderedLoops : ws'[k].init <=> ws[k].init \/ loop[t] = k
    OBVIOUS
  <2> QED BY <1>1, <1>2, <2>1, BarriersKept DEF Same
<1>6. ASSUME NEW l \in OrderedLoops
      PROVE  /\ Idle(t, l) /\ Idle(t, l)'
             /\ Coming(t, l)' => Coming(t, l)
             /\ Ended(t, l)' => Ended(t, l)
  BY <1>1 DEF Idle, Coming, Ended
<1> QED BY <1>1, <1>2, <1>4, <1>5, <1>6, IdleStep

LEMMA CrossStepHolds ==
  ASSUME Base, NEW t \in Ids, pc[t] # "done", IsDoacross(Loop(t)), CrossStep(t)
  PROVE  IInv'
<1> DEFINE k == loop[t]
<1>1. CASE EndNowait(t)
  BY <1>1, MoveOnStep DEF EndNowait
<1>2. CASE EndArrive(t)
  BY <1>2, EndArriveStep
<1>3. CASE EndBarrier(t)
  BY <1>3, MoveOnStep DEF EndBarrier
<1>4. ASSUME pc[t] \in CrossPlaces \cup {"start"}, UNCHANGED <<program, release, loop, next_id, arrived>>,
             pc' = pc \/ \E place \in CrossPlaces \cup {"end"} : pc' = [pc EXCEPT ![t] = place],
             pc[t] = "start" => pc' # pc,
             ws' = ws \/ \E w : ws' = [ws EXCEPT ![k] = w],
             done' = done \/ \E d : done' = [done EXCEPT ![k] = d],
             i' = i \/ \E x : i' = [i EXCEPT ![t] = x],
             iend' = iend \/ \E x : iend' = [iend EXCEPT ![t] = x],
             trip' = trip \/ \E x : trip' = [trip EXCEPT ![t] = x]
      PROVE  IInv'
  <2>1. TypeOK /\ k \in LoopIds /\ k \notin OrderedLoops
    BY LoopOf DEF OrderedLoops, IsDoacross, Loop
  <2>2. /\ ws' = [l \in LoopIds |-> ws'[l]] /\ done' = [l \in LoopIds |-> done'[l]]
        /\ \A l \in OrderedLoops : ws'[l] = ws[l] /\ done'[l] = done[l]
    BY <1>4, <2>1 DEF TypeOK, OrderedLoops
  <2>3. /\ i' = [u \in Ids |-> i'[u]] /\ \A u \in Ids : u # t => i'[u] = i[u]
        /\ iend' = [u \in Ids |-> iend'[u]] /\ \A u \in Ids : u # t => iend'[u] = iend[u]
        /\ trip' = [u \in Ids |-> trip'[u]] /\ \A u \in Ids : u # t => trip'[u] = trip[u]
    BY <1>4, <2>1 DEF TypeOK
  <2>4. pc' = [pc EXCEPT ![t] = pc'[t]] /\ pc'[t] \in CrossPlaces \cup {"end"}
    <3>1. pc \in [Ids -> Places]
      BY <2>1 DEF TypeOK
    <3> QED BY <1>4, <3>1
  <2> QED BY <1>4, <2>1, <2>2, <2>3, <2>4, CrossFrame
<1>5. ASSUME NEW v, Enter(t, v)
      PROVE  \E place \in CrossPlaces \cup {"end"} : pc' = [pc EXCEPT ![t] = place]
  BY <1>5 DEF Enter, Goto, CrossPlaces
<1>6. CASE StartCross(t)
  <2>1. /\ pc[t] = "start" /\ pc' = [pc EXCEPT ![t] = "block"]
        /\ UNCHANGED <<program, release, loop, i, iend, trip, next_id, arrived, done>>
        /\ ws' = ws \/ \E w : ws' = [ws EXCEPT ![k] = w]
    BY <1>6 DEF StartCross, Goto, SetWs, blockVars
  <2>2. pc \in [Ids -> Places]
    BY LoopOf DEF TypeOK
  <2>3. pc' # pc
    BY <2>1, <2>2
  <2> QED BY <1>4, <2>1, <2>3 DEF CrossPlaces
<1>7. CASE BlockStatic(t)
  <2>1. /\ pc[t] = "block"
        /\ UNCHANGED <<program, ws, release, loop, next_id, arrived, done>>
        /\ \E place \in CrossPlaces \cup {"end"} : pc' = [pc EXCEPT ![t] = place]
    BY <1>5, <1>7 DEF BlockStatic, EnterFirst, Goto
  <2>2. /\ i' = i \/ \E x : i' = [i EXCEPT ![t] = x]
        /\ iend' = iend \/ \E x : iend' = [iend EXCEPT ![t] = x]
        /\ trip' = trip \/ \E x : trip' = [trip EXCEPT ![t] = x]
    BY <1>7 DEF BlockStatic, TakeStatic, blockVars
  <2> QED BY <1>4, <2>1, <2>2 DEF CrossPlaces
<1>8. CASE BlockDynamic(t)
  <2>1. /\ pc[t] = "block"
        /\ UNCHANGED <<program, release, loop, next_id, arrived, done>>
        /\ \E place \in CrossPlaces \cup {"end"} : pc' = [pc EXCEPT ![t] = place]
    BY <1>5, <1>8 DEF BlockDynamic, EnterFirst, Goto
  <2>2. /\ i' = i \/ \E x : i' = [i EXCEPT ![t] = x]
        /\ iend' = iend \/ \E x : iend' = [iend EXCEPT ![t] = x]
        /\ trip' = trip
        /\ ws' = ws \/ \E w : ws' = [ws EXCEPT ![k] = w]
    BY <1>8 DEF BlockDynamic, TakeNext, SetWs, blockVars
  <2> QED BY <1>4, <2>1, <2>2 DEF CrossPlaces
<1>9. CASE Await(t)
  <2>1. /\ pc[t] = "await"
        /\ UNCHANGED <<program, ws, release, loop, i, iend, trip, next_id, arrived, done>>
        /\ pc' = pc \/ \E place \in CrossPlaces \cup {"end"} : pc' = [pc EXCEPT ![t] = place]
    BY <1>9 DEF Await, WaitReturns, Goto, blockVars, CrossPlaces
  <2> QED BY <1>4, <2>1 DEF CrossPlaces
<1>10. CASE Cross(t)
  <2>1. /\ pc[t] = "cross" /\ pc' = [pc EXCEPT ![t] = "post"]
        /\ UNCHANGED <<program, ws, release, loop, i, iend, trip, next_id, arrived>>
        /\ \E d : done' = [done EXCEPT ![k] = d]
    BY <1>10 DEF Cross, Goto, blockVars
  <2> QED BY <1>4, <2>1 DEF CrossPlaces
<1>11. CASE PostCross(t)
  <2>1. /\ pc[t] = "post"
        /\ UNCHANGED <<program, ws, release, loop, iend, trip, next_id, arrived, done>>
    BY <1>11 DEF PostCross
  <2>2. /\ pc' = pc \/ \E place \in CrossPlaces \cup {"end"} : pc' = [pc EXCEPT ![t] = place]
        /\ i' = i \/ \E x : i' = [i EXCEPT ![t] = x]
    <3>1. CASE index[t] = 1
      <4>1. PostReturns(t)
        BY <1>11, <3>1 DEF PostCross
      <4>2. \E x : i' = [i EXCEPT ![t] = x]
        BY <4>1 DEF PostReturns
      <4>3. \E place \in CrossPlaces \cup {"end"} : pc' = [pc EXCEPT ![t] = place]
        BY <1>5, <4>1 DEF PostReturns, Goto, CrossPlaces
      <4> QED BY <4>2, <4>3
    <3>2. CASE index[t] # 1
      BY <1>11, <3>2 DEF PostCross
    <3> QED BY <3>1, <3>2
  <2> QED BY <1>4, <2>1, <2>2 DEF CrossPlaces
<1> QED BY <1>1, <1>2, <1>3, <1>6, <1>7, <1>8, <1>9, <1>10, <1>11 DEF CrossStep

-----------------------------------------------------------------------------
(* The invariant, and what it says. *)

LEMMA OrderedStepHolds ==
  ASSUME Base, NEW t \in Ids, NEW k \in OrderedLoops, loop[t] = k, Step(t)
  PROVE  IInv'
<1>1. CASE StartStatic(t)
  BY <1>1, StartStaticStep
<1>2. CASE StartDynamic(t)
  BY <1>2, StartDynamicStep
<1>3. CASE EndIteration(t)
  BY <1>3, EndIterationStep
<1>4. CASE Sync(t)
  BY <1>4, SyncStep
<1>5. CASE SemWait(t)
  BY <1>5, SemWaitStep
<1>6. CASE NextStatic(t)
  BY <1>6, LastStatic, PassStatic
<1>7. CASE NextDynamic(t)
  BY <1>7, LeaveDynamic, PassDynamic
<1>8. CASE Pass(t)
  BY <1>8, PassStep
<1>9. CASE EndNowait(t)
  BY <1>9, MoveOnStep DEF EndNowait
<1>10. CASE EndArrive(t)
  BY <1>10, EndArriveStep
<1>11. CASE EndBarrier(t)
  BY <1>11, MoveOnStep DEF EndBarrier
<1> QED BY <1>1, <1>2, <1>3, <1>4, <1>5, <1>6, <1>7, <1>8, <1>9, <1>10, <1>11 DEF Step

LEMMA StutterHolds ==
  ASSUME IInv, UNCHANGED vars
  PROVE  IInv'
<1>1. UNCHANGED <<program, ws, release, loop, i, iend, trip, next_id, arrived, done, pc>>
  BY DEF vars
<1>2. TypeOK'
  BY <1>1 DEF IInv, TypeOK, LoopIds, OrderedLoops, WorkShares
<1>3. Barriers'
  BY <1>1 DEF IInv, Barriers, LoopIds, OrderedLoops
<1>4. \A k \in OrderedLoops : LoopInv(k)'
  <2>1. SUFFICES ASSUME NEW k \in OrderedLoops PROVE LoopInv(k)'
    OBVIOUS
  <2>2. TypeOK /\ LoopInv(k) /\ \A u \in Ids : Same(u)
    BY <1>1 DEF IInv, Same
  <2>3. program' = program /\ ws'[k] = ws[k] /\ done[k] \subseteq done'[k]
    BY <1>1
  <2> QED BY <2>2, <2>3, LoopKept
<1>5. Releases'
  <2>1. OrderedLoops' = OrderedLoops
    BY <1>1, ProgramKept
  <2>2. \A l \in OrderedLoops, u \in Ids : Posted(l, u)' <=> Posted(l, u)
    BY <1>1, PostedKept
  <2> QED BY <1>1, <2>1, <2>2 DEF IInv, Releases
<1>6. OrderedLoops' = OrderedLoops
  BY <1>1, ProgramKept
<1> QED BY <1>2, <1>3, <1>4, <1>5, <1>6 DEF IInv

LEMMA NextStep == Base /\ [CrossNext]_allVars => IInv'
<1> SUFFICES ASSUME Base, [CrossNext]_allVars
             PROVE  IInv'
  OBVIOUS
<1>1. CASE UNCHANGED vars
  BY <1>1, StutterHolds DEF Base
<1>2. ASSUME NEW t \in Ids, AnyStep(t)
      PROVE  IInv'
  <2>1. pc[t] # "done"
    BY <1>2 DEF AnyStep
  <2>2. CASE IsDoacross(Loop(t))
    BY <1>2, <2>1, <2>2, CrossStepHolds DEF AnyStep
  <2>3. CASE ~IsDoacross(Loop(t))
    <3>1. loop[t] \in LoopIds /\ TypeOK
      BY <2>1, LoopOf
    <3>2. loop[t] \in OrderedLoops
      BY <2>3, <3>1, LoopFacts DEF OrderedLoops, IsDoacross, Loop
    <3>3. Step(t)
      BY <1>2, <2>3 DEF AnyStep
    <3> QED BY <3>2, <3>3, OrderedStepHolds
  <2> QED BY <2>2, <2>3
<1> QED BY <1>1, <1>2 DEF CrossNext, allVars

LEMMA InitHolds == CrossInit => IInv
<1> SUFFICES ASSUME CrossInit
             PROVE  IInv
  OBVIOUS
<1>1. Init
  BY DEF CrossInit
<1>2. /\ Len(program) \in Nat
      /\ \A k \in LoopIds : k \in Nat /\ k > 0 /\ program[k].n \in Nat
      /\ program # <<>>
  <2>1. program \in Programs
    BY <1>1 DEF Init
  <2>2. Len(program) \in Nat /\ \A k \in 1 .. Len(program) : program[k].n \in Nat
    <3>1. Len(program) \in Nat
      BY <2>1, ProgramsAssumption
    <3>2. \A k \in 1 .. Len(program) : program[k].n \in Nat
      BY <2>1, ProgramsAssumption, Zenon
    <3> QED BY <3>1, <3>2
  <2>3. program # <<>>
    BY <2>1, ProgramsAssumption
  <2> QED BY <2>2, <2>3 DEF LoopIds
<1>3. 1 \in LoopIds
  <2>1. Len(program) # 0
    <3>1. program \in Seq({program[k] : k \in DOMAIN program})
      BY <1>1, ProgramsAssumption DEF Init
    <3> QED BY <1>2, <3>1
  <2> QED BY <1>2, <2>1 DEF LoopIds
<1>4. \A k \in LoopIds : /\ ws[k] = NewWs /\ arrived[k] = {} /\ done[k] = {}
                         /\ k \in OrderedLoops => k \in LoopIds
  BY <1>1 DEF Init, LoopIds
<1>5. /\ NewWs \in WorkShares /\ ~NewWs.init /\ NewWs.next = 0 /\ NewWs.owner = Nobody
      /\ NewWs.used = 0 /\ NewWs.ids[0] = 0
  BY IdFacts DEF NewWs, WorkShares
<1>6. \A t \in Ids : pc[t] = "start" /\ loop[t] = 1 /\ release[t] = 0
  BY <1>1 DEF Init
<1>7. TypeOK
  <2>1. /\ program \in Programs
        /\ ws = [k \in LoopIds |-> ws[k]] /\ \A k \in OrderedLoops : ws[k] \in WorkShares
        /\ done = [k \in LoopIds |-> done[k]] /\ arrived \in [LoopIds -> SUBSET Ids]
    BY <1>1, <1>4, <1>5 DEF Init, LoopIds, OrderedLoops
  <2>2. /\ release \in [Ids -> Nat] /\ loop \in [Ids -> 1 .. Len(program) + 1]
        /\ next_id \in [Ids -> Ids \cup {Nobody}] /\ pc \in [Ids -> Places]
    BY <1>1, <1>2 DEF Init, Places
  <2>3. /\ i = [t \in Ids |-> i[t]] /\ iend = [t \in Ids |-> iend[t]] /\ trip = [t \in Ids |-> trip[t]]
        /\ \A t \in Ids : i[t] \in Nat /\ iend[t] \in Nat /\ trip[t] \in Int
    BY <1>1 DEF Init
  <2> QED BY <1>3, <1>6, <2>1, <2>2, <2>3 DEF TypeOK, BlockPlaces, CrossPlaces
<1>8. Barriers
  BY <1>2, <1>4, <1>5, <1>6 DEF Barriers, OrderedLoops
<1>9. \A k \in OrderedLoops : ~Active(k) /\ ws[k].owner = Nobody
  BY <1>4, <1>5 DEF Active, OrderedLoops
<1>10. Releases
  BY <1>6, <1>9 DEF Releases, Posted
<1>11. ASSUME NEW k \in OrderedLoops
       PROVE  LoopInv(k)
  <2>1. k \in LoopIds /\ ws[k] = NewWs
    BY <1>4 DEF OrderedLoops
  <2>2. Turn(k)
    BY <1>6, <1>9 DEF Turn
  <2>3. Blocks(k)
    BY <1>5, <2>1 DEF Blocks
  <2>4. Queue(k)
    <3>1. \A t \in Ids : ~Holds(t, k)
      BY <1>6 DEF Holds, BlockPlaces
    <3>2. 0 .. ws[k].used - 1 = {} /\ 0 .. ws[k].next - 1 = {}
      BY <1>5, <2>1
    <3> QED BY <1>2, <1>5, <2>1, <3>1, <3>2
       DEF Queue, QueueEnd, QueueMembers, QueueOrder, QueueRest
  <2> QED BY <2>2, <2>3, <2>4 DEF LoopInv
<1> QED BY <1>7, <1>8, <1>10, <1>11 DEF IInv

(* At every step the turn of each loop is with the thread of its earliest  *)
(* block, or on its way there as the one post of that thread's semaphore,  *)
(* and all iterations before that block are over.                          *)
THEOREM Invariance == StaticLoopsApart => (CrossSpec => []IInv)
<1> SUFFICES ASSUME StaticLoopsApart
             PROVE  CrossSpec => []IInv
  OBVIOUS
<1>1. IInv /\ [CrossNext]_allVars => IInv'
  BY NextStep DEF Base
<1> QED BY <1>1, InitHolds, PTL DEF CrossSpec

-----------------------------------------------------------------------------

LEMMA EarlierOver ==
  ASSUME Base, NEW t \in Ids, pc[t] = "ordered", NEW k \in OrderedLoops, loop[t] = k
  PROVE  0 .. i[t] - 1 \subseteq done[k]
<1>1. /\ TypeOK /\ LoopInv(k) /\ ws[k].init /\ k \in LoopIds
      /\ i[t] \in Nat /\ iend[t] \in Nat
  BY Here
<1>2. Holds(t, k) /\ Within(t)
  BY Here DEF Holds, BlockPlaces
<1>3. ws[k].owner = t /\ Leader(k) = t /\ Active(k)
  BY <1>1, IdFacts DEF LoopInv, Turn
<1>4. CASE Static(k)
  <2>1. PICK m \in Nat : TurnOf(k, m)
    BY <1>1, <1>4 DEF LoopInv, Blocks
  <2>2. PICK c \in Nat : m <= c /\ c < m + N /\ In(t, k, c)
    BY <1>2, <2>1 DEF TurnOf
  <2>3. IsFor(m, t) /\ IsFor(c, t)
    BY <1>3, <2>1, <2>2 DEF TurnOf, In, IsFor
  <2>4. c = m
    <3>1. m < c => m + N <= c
      BY <2>3, ForFacts
    <3> QED BY <2>2, <3>1, IdFacts
  <2>5. /\ 0 .. Block(program[k], m).first - 1 \subseteq done[k]
        /\ Block(program[k], m).first .. i[t] - 1 \subseteq done[k]
    BY <2>1, <2>2, <2>4 DEF TurnOf, In
  <2>6. Block(program[k], m).first \in Nat
    BY <1>1, LoopFacts, BlockFacts
  <2> QED BY <1>1, <2>5, <2>6
<1>5. CASE ~Static(k)
  <2> DEFINE w == ws[k]
             n == ws[k].used
  <2>1. /\ Queue(k) /\ n \in 0 .. N /\ w.next \in Nat
        /\ \A u \in Ids : Holds(u, k) => i[u] \in Nat /\ iend[u] \in Nat
        /\ \A j \in 0 .. n - 1 : iend[Queued(w, j)] \in Nat
    BY <1>5, QueueTypes
  <2>2. n \in Nat /\ n > 0 /\ Queued(w, 0) = t
    <3>1. Queued(w, 0) = t
      BY <1>1, <1>3, <1>5, QueueFacts
    <3> QED BY <1>3, <1>5, <2>1, <3>1, IdFacts DEF Active
  <2>3. iend[t] <= w.next
    <3>1. iend[Queued(w, n - 1)] = w.next
      BY <2>1, <2>2 DEF Queue, QueueEnd
    <3>2. CASE n = 1
      BY <1>1, <2>2, <3>1, <3>2
    <3>3. CASE n # 1
      <4>1. 0 \in 0 .. n - 1 /\ n - 1 \in 0 .. n - 1 /\ 0 < n - 1
        BY <2>2, <3>3
      <4>2. iend[Queued(w, 0)] < iend[Queued(w, n - 1)]
        BY <2>1, <4>1 DEF Queue, QueueOrder
      <4> QED BY <1>1, <2>1, <2>2, <3>1, <4>2
    <3> QED BY <3>2, <3>3
  <2>4. ASSUME NEW u \in Ids, Holds(u, k), u # t
        PROVE  iend[t] <= i[u]
    <3>1. PICK j \in 0 .. n - 1 : Queued(w, j) = u
      BY <2>1, <2>4 DEF Queue, QueueMembers
    <3>2. 0 \in 0 .. n - 1 /\ 0 < j
      BY <2>2, <2>4, <3>1
    <3> QED BY <2>1, <2>2, <3>1, <3>2 DEF Queue, QueueOrder
  <2>5. ASSUME NEW x \in 0 .. i[t] - 1, x \notin done[k]
        PROVE  FALSE
    <3>1. i[t] <= iend[t] /\ x < i[t]
      BY <1>1, <1>2, <2>5 DEF Within
    <3>2. x \in 0 .. w.next - 1
      BY <1>1, <2>1, <2>3, <3>1
    <3>3. PICK u \in Ids : Holds(u, k) /\ i[u] <= x /\ x < iend[u]
      BY <2>1, <2>5, <3>2 DEF Queue, QueueRest
    <3>4. CASE u = t
      BY <1>1, <3>1, <3>3, <3>4
    <3>5. CASE u # t
      BY <1>1, <2>1, <2>4, <3>1, <3>3, <3>5
    <3> QED BY <3>4, <3>5
  <2> QED BY <2>5
<1> QED BY <1>4, <1>5

(* An ordered region is entered when all earlier iterations are over:      *)
(* gomp_ordered_sync returns for the thread of the earliest block, static, *)
(* dynamic or guided, in any order the threads run.                        *)
THEOREM OrderedRegions == StaticLoopsApart => (CrossSpec => []InOrder)
<1> SUFFICES ASSUME StaticLoopsApart
             PROVE  CrossSpec => []InOrder
  OBVIOUS
<1>1. IInv => InOrder
  <2> SUFFICES ASSUME IInv, NEW t \in Ids, pc[t] = "ordered"
               PROVE  0 .. i[t] - 1 \subseteq done[loop[t]]
    BY DEF InOrder
  <2>1. Base
    BY DEF Base
  <2>2. \A k \in OrderedLoops : loop[t] = k => 0 .. i[t] - 1 \subseteq done[k]
    BY <2>1, EarlierOver
  <2>3. loop[t] \in OrderedLoops
    BY DEF IInv, TypeOK, BlockPlaces
  <2> QED BY <2>2, <2>3
<1> QED BY <1>1, Invariance, PTL

(* gomp_ordered_first, _next and _last keep the ring in the order of the   *)
(* blocks, and in it exactly the threads that have one.                    *)
THEOREM OrderedQueue == StaticLoopsApart => (CrossSpec => []QueueInOrder)
<1> SUFFICES ASSUME StaticLoopsApart
             PROVE  CrossSpec => []QueueInOrder
  OBVIOUS
<1>1. IInv => QueueInOrder
  <2> SUFFICES ASSUME IInv, NEW k \in LoopIds, program[k].kind = "ordered", program[k].sched # "static"
               PROVE  LET queue == [j \in 1 .. ws[k].used |-> ws[k].ids[Wrap(ws[k].cur + j - 1)]] IN
                      /\ {queue[j] : j \in DOMAIN queue}
                           = {t \in Ids : /\ loop[t] = k /\ pc[t] \notin {"start", "end", "barrier"}
                                          /\ pc[t] = "pass" => i[t] < iend[t]}
                      /\ \A j \in DOMAIN queue :
                           IF j = ws[k].used THEN iend[queue[j]] = ws[k].next
                           ELSE iend[queue[j]] < iend[queue[j + 1]]
    BY DEF QueueInOrder, LoopIds
  <2> DEFINE w == ws[k]
             n == ws[k].used
             queue == [j \in 1 .. n |-> w.ids[Wrap(w.cur + j - 1)]]
  <2>1. k \in OrderedLoops /\ ~Static(k) /\ Base
    BY DEF OrderedLoops, Static, Base
  <2>2. Queue(k) /\ n \in Nat /\ w.cur \in Int
    <3>1. Queue(k) /\ n \in 0 .. N
      BY <2>1, QueueTypes
    <3>2. w.cur \in Ids
      BY <2>1, QueueFacts DEF Base, IInv, WorkShares
    <3> QED BY <3>1, <3>2, IdFacts
  <2>3. \A j \in 1 .. n : j - 1 \in 0 .. n - 1 /\ queue[j] = Queued(w, j - 1)
    <3>1. SUFFICES ASSUME NEW j \in 1 .. n PROVE j - 1 \in 0 .. n - 1 /\ queue[j] = Queued(w, j - 1)
      OBVIOUS
    <3>2. w.cur + j - 1 = w.cur + (j - 1)
      BY <2>2
    <3> QED BY <2>2, <3>2 DEF Queued
  <2>4. \A j \in 0 .. n - 1 : j + 1 \in 1 .. n /\ queue[j + 1] = Queued(w, j)
    <3>1. SUFFICES ASSUME NEW j \in 0 .. n - 1 PROVE j + 1 \in 1 .. n /\ queue[j + 1] = Queued(w, j)
      OBVIOUS
    <3>2. j + 1 \in 1 .. n /\ j + 1 - 1 = j
      BY <2>2
    <3> HIDE DEF queue
    <3>3. queue[j + 1] = Queued(w, j + 1 - 1)
      BY <2>3, <3>2
    <3> QED BY <3>2, <3>3
  <2>5. DOMAIN queue = 1 .. n
    OBVIOUS
  <2> HIDE DEF queue, n
  <2>6. \A t \in Ids : Holds(t, k) <=> /\ loop[t] = k /\ pc[t] \notin {"start", "end", "barrier"}
                                       /\ pc[t] = "pass" => i[t] < iend[t]
    <3>1. \A t \in Ids : /\ pc[t] \in Places
                         /\ loop[t] = k => pc[t] # "done" /\ pc[t] \notin CrossPlaces
      BY <2>1 DEF IInv, TypeOK, OrderedLoops
    <3> QED BY <3>1 DEF Holds, Places, BlockPlaces
  <2>7. {queue[j] : j \in DOMAIN queue} = {t \in Ids : Holds(t, k)}
    <3>1. \A t \in Ids : Holds(t, k) <=> \E j \in 0 .. n - 1 : Queued(w, j) = t
      BY <2>2 DEF Queue, QueueMembers, n
    <3>2. \A j \in 0 .. n - 1 : Queued(w, j) \in Ids
      BY <2>1, QueueTypes DEF n
    <3> QED BY <2>3, <2>4, <2>5, <3>1, <3>2
  <2>8. ASSUME NEW j \in 1 .. n
        PROVE  IF j = n THEN iend[queue[j]] = w.next ELSE iend[queue[j]] < iend[queue[j + 1]]
    <3>1. CASE j = n
      <4>1. n > 0 /\ queue[j] = Queued(w, n - 1)
        BY <2>2, <2>3, <3>1
      <4> QED BY <2>2, <3>1, <4>1 DEF Queue, QueueEnd, n
    <3>2. CASE j # n
      <4>1. j - 1 \in 0 .. n - 1 /\ j \in 0 .. n - 1 /\ j - 1 < j
        BY <2>2, <3>2
      <4>2. queue[j] = Queued(w, j - 1) /\ queue[j + 1] = Queued(w, j)
        BY <2>3, <2>4, <4>1
      <4> QED BY <2>2, <3>2, <4>1, <4>2 DEF Queue, QueueOrder, n
    <3> QED BY <3>1, <3>2
  <2> QED BY <2>5, <2>6, <2>7, <2>8 DEF queue, n
<1> QED BY <1>1, Invariance, PTL
=============================================================================
