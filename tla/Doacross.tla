------------------------------- MODULE Doacross -------------------------------
(***************************************************************************)
(* Loops with an ordered(n) clause (ordered.c, loop.c, loop_ull.c): an     *)
(* iteration is a vector, one component for each of the n nested loops,    *)
(* and waits for the iterations its sinks name to have posted.  Posts are  *)
(* kept in an array of entries, one for each thread of a static loop and   *)
(* for each chunk of the others; an entry holds the last iteration posted  *)
(* into it, in one word if the iterations of the loop can be flattened.    *)
(* Programs may mix these loops with those of Ordered, whose places the    *)
(* threads also have here, and furthermore:                                *)
(*                                                                         *)
(*   "block"  before it gets its next block of outer iterations            *)
(*   "await"  in GOMP_doacross_wait for sink[t] of its iteration           *)
(*   "cross"  in the body of the iteration, behind its waits               *)
(*   "post"   in GOMP_doacross_post                                        *)
(***************************************************************************)
EXTENDS Ordered, SequencesExt

CONSTANT WordBits    \* the bits of an unsigned long (MAX_COLLAPSED_BITS)

(* A doacross loop has, besides what Ordered wants: inner, the numbers of  *)
(* iterations of the inner ordered loops; sinks, the distances of the      *)
(* iterations waited for; and ull, for the unsigned long long variants on  *)
(* a target where these are two words long.                                *)
IsDoacross(lp) == lp.kind = "doacross"

ASSUME DoacrossAssumption ==
  \A p \in Programs : \A k \in 1 .. Len(p) : IsDoacross(p[k]) =>
    /\ p[k].inner \in Seq(Nat \ {0})
    /\ p[k].sinks \in Seq([1 .. 1 + Len(p[k].inner) -> Int])
    /\ p[k].ull \in BOOLEAN

VARIABLES
  entries,   \* entries[k]: the array of doacross loop k, <<>> if it has none
  at,        \* at[t]: the inner components of t's iteration
  sink,      \* sink[t]: the number of the sink t is waiting for
  index      \* index[t]: the word of an entry that t accesses next

crossVars == <<entries, at, sink, index>>
allVars == <<vars, crossVars>>

CrossInit == /\ Init
             /\ entries = [k \in 1 .. Len(program) |-> <<>>]
             /\ at = [t \in Ids |-> <<>>]
             /\ sink = [t \in Ids |-> 1]
             /\ index = [t \in Ids |-> 1]

-----------------------------------------------------------------------------
(* Iterations and what is stored of them *)

Counts(lp) == <<lp.n>> \o lp.inner

Vector(t) == <<i[t]>> \o at[t]

InLoop(lp, v) == \A j \in DOMAIN v : v[j] \in 0 .. Counts(lp)[j] - 1

(* The iterations v waits for: the compiler leaves out those outside.      *)
Sinks(lp, v) == SelectSeq([s \in DOMAIN lp.sinks |-> [j \in DOMAIN v |-> v[j] + lp.sinks[s][j]]],
                          LAMBDA u : InLoop(lp, u))

(* The bits that hold 0 .. c - 1, and the bits for components after j. *)
BitsFor(c) == IF c = 1 THEN 1 ELSE CHOOSE b \in 1 .. c : 2 ^ (b - 1) < c /\ c <= 2 ^ b

Shift(lp, j) == FoldLeft(LAMBDA sum, c : sum + BitsFor(c), 0,
                         SubSeq(Counts(lp), j + 1, Len(Counts(lp))))

Flattened(lp) == Shift(lp, 0) <= WordBits

Flat(lp, v) == FoldLeft(LAMBDA sum, j : sum + v[j] * 2 ^ Shift(lp, j), 0, [j \in DOMAIN v |-> j])

(* What a post of v leaves in an entry.                                    *)
Words(lp, v) ==
  IF Flattened(lp) THEN <<(Flat(lp, v) + 1) % 2 ^ WordBits>>
  ELSE IF ~lp.ull THEN [j \in DOMAIN v |-> v[j] + 1]
  ELSE [w \in 1 .. 2 * Len(v) |->
          LET c == v[(w + 1) \div 2] + 1 IN
          IF w % 2 = 1 THEN c \div 2 ^ WordBits ELSE c % 2 ^ WordBits]

(* An entry before the first post: of the unsigned long long words only    *)
(* the first half is cleared, the others hold whatever the heap held.      *)
NoWords(lp, garbage) ==
  [w \in DOMAIN Words(lp, Counts(lp)) |->
     IF ~Flattened(lp) /\ w > Len(Counts(lp)) THEN garbage ELSE 0]

(* gomp_doacross_init: as many entries as posts of different threads need. *)
NewEntries(lp, garbage) ==
  [e \in 0 .. (CASE lp.sched = "static" -> N - 1
                 [] lp.sched = "guided" -> lp.n - 1
                 [] OTHER -> (lp.n - 1) \div lp.chunk) |-> NoWords(lp, garbage)]

(* The entry that outer iteration first is posted into, by thread t. *)
PostEntry(lp, t, first) == CASE lp.sched = "static" -> t
                             [] lp.sched = "guided" -> first
                             [] OTHER -> first \div lp.chunk

(* The entry that a wait for first looks at: a static loop works out whose *)
(* it is, the first boundary iterations being those of the larger shares.  *)
WaitEntry(lp, first) ==
  LET q == lp.n \div N
      r == lp.n % N
      boundary == r * (q + 1) IN
  CASE lp.sched = "static" /\ lp.chunk = 0 ->
         IF first < boundary THEN first \div (q + 1) ELSE (first - boundary) \div q + r
    [] lp.sched = "static" /\ lp.chunk > 0 -> first \div lp.chunk % N
    [] OTHER -> PostEntry(lp, 0, first)

-----------------------------------------------------------------------------
(* gomp_loop_doacross_*_start: the first thread makes the work share.      *)
StartCross(t) ==
  /\ pc[t] = "start"
  /\ IF Ws(t).init THEN UNCHANGED <<ws, entries>>
     ELSE /\ SetWs(t, [Ws(t) EXCEPT !.init = TRUE])
          /\ IF Loop(t).n = 0 THEN UNCHANGED entries
             ELSE \E garbage \in {0, 2 ^ WordBits - 1} :
                    entries' = [entries EXCEPT ![loop[t]] = NewEntries(Loop(t), garbage)]
  /\ Goto(t, "block")
  /\ UNCHANGED <<program, release, loop, blockVars, next_id, arrived, done, at, sink, index>>

(* t goes on to iteration v: to its first wait, or to its body.            *)
Enter(t, v) ==
  /\ at' = [at EXCEPT ![t] = Tail(v)]
  /\ sink' = [sink EXCEPT ![t] = 1]
  /\ index' = [index EXCEPT ![t] = 1]
  /\ Goto(t, IF Sinks(Loop(t), v) = <<>> THEN "cross" ELSE "await")

EnterFirst(t) == Enter(t, <<i'[t]>> \o [j \in DOMAIN Loop(t).inner |-> 0])

(* gomp_iter_static_next, gomp_iter_dynamic_next and gomp_iter_guided_next *)
(* at the start of the loop and behind each block.                         *)
BlockStatic(t) ==
  /\ pc[t] = "block" /\ Loop(t).sched = "static"
  /\ IF trip[t] = -1 THEN UNCHANGED blockVars ELSE TakeStatic(t, trip[t])
  /\ IF trip[t] # -1 /\ HasStaticBlock(Loop(t), trip[t], t) THEN EnterFirst(t)
     ELSE Goto(t, "end") /\ UNCHANGED <<at, sink, index>>
  /\ UNCHANGED <<program, ws, release, loop, next_id, arrived, done, entries>>

BlockDynamic(t) ==
  /\ pc[t] = "block" /\ Loop(t).sched # "static"
  /\ IF Exhausted(t)
     THEN Goto(t, "end") /\ UNCHANGED <<blockVars, ws, at, sink, index>>
     ELSE /\ TakeNext(t)
          /\ SetWs(t, [Ws(t) EXCEPT !.next = iend'[t]])
          /\ EnterFirst(t)
  /\ UNCHANGED <<program, release, loop, next_id, arrived, done, entries>>

-----------------------------------------------------------------------------
(* GOMP_doacross_wait returns; the next wait of the iteration, or its body. *)
WaitReturns(t) ==
  /\ sink' = [sink EXCEPT ![t] = @ + 1]
  /\ index' = [index EXCEPT ![t] = 1]
  /\ Goto(t, IF sink[t] = Len(Sinks(Loop(t), Vector(t))) THEN "cross" ELSE "await")

(* GOMP_doacross_wait reads one word after the other, until one of them is *)
(* larger than that of the iteration it waits for, or all are equal.  When *)
(* it reads a smaller one it starts again.                                 *)
Await(t) ==
  /\ pc[t] = "await"
  /\ LET lp   == Loop(t)
         v    == Sinks(lp, Vector(t))[sink[t]]
         cur  == entries[loop[t]][WaitEntry(lp, v[1])][index[t]]
         this == Words(lp, v)[index[t]] IN
     \/ /\ IF Flattened(lp) THEN Flat(lp, v) < cur
           ELSE this < cur \/ (this = cur /\ index[t] = Len(Words(lp, v)))
        /\ WaitReturns(t)
     \/ /\ ~Flattened(lp) /\ this = cur /\ index[t] < Len(Words(lp, v))
        /\ index' = [index EXCEPT ![t] = @ + 1]
        /\ UNCHANGED <<sink, pc>>
     \/ /\ ~Flattened(lp) /\ this > cur /\ index[t] > 1
        /\ index' = [index EXCEPT ![t] = 1]
        /\ UNCHANGED <<sink, pc>>
  /\ UNCHANGED <<program, ws, release, loop, blockVars, next_id, arrived, done, entries, at>>

(* The body gets to its ordered depend(source). *)
Cross(t) ==
  /\ pc[t] = "cross"
  /\ done' = [done EXCEPT ![loop[t]] = @ \cup {Vector(t)}]
  /\ index' = [index EXCEPT ![t] = Len(Words(Loop(t), Vector(t)))]
  /\ Goto(t, "post")
  /\ UNCHANGED <<program, ws, release, loop, blockVars, next_id, arrived, entries, at, sink>>

(* The iteration after v in t's block, if there is one. *)
Successor(lp, v) ==
  LET j == CHOOSE j \in DOMAIN v : /\ j = 1 \/ v[j] + 1 < Counts(lp)[j]
                                   /\ \A h \in j + 1 .. Len(v) : v[h] + 1 = Counts(lp)[h] IN
  [h \in DOMAIN v |-> IF h < j THEN v[h] ELSE IF h = j THEN v[h] + 1 ELSE 0]

PostReturns(t) ==
  LET next == Successor(Loop(t), Vector(t)) IN
  /\ i' = [i EXCEPT ![t] = next[1]]
  /\ IF next[1] < iend[t] THEN Enter(t, next)
     ELSE Goto(t, "block") /\ index' = [index EXCEPT ![t] = 1] /\ UNCHANGED <<at, sink>>

(* mutant: the words are stored from the first to the last, as if in       *)
(* reading order                                                           *)
PostCross_FirstToLast(t) ==
  /\ pc[t] = "post"
  /\ LET words == Words(Loop(t), Vector(t))
         w     == Len(words) + 1 - index[t] IN
     entries' = [entries EXCEPT ![loop[t]][PostEntry(Loop(t), t, i[t])][w] = words[w]]
  /\ IF index[t] = 1 THEN PostReturns(t)
     ELSE index' = [index EXCEPT ![t] = @ - 1] /\ UNCHANGED <<i, at, sink, pc>>
  /\ UNCHANGED <<program, ws, release, loop, iend, trip, next_id, arrived, done>>

(* GOMP_doacross_post stores the words from the last to the first.         *)
PostCross(t) ==
  /\ pc[t] = "post"
  /\ LET w == index[t] IN
     entries' = [entries EXCEPT ![loop[t]][PostEntry(Loop(t), t, i[t])][w]
                   = Words(Loop(t), Vector(t))[w]]
  /\ IF index[t] = 1 THEN PostReturns(t)
     ELSE index' = [index EXCEPT ![t] = @ - 1] /\ UNCHANGED <<i, at, sink, pc>>
  /\ UNCHANGED <<program, ws, release, loop, iend, trip, next_id, arrived, done>>

-----------------------------------------------------------------------------

CrossStep(t) == \/ StartCross(t) \/ BlockStatic(t) \/ BlockDynamic(t)
                \/ Await(t) \/ Cross(t) \/ PostCross(t)
                \/ (EndNowait(t) \/ EndArrive(t) \/ EndBarrier(t)) /\ UNCHANGED crossVars

AnyStep(t) == /\ pc[t] # "done"
              /\ IF IsDoacross(Loop(t)) THEN CrossStep(t) ELSE Step(t) /\ UNCHANGED crossVars

CrossNext == (\E t \in Ids : AnyStep(t)) \/ (Finished /\ UNCHANGED allVars)

CrossSpec == CrossInit /\ [][CrossNext]_allVars

(* The operating system runs every thread that is not blocked, the ones    *)
(* that spin in GOMP_doacross_wait included.                               *)
FairCrossSpec == CrossSpec /\ \A t \in Ids : WF_allVars(AnyStep(t))

-----------------------------------------------------------------------------

(* What doacross waits are for: the body of an iteration is entered when   *)
(* all its sinks have come to their post, whichever thread has them, and   *)
(* although an entry of several words is read while they change.           *)
SinksPosted ==
  \A t \in Ids : pc[t] = "cross" =>
    \A s \in ToSet(Sinks(Loop(t), Vector(t))) : s \in done[loop[t]]
=============================================================================
