------------------------------- MODULE LoopIter -------------------------------
(***************************************************************************)
(* Loops without an ordered clause, and sections: how the threads of a     *)
(* team share out the iterations (iter.c, iter_ull.c and the work shares   *)
(* that loop.c, loop_ull.c and sections.c initialise).  A loop is over     *)
(* long or over unsigned long long, here integers of W bits that wrap.     *)
(* ws->next is read, compared and swapped, and added to without a lock.    *)
(***************************************************************************)
EXTENDS Integers

CONSTANTS
  N,      \* the threads of the team, known by their ids
  W,      \* the bits of a long and of an unsigned long long (in the code 64)
  Loops   \* the constructs the team may meet, each
          \*   [type |-> "long" or "ull", start, end, incr, chunk |-> as in the
          \*    call of GOMP_loop_*_start, up |-> whether it counts up,
          \*    sched |-> "static", "dynamic", "guided" or "sections"]

NAssumption == N \in Nat \ {0, 1}
WAssumption == W \in Nat /\ W > 2 /\ W % 2 = 0

Ids == 0 .. N - 1

LONG_MAX == 2 ^ (W - 1) - 1
LONG_MIN == - 2 ^ (W - 1)
ULL_MAX  == 2 ^ W - 1
Half     == 2 ^ (W \div 2 - 1)

Ull(x)  == x % 2 ^ W
Long(x) == Ull(x - LONG_MIN) + LONG_MIN

Least(a, b)    == IF a < b THEN a ELSE b
Greatest(a, b) == IF a > b THEN a ELSE b

Abs(x) == IF x < 0 THEN -x ELSE x

(* The step a loop takes, for "ull" counting down the negative of incr's   *)
(* complement; its number of iterations; and the iterations.               *)
StepOf(l) == IF l.type = "ull" /\ ~l.up THEN l.incr - 2 ^ W ELSE l.incr
Count(l)  == Greatest(0, ((l.end - l.start) * (IF l.up THEN 1 ELSE -1) + Abs(StepOf(l)) - 1)
                           \div Abs(StepOf(l)))
Iterations(l) == {l.start + k * StepOf(l) : k \in 0 .. Count(l) - 1}

(* Loops without iterations get next = end. *)
EndOf(l) == IF (l.up /\ l.start > l.end) \/ (~l.up /\ l.start < l.end) THEN l.start ELSE l.end

InRange(l, x) == IF l.type = "ull" THEN x \in 0 .. ULL_MAX ELSE x \in LONG_MIN .. LONG_MAX

(* What a program guarantees, its own loop would not overflow, and what    *)
(* the code takes for granted: so does the distance from start to end with *)
(* a step more, chunk_size * incr, and the bounds of the static blocks.    *)

Proper(l) ==
  /\ l.incr # 0 /\ l.up = (StepOf(l) > 0)
  /\ InRange(l, l.start) /\ InRange(l, l.end) /\ InRange(l, l.start + Count(l) * StepOf(l))
  /\ l.type = "long" => InRange(l, l.end - l.start)
  /\ InRange(l, Abs(EndOf(l) - l.start) + Abs(StepOf(l)) - 1)
  /\ IF l.sched = "static" THEN Count(l) + (N + 1) * l.chunk <= ULL_MAX
     ELSE l.chunk > 0 /\ l.chunk * Abs(StepOf(l)) <= LONG_MAX

LoopsAssumption == \A l \in Loops : Proper(l)

VARIABLES
  lp,      \* the construct
  ws,      \* its work share: init, next, end, incr, chunk_size, mode, down
  local,   \* local[t]: start and chunk of gomp_iter_*_next
  trip,    \* trip[t]: ts.static_trip
  given,   \* the iterations in the blocks given out (ghost)
  twice,   \* whether one was in two blocks (ghost)
  pc       \* pc[t]: "start", "next" (in *_start or *_next), "cas" or "end"

vars == <<lp, ws, local, trip, given, twice, pc>>

Goto(t, place) == pc' = [pc EXCEPT ![t] = place]

Init == /\ lp \in Loops
        /\ ws = [init |-> FALSE, next |-> 0, end |-> 0, incr |-> 0, chunk_size |-> 0,
                 mode |-> FALSE, down |-> FALSE]
        /\ local = [t \in Ids |-> [start |-> 0, chunk |-> 0]]
        /\ trip = [t \in Ids |-> 0]
        /\ given = {} /\ twice = FALSE
        /\ pc = [t \in Ids |-> "start"]

-----------------------------------------------------------------------------
(* The work share: gomp_loop_init, gomp_loop_ull_init, gomp_sections_init. *)

(* mutant: fetch-and-add without a look at the end of the loop *)
LoopInit_NoRoom(l) ==
  LET chunk == IF l.sched = "dynamic" THEN Long(l.chunk * l.incr) ELSE l.chunk
      size  == IF l.incr > 0 THEN chunk ELSE Long(-chunk) IN
  [init |-> TRUE, next |-> l.start, end |-> EndOf(l), incr |-> l.incr, chunk_size |-> chunk,
   mode |-> l.sched = "dynamic" /\ N < Half /\ size \in 0 .. Half - 1,
   down |-> l.incr < 0]

(* Fetch-and-add will do if every thread can go past the end once without  *)
(* overflow.  nthreads | chunk is small if both are.                       *)
LoopInit(l) ==
  LET chunk == IF l.sched = "dynamic" THEN Long(l.chunk * l.incr) ELSE l.chunk
      size  == IF l.incr > 0 THEN chunk ELSE Long(-chunk) IN
  [init |-> TRUE, next |-> l.start, end |-> EndOf(l), incr |-> l.incr, chunk_size |-> chunk,
   mode |-> /\ l.sched = "dynamic"
            /\ N < Half /\ size \in 0 .. Half - 1
            /\ IF l.incr > 0 THEN EndOf(l) < LONG_MAX - (N + 1) * size
                             ELSE EndOf(l) > (N + 1) * size - LONG_MAX,
   down |-> l.incr < 0]

LoopUllInit(l) ==
  LET chunk == IF l.sched = "dynamic" THEN Ull(l.chunk * l.incr) ELSE l.chunk
      size  == IF l.up THEN chunk ELSE Ull(-chunk) IN
  [init |-> TRUE, next |-> l.start, end |-> EndOf(l), incr |-> l.incr, chunk_size |-> chunk,
   mode |-> /\ l.sched = "dynamic"
            /\ N < Half /\ size < Half
            /\ IF l.up THEN EndOf(l) < Ull(ULL_MAX - (N + 1) * size)
                       ELSE EndOf(l) > Ull((N + 1) * size - ULL_MAX),
   down |-> ~l.up]

(* count is an unsigned, with room above it in a long. *)
SectionsInit(l) ==
  [init |-> TRUE, next |-> 1, end |-> l.end, incr |-> 1, chunk_size |-> 1, mode |-> TRUE,
   down |-> FALSE]

NewShare(l) == CASE l.sched = "sections" -> SectionsInit(l)
                 [] l.sched # "sections" /\ l.type = "long" -> LoopInit(l)
                 [] l.type = "ull" -> LoopUllInit(l)

-----------------------------------------------------------------------------
(* Blocks: for each, the function of iter.c and that of iter_ull.c. *)

NoBlock == [first |-> 0, end |-> 0]
Block(first, end) == [first |-> first, end |-> end]

(* gomp_iter_static_next: n iterations in all; bounds counted from 0 by 1. *)
StaticCount(w) ==
  IF w.incr > 0 THEN Long(w.end - w.next + w.incr - 1) \div w.incr
                ELSE (- Long(w.end - w.next + w.incr + 1)) \div (- w.incr)

StaticCountUll(w) ==
  IF ~w.down THEN Ull(w.end - w.next + w.incr - 1) \div w.incr
             ELSE Ull(w.next - w.end - w.incr - 1) \div Ull(- w.incr)

StaticBounds(w, n, tr, t) ==
  IF w.chunk_size = 0
  THEN LET q == n \div N
           r == n % N
           s == IF t < r THEN (q + 1) * t ELSE q * t + r IN
       Block(s, IF t < r THEN s + q + 1 ELSE s + q)
  ELSE LET s == Ull((tr * N + t) * w.chunk_size) IN
       Block(s, Least(Ull(s + w.chunk_size), n))

(* gomp_iter_dynamic_next with fetch-and-add: tmp is what was there. *)
FetchedBlock(w, tmp) ==
  IF w.incr > 0
  THEN IF tmp >= w.end THEN NoBlock ELSE Block(tmp, Least(Long(tmp + w.chunk_size), w.end))
  ELSE IF tmp <= w.end THEN NoBlock ELSE Block(tmp, Greatest(Long(tmp + w.chunk_size), w.end))

FetchedBlockUll(w, tmp) ==
  IF ~w.down
  THEN IF tmp >= w.end THEN NoBlock ELSE Block(tmp, Least(Ull(tmp + w.chunk_size), w.end))
  ELSE IF tmp <= w.end THEN NoBlock ELSE Block(tmp, Greatest(Ull(tmp + w.chunk_size), w.end))

(* mutant: a chunk as long as any, whatever is left *)
Cut_Nothing(w, start, chunk) == chunk

(* gomp_iter_dynamic_next with compare-and-swap: chunk, cut to what is     *)
(* left; it stays cut when the swap fails.                                 *)
Cut(w, start, chunk) ==
  IF w.incr < 0 THEN Greatest(chunk, Long(w.end - start)) ELSE Least(chunk, Long(w.end - start))

CutUll(w, start, chunk) ==
  IF w.down THEN Greatest(chunk, Ull(w.end - start)) ELSE Least(chunk, Ull(w.end - start))

(* gomp_iter_guided_next: the end of a block that begins at start. *)
GuidedEnd(w, start) ==
  LET n == IF w.incr > 0 THEN (w.end - start) \div w.incr ELSE (start - w.end) \div (- w.incr)
      q == Greatest((n + N - 1) \div N, w.chunk_size) IN
  IF q <= n THEN Long(start + q * w.incr) ELSE w.end

GuidedEndUll(w, start) ==
  LET n == IF ~w.down THEN (w.end - start) \div w.incr ELSE (start - w.end) \div Ull(- w.incr)
      q == Greatest((n + N - 1) \div N, w.chunk_size) IN
  IF q <= n THEN Ull(start + q * w.incr) ELSE w.end

-----------------------------------------------------------------------------
(* The iterations that the compiled code runs of a block. *)
Body(b) ==
  {x \in {b.first + k * StepOf(lp) : k \in 0 .. ULL_MAX} :
     IF lp.up THEN x < b.end ELSE x > b.end}

Give(b) == /\ given' = given \cup Body(b)
           /\ twice' = (twice \/ Body(b) \cap given # {})

(* The start of the construct; the first thread makes the work share. *)
Start(t) ==
  /\ pc[t] = "start"
  /\ ws' = IF ws.init THEN ws ELSE NewShare(lp)
  /\ Goto(t, "next")
  /\ UNCHANGED <<lp, local, trip, given, twice>>

StaticNext(t) ==
  LET n == IF lp.type = "long" THEN StaticCount(ws) ELSE StaticCountUll(ws)
      b == StaticBounds(ws, n, trip[t], t)
      wrap(x) == IF lp.type = "long" THEN Long(x) ELSE Ull(x) IN
  /\ pc[t] = "next" /\ lp.sched = "static"
  /\ IF trip[t] = -1 \/ (ws.chunk_size = 0 /\ trip[t] > 0) \/ b.first >= b.end
     THEN /\ Goto(t, "end")
          /\ trip' = [trip EXCEPT ![t] = IF ws.chunk_size = 0 /\ @ = 0 THEN 1 ELSE @]
          /\ UNCHANGED <<given, twice>>
     ELSE /\ Give(Block(wrap(b.first * ws.incr + ws.next), wrap(b.end * ws.incr + ws.next)))
          /\ trip' = [trip EXCEPT ![t] = IF b.end = n THEN -1 ELSE @ + 1]
          /\ UNCHANGED pc
  /\ UNCHANGED <<lp, ws, local>>

FetchAndAdd(t) ==
  LET sum == ws.next + ws.chunk_size
      b   == IF lp.type = "long" THEN FetchedBlock(ws, ws.next) ELSE FetchedBlockUll(ws, ws.next) IN
  /\ pc[t] = "next" /\ lp.sched \in {"dynamic", "sections"} /\ ws.mode
  /\ ws' = [ws EXCEPT !.next = IF lp.type = "long" THEN Long(sum) ELSE Ull(sum)]
  /\ IF b = NoBlock THEN Goto(t, "end") /\ UNCHANGED <<given, twice>>
                    ELSE Give(b) /\ UNCHANGED pc
  /\ UNCHANGED <<lp, local, trip>>

LoadNext(t) ==
  /\ pc[t] = "next" /\ lp.sched \in {"dynamic", "guided"} /\ ~ws.mode
  /\ local' = [local EXCEPT ![t] = [start |-> ws.next, chunk |-> ws.chunk_size]]
  /\ Goto(t, "cas")
  /\ UNCHANGED <<lp, ws, trip, given, twice>>

(* mutant: the block is stored though another thread has taken one *)
CompareAndSwap_NoCompare(t) ==
  LET start == local[t].start
      chunk == IF lp.type = "long" THEN Cut(ws, start, local[t].chunk)
                                   ELSE CutUll(ws, start, local[t].chunk)
      nend  == CASE lp.sched = "dynamic" /\ lp.type = "long" -> Long(start + chunk)
                 [] lp.sched = "dynamic" /\ lp.type = "ull"  -> Ull(start + chunk)
                 [] lp.sched = "guided" /\ lp.type = "long"  -> GuidedEnd(ws, start)
                 [] lp.sched = "guided" /\ lp.type = "ull"   -> GuidedEndUll(ws, start) IN
  /\ pc[t] = "cas"
  /\ IF start = ws.end THEN Goto(t, "end") /\ UNCHANGED <<ws, given, twice>>
     ELSE /\ ws' = [ws EXCEPT !.next = nend]
          /\ Give(Block(start, nend))
          /\ Goto(t, "next")
  /\ UNCHANGED <<lp, local, trip>>

(* One turn of the loop around the compare-and-swap. *)
CompareAndSwap(t) ==
  LET start == local[t].start
      chunk == IF lp.type = "long" THEN Cut(ws, start, local[t].chunk)
                                   ELSE CutUll(ws, start, local[t].chunk)
      nend  == CASE lp.sched = "dynamic" /\ lp.type = "long" -> Long(start + chunk)
                 [] lp.sched = "dynamic" /\ lp.type = "ull"  -> Ull(start + chunk)
                 [] lp.sched = "guided" /\ lp.type = "long"  -> GuidedEnd(ws, start)
                 [] lp.sched = "guided" /\ lp.type = "ull"   -> GuidedEndUll(ws, start) IN
  /\ pc[t] = "cas"
  /\ \/ /\ start = ws.end
        /\ Goto(t, "end")
        /\ UNCHANGED <<ws, local, given, twice>>
     \/ /\ start # ws.end /\ ws.next = start
        /\ ws' = [ws EXCEPT !.next = nend]
        /\ Give(Block(start, nend))
        /\ Goto(t, "next")
        /\ UNCHANGED local
     \/ /\ start # ws.end /\ ws.next # start
        /\ local' = [local EXCEPT ![t] = [start |-> ws.next, chunk |-> chunk]]
        /\ UNCHANGED <<ws, given, twice, pc>>
  /\ UNCHANGED <<lp, trip>>

-----------------------------------------------------------------------------

Finished == \A t \in Ids : pc[t] = "end"

Next == \/ \E t \in Ids : \/ Start(t) \/ StaticNext(t) \/ FetchAndAdd(t)
                          \/ LoadNext(t) \/ CompareAndSwap(t)
        \/ Finished /\ UNCHANGED vars

Spec == Init /\ [][Next]_vars

-----------------------------------------------------------------------------

(* ws.next does not pass the end of the loop, but by the chunk that a      *)
(* thread may add to it with fetch-and-add when it looks for more, and the *)
(* rest of the last chunk, and never leaves the range of its type: what    *)
(* the code calls cheap overflow protection.                               *)
NextInReach ==
  LET past == (IF lp.up THEN 1 ELSE -1) * (ws.next - ws.end)
      step == IF lp.type = "ull" /\ ~lp.up THEN ws.chunk_size - 2 ^ W ELSE ws.chunk_size IN
  ws.init => /\ InRange(lp, ws.next)
             /\ past <= IF ws.mode THEN (N + 1) * Abs(step) ELSE 0

(* What a schedule is for: whatever the threads do at the same time, each  *)
(* iteration is in one block of one thread, nothing else is, and when all  *)
(* threads are through, none has been left out.                            *)
EachOnce == /\ ~twice
            /\ given \subseteq Iterations(lp)
            /\ Finished => given = Iterations(lp)
=============================================================================
