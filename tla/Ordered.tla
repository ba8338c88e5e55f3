------------------------------- MODULE Ordered -------------------------------
(***************************************************************************)
(* Loops with an ordered clause (loop.c, ordered.c, iter.c): a team of N   *)
(* threads, known by their team ids, goes through a sequence of them.  A   *)
(* thread gets blocks of iterations, waits on its release semaphore when   *)
(* it meets an ordered region, and passes the ordered section on when it   *)
(* asks for its next block.  A thread's place:                             *)
(*                                                                         *)
(*   "start"    before GOMP_loop_ordered_*_start                           *)
(*   "body"     in iteration i[t] of its block, not in the ordered region  *)
(*   "wait"     in GOMP_ordered_start, at the semaphore                    *)
(*   "ordered"  in the ordered region                                      *)
(*   "sync"     before the gomp_ordered_sync of GOMP_loop_ordered_*_next   *)
(*   "resync"   in it, at the semaphore                                    *)
(*   "next"     behind it, to lock the work share                          *)
(*   "pass"     with the work share locked, about to post to next_id[t]    *)
(*   "end"      before GOMP_loop_end(_nowait)     "barrier"  in its wait   *)
(*   "done"     behind the last loop                                       *)
(*                                                                         *)
(* Iterations are numbered from 0.  The semaphores are those that          *)
(* AbstractSemaphore describes; the work shares those of WorkShare, of     *)
(* which each loop has its own.                                            *)
(***************************************************************************)
EXTENDS Integers, FiniteSets, Sequences

CONSTANTS
  N,         \* team->nthreads
  Programs   \* the sequences of loops the team may go through, each loop
             \*   [kind |-> "ordered" (or "doacross", for Doacross),
             \*    sched |-> "static", "dynamic" or "guided",
             \*    n |-> its iterations, chunk |-> chunk_size,
             \*    nowait |-> whether it ends without a barrier]

(* The functions of ordered.c return at once for a team of one thread.     *)
ASSUME NAssumption == N \in Nat \ {0, 1}

ASSUME ProgramsAssumption ==
  \A p \in Programs :
    /\ p \in Seq({p[k] : k \in DOMAIN p}) \ {<<>>}
    /\ \A k \in 1 .. Len(p) :
         /\ p[k].kind \in {"ordered", "doacross"}
         /\ p[k].sched \in {"static", "dynamic", "guided"}
         /\ p[k].n \in Nat /\ p[k].chunk \in Nat
         /\ p[k].sched # "static" => p[k].chunk > 0
         /\ p[k].nowait \in BOOLEAN

Ids == 0 .. N - 1
Nobody == -1

VARIABLES
  program,
  ws,        \* ws[k]: the work share of loop k: init (made by some thread),
             \* next, ordered_owner, ordered_cur, ordered_num_used and
             \* ordered_team_ids
  release,   \* release[t]: the posts to team->ordered_release[t]
  loop,      \* loop[t]: the loop thread t is in
  i, iend,   \* t's block: the iterations from i[t] to iend[t] - 1
  trip,      \* trip[t]: ts.static_trip
  next_id,   \* next_id[t]: whom t is going to release, or Nobody
  arrived,   \* arrived[k]: the threads at the barrier of loop k
  done,      \* done[k]: the iterations of loop k whose body has ended (ghost)
  pc

vars == <<program, ws, release, loop, i, iend, trip, next_id, arrived, done, pc>>
blockVars == <<i, iend, trip>>

Loop(t) == program[loop[t]]
Ws(t)   == ws[loop[t]]
Goto(t, place) == pc' = [pc EXCEPT ![t] = place]
SetWs(t, new)  == ws' = [ws EXCEPT ![loop[t]] = new]
Post(id) == release' = [release EXCEPT ![id] = @ + 1]

NewWs == [init |-> FALSE, next |-> 0, owner |-> Nobody, cur |-> 0, used |-> 0,
          ids |-> [j \in Ids |-> 0]]

Init == /\ program \in Programs
        /\ ws = [k \in 1 .. Len(program) |-> NewWs]
        /\ release = [t \in Ids |-> 0]
        /\ loop = [t \in Ids |-> 1]
        /\ i = [t \in Ids |-> 0] /\ iend = [t \in Ids |-> 0]
        /\ trip = [t \in Ids |-> 0]
        /\ next_id = [t \in Ids |-> Nobody]
        /\ arrived = [k \in 1 .. Len(program) |-> {}]
        /\ done = [k \in 1 .. Len(program) |-> {}]
        /\ pc = [t \in Ids |-> "start"]

Least(a, b)    == IF a < b THEN a ELSE b
Greatest(a, b) == IF a > b THEN a ELSE b

-----------------------------------------------------------------------------
(* Blocks: gomp_iter_static_next, gomp_iter_dynamic_next_locked and        *)
(* gomp_iter_guided_next_locked for loops that start at 0 and step by 1.   *)

(* The bounds of t's block on its trip-th trip; none if first >= end.      *)
StaticBlock(lp, tr, t) ==
  IF lp.chunk = 0
  THEN LET q == lp.n \div N
           r == lp.n % N IN
       [first |-> q * t + Least(t, r), end |-> q * (t + 1) + Least(t + 1, r)]
  ELSE LET s == (tr * N + t) * lp.chunk IN
       [first |-> s, end |-> Least(s + lp.chunk, lp.n)]

HasStaticBlock(lp, tr, t) ==
  /\ lp.chunk = 0 => tr = 0
  /\ StaticBlock(lp, tr, t).first < StaticBlock(lp, tr, t).end

(* t gets its next static block; trip becomes -1 with the last one of all. *)
TakeStatic(t, tr) ==
  LET lp == Loop(t)
      b  == StaticBlock(lp, tr, t) IN
  IF HasStaticBlock(lp, tr, t)
  THEN /\ i' = [i EXCEPT ![t] = b.first]
       /\ iend' = [iend EXCEPT ![t] = b.end]
       /\ trip' = [trip EXCEPT ![t] = IF b.end = lp.n THEN -1 ELSE tr + 1]
  ELSE /\ i' = [i EXCEPT ![t] = iend[t]]
       /\ trip' = [trip EXCEPT ![t] = IF lp.chunk = 0 THEN 1 ELSE tr]
       /\ UNCHANGED iend

(* The iterations a dynamic or guided block has when some are left.        *)
BlockSize(lp, left) ==
  IF lp.sched = "dynamic" THEN Least(lp.chunk, left)
  ELSE Least(Greatest((left + N - 1) \div N, lp.chunk), left)

Exhausted(t) == Ws(t).next = Loop(t).n

(* t gets the block of a dynamic or guided loop that comes next.           *)
TakeNext(t) ==
  LET end == Ws(t).next + BlockSize(Loop(t), Loop(t).n - Ws(t).next) IN
  /\ i' = [i EXCEPT ![t] = Ws(t).next]
  /\ iend' = [iend EXCEPT ![t] = end]
  /\ UNCHANGED trip

-----------------------------------------------------------------------------
(* The queue of the threads that hold a block: ordered_team_ids, a ring.   *)

Wrap(index) == IF index >= N THEN index - N ELSE index

(* gomp_ordered_first *)
First(w, t) == [w EXCEPT !.ids[Wrap(w.cur + w.used)] = t, !.used = @ + 1]

(* mutant: the head moves on but is not entered again at the end *)
OrderedNext_NotEntered(w, t) ==
  IF w.used = 1 THEN [w EXCEPT !.owner = Nobody]
  ELSE [w EXCEPT !.owner = Nobody, !.cur = Wrap(@ + 1)]

(* gomp_ordered_next: the head of the queue goes to its end, merely by     *)
(* moving the head on when the queue is full.                              *)
OrderedNext(w, t) ==
  IF w.used = 1 THEN [w EXCEPT !.owner = Nobody]
  ELSE [w EXCEPT !.owner = Nobody, !.cur = Wrap(@ + 1),
                 !.ids = IF w.used < N THEN [@ EXCEPT ![Wrap(w.cur + w.used)] = t] ELSE @]

(* gomp_ordered_last *)
OrderedLast(w) == [w EXCEPT !.owner = Nobody, !.used = @ - 1,
                            !.cur = IF w.used > 1 THEN Wrap(@ + 1) ELSE @]

(* Whether some thread has the work share locked between two steps. *)
Locked(k) == \E u \in Ids : pc[u] = "pass" /\ loop[u] = k

-----------------------------------------------------------------------------
(* GOMP_loop_ordered_static_start, with gomp_ordered_static_init. *)
StartStatic(t) ==
  /\ pc[t] = "start" /\ Loop(t).sched = "static"
  /\ IF Ws(t).init THEN UNCHANGED <<ws, release>>
     ELSE SetWs(t, [Ws(t) EXCEPT !.init = TRUE]) /\ Post(0)
  /\ TakeStatic(t, 0)
  /\ Goto(t, IF HasStaticBlock(Loop(t), 0, t) THEN "body" ELSE "end")
  /\ UNCHANGED <<program, loop, next_id, arrived, done>>

(* mutant: the only thread in the queue does not post to itself *)
StartDynamic_NoPost(t) ==
  /\ pc[t] = "start" /\ Loop(t).sched # "static"
  /\ ~Locked(loop[t])
  /\ IF Exhausted(t)
     THEN SetWs(t, [Ws(t) EXCEPT !.init = TRUE]) /\ Goto(t, "end") /\ UNCHANGED blockVars
     ELSE /\ TakeNext(t)
          /\ SetWs(t, First([Ws(t) EXCEPT !.init = TRUE, !.next = iend'[t]], t))
          /\ Goto(t, "body")
  /\ UNCHANGED <<program, release, loop, next_id, arrived, done>>

(* GOMP_loop_ordered_dynamic_start and _guided_start, under ws->lock. *)
StartDynamic(t) ==
  /\ pc[t] = "start" /\ Loop(t).sched # "static"
  /\ ~Locked(loop[t])
  /\ IF Exhausted(t)
     THEN SetWs(t, [Ws(t) EXCEPT !.init = TRUE]) /\ Goto(t, "end") /\ UNCHANGED <<blockVars, release>>
     ELSE /\ TakeNext(t)
          /\ SetWs(t, First([Ws(t) EXCEPT !.init = TRUE, !.next = iend'[t]], t))
          /\ IF Ws(t).used = 0 THEN Post(t) ELSE UNCHANGED release
          /\ Goto(t, "body")
  /\ UNCHANGED <<program, loop, next_id, arrived, done>>

-----------------------------------------------------------------------------
(* An iteration ends, with or without an ordered region. *)
EndIteration(t) ==
  /\ pc[t] \in {"body", "ordered"}
  /\ i' = [i EXCEPT ![t] = @ + 1]
  /\ done' = [done EXCEPT ![loop[t]] = @ \cup {i[t]}]
  /\ Goto(t, IF i[t] + 1 = iend[t] THEN "sync" ELSE "body")
  /\ UNCHANGED <<program, ws, release, loop, iend, trip, next_id, arrived>>

(* gomp_ordered_sync, called for an ordered region and before the next     *)
(* block: the owner is read without the lock.                              *)
Sync(t) ==
  /\ pc[t] \in {"body", "sync"}
  /\ Goto(t, CASE pc[t] = "body" -> IF Ws(t).owner = t THEN "ordered" ELSE "wait"
               [] pc[t] = "sync" -> IF Ws(t).owner = t THEN "next" ELSE "resync")
  /\ UNCHANGED <<program, ws, release, loop, blockVars, next_id, arrived, done>>

SemWait(t) ==
  /\ pc[t] \in {"wait", "resync"} /\ release[t] > 0
  /\ release' = [release EXCEPT ![t] = @ - 1]
  /\ SetWs(t, [Ws(t) EXCEPT !.owner = t])
  /\ Goto(t, IF pc[t] = "wait" THEN "ordered" ELSE "next")
  /\ UNCHANGED <<program, loop, blockVars, next_id, arrived, done>>

-----------------------------------------------------------------------------
(* mutant: the thread stays the owner, for its next block too *)
NextStatic_KeepsOwner(t) ==
  /\ pc[t] = "next" /\ Loop(t).sched = "static"
  /\ ~Locked(loop[t])
  /\ IF trip[t] = -1 THEN Goto(t, "end") /\ UNCHANGED <<ws, next_id, blockVars>>
     ELSE LET next == Wrap(t + 1) IN
          /\ TakeStatic(t, trip[t])
          /\ SetWs(t, [Ws(t) EXCEPT !.ids[0] = next])
          /\ next_id' = [next_id EXCEPT ![t] = next]
          /\ Goto(t, "pass")
  /\ UNCHANGED <<program, release, loop, arrived, done>>

(* GOMP_loop_ordered_static_next, with gomp_ordered_static_next, up to the *)
(* post.                                                                   *)
NextStatic(t) ==
  /\ pc[t] = "next" /\ Loop(t).sched = "static"
  /\ ~Locked(loop[t])
  /\ IF trip[t] = -1 THEN Goto(t, "end") /\ UNCHANGED <<ws, next_id, blockVars>>
     ELSE LET next == Wrap(t + 1) IN
          /\ TakeStatic(t, trip[t])
          /\ SetWs(t, [Ws(t) EXCEPT !.owner = Nobody, !.ids[0] = next])
          /\ next_id' = [next_id EXCEPT ![t] = next]
          /\ Goto(t, "pass")
  /\ UNCHANGED <<program, release, loop, arrived, done>>

(* GOMP_loop_ordered_dynamic_next and _guided_next, up to the post. *)
NextDynamic(t) ==
  /\ pc[t] = "next" /\ Loop(t).sched # "static"
  /\ ~Locked(loop[t])
  /\ IF Exhausted(t)
     THEN LET w == OrderedLast(Ws(t)) IN
          /\ SetWs(t, w)
          /\ next_id' = [next_id EXCEPT ![t] = IF w.used > 0 THEN w.ids[w.cur] ELSE Nobody]
          /\ Goto(t, IF w.used > 0 THEN "pass" ELSE "end")
          /\ UNCHANGED blockVars
     ELSE LET w == OrderedNext(Ws(t), t) IN
          /\ TakeNext(t)
          /\ SetWs(t, [w EXCEPT !.next = iend'[t]])
          /\ next_id' = [next_id EXCEPT ![t] = IF w.used = 1 THEN t ELSE w.ids[w.cur]]
          /\ Goto(t, "pass")
  /\ UNCHANGED <<program, release, loop, arrived, done>>

(* gomp_sem_post (team->ordered_release[next_id]), then the unlock. *)
Pass(t) ==
  /\ pc[t] = "pass"
  /\ Post(next_id[t])
  /\ next_id' = [next_id EXCEPT ![t] = Nobody]
  /\ Goto(t, IF i[t] = iend[t] THEN "end" ELSE "body")
  /\ UNCHANGED <<program, ws, loop, blockVars, arrived, done>>

-----------------------------------------------------------------------------
(* GOMP_loop_end_nowait, and the two halves of GOMP_loop_end. *)

MoveOn(t) ==
  /\ loop' = [loop EXCEPT ![t] = @ + 1]
  /\ i' = [i EXCEPT ![t] = 0] /\ iend' = [iend EXCEPT ![t] = 0] /\ trip' = [trip EXCEPT ![t] = 0]
  /\ Goto(t, IF loop[t] = Len(program) THEN "done" ELSE "start")
  /\ UNCHANGED <<program, ws, release, next_id, done>>

EndNowait(t) == pc[t] = "end" /\ Loop(t).nowait /\ MoveOn(t) /\ UNCHANGED arrived

EndArrive(t) ==
  /\ pc[t] = "end" /\ ~Loop(t).nowait
  /\ arrived' = [arrived EXCEPT ![loop[t]] = @ \cup {t}]
  /\ Goto(t, "barrier")
  /\ UNCHANGED <<program, ws, release, loop, blockVars, next_id, done>>

EndBarrier(t) ==
  pc[t] = "barrier" /\ arrived[loop[t]] = Ids /\ MoveOn(t) /\ UNCHANGED arrived

-----------------------------------------------------------------------------

Step(t) == \/ StartStatic(t) \/ StartDynamic(t) \/ EndIteration(t) \/ Sync(t) \/ SemWait(t)
           \/ NextStatic(t) \/ NextDynamic(t) \/ Pass(t)
           \/ EndNowait(t) \/ EndArrive(t) \/ EndBarrier(t)

Finished == \A t \in Ids : pc[t] = "done"

Next == (\E t \in Ids : Step(t)) \/ (Finished /\ UNCHANGED vars)

Spec == Init /\ [][Next]_vars

(* The operating system runs every thread that is not blocked. *)
FairSpec == Spec /\ \A t \in Ids : WF_vars(Step(t))

-----------------------------------------------------------------------------

(* What ordered is for: the ordered region of an iteration is entered when *)
(* all earlier iterations are over, whatever order the threads run in.     *)
InOrder == \A t \in Ids : pc[t] = "ordered" => 0 .. i[t] - 1 \subseteq done[loop[t]]

(* The threads on the queue of a dynamic loop are those that hold a block, *)
(* in the order of their blocks, of which the last ends where the next     *)
(* one will begin: a thread that asks for a block goes to the end.         *)
QueueInOrder ==
  \A k \in 1 .. Len(program) : program[k].kind = "ordered" /\ program[k].sched # "static" =>
    LET queue == [j \in 1 .. ws[k].used |-> ws[k].ids[Wrap(ws[k].cur + j - 1)]] IN
    /\ {queue[j] : j \in DOMAIN queue}
         = {t \in Ids : /\ loop[t] = k /\ pc[t] \notin {"start", "end", "barrier"}
                        /\ pc[t] = "pass" => i[t] < iend[t]}
    /\ \A j \in DOMAIN queue :
         IF j = ws[k].used THEN iend[queue[j]] = ws[k].next
         ELSE iend[queue[j]] < iend[queue[j + 1]]

(* Every thread gets its turn and leaves the last loop, and no loop leaves *)
(* a post behind that nobody has waited for.                               *)
AllFinish == <>(Finished /\ \A t \in Ids : release[t] = 0)
=============================================================================
