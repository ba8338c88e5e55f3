-------------------------------- MODULE Places --------------------------------
(***************************************************************************)
(* Where the threads of a team run (team.c): gomp_team_start gives every   *)
(* thread a place of OMP_PLACES and a partition of the places for the      *)
(* teams that it may start itself, after the proc_bind policy of the       *)
(* region.  A thread is bound to a place when it is created and stays      *)
(* there, so the threads of the pool that are bound to the wrong places    *)
(* for a region are put in another order or left to die.                   *)
(*                                                                         *)
(* An initial thread starts one region after another; in a region one      *)
(* member at a time may start a nested team, which has no part in the      *)
(* pool.  How the threads meet at the dock is in TeamPool.                 *)
(***************************************************************************)
EXTENDS Integers, Sequences, FiniteSets, FiniteSetsExt, SequencesExt

CONSTANTS
  NumPlaces,  \* gomp_places_list_len
  MaxLevels,  \* bound: teams within each other
  Programs    \* [policies |-> the values of proc_bind a program uses, outer and
              \*  nested |-> the numbers of threads of its regions]

PlacesAssumption ==
  /\ {NumPlaces, MaxLevels} \subseteq Nat \ {0}
  /\ \A p \in Programs : /\ p.policies \subseteq {"true", "close", "master", "spread"}
                          /\ p.outer \cup p.nested \subseteq Nat \ {0}

VARIABLES
  program,
  pool,      \* pool->threads without the master: for each, place, where the
             \* library says it is, and bound, where it is; counted from 1
  dock,      \* pool->threads_dock.total
  managed,   \* gomp_managed_threads
  levels,    \* the teams, outermost first: bind, prev_ts and place of the master
             \* when it was started, and for each member place, bound, off and len
             \* of its partition
  pc,        \* the initial thread is "serial", at the "dock" or in the "region"
  local,     \* its old_threads_used and affinity_count, kept until the next region,
             \* and ahead: whether a place was computed twice for the first new thread
  threads    \* the threads there are, counted

vars == <<program, pool, dock, managed, levels, pc, local, threads>>

Null == [place |-> 0, bound |-> 0]

(* The initial thread, by gomp_init_affinity. *)
Initial == [place |-> 1, bound |-> 1, off |-> 0, len |-> NumPlaces]

Init == /\ program \in Programs
        /\ pool = <<>>
        /\ dock = 0
        /\ managed = 1
        /\ levels = <<>>
        /\ pc = "serial"
        /\ local = [old_threads_used |-> 0, affinity_count |-> 0, ahead |-> FALSE]
        /\ threads = 1

-----------------------------------------------------------------------------
(* The computation of the places, for the team of n threads that thread m  *)
(* starts.  c holds the variables p, k, s and rest of gomp_team_start, and *)
(* off and len, the partition of the thread whose turn it is.              *)

Thread(c, bound) == [place |-> c.p + 1, bound |-> bound, off |-> c.off, len |-> c.len]

(* The first switch (bind): the partition of the master. *)
FirstPlace(m, bind, n) ==
  LET p == m.place - 1
      c == [p |-> p, k |-> 0, s |-> 0, rest |-> 0, off |-> m.off, len |-> m.len]
      packed == [c EXCEPT !.k = 1, !.s = IF n > m.len THEN n \div m.len ELSE 1,
                          !.rest = IF n > m.len THEN n % m.len ELSE 0]
      s     == m.len \div n
      rest  == (s + 1) * (m.len % n) + m.off
      first == IF p < rest THEN p - ((p - m.off) % (s + 1)) ELSE p - ((p - rest) % s)
  IN  CASE bind \in {"true", "close"} -> packed
        [] bind = "master" -> c
        [] bind = "spread" /\ n <= m.len ->
             [c EXCEPT !.p = first, !.s = s, !.rest = rest, !.off = first,
                       !.len = IF p < rest THEN s + 1 ELSE s]
        [] bind = "spread" /\ n > m.len -> [packed EXCEPT !.off = p, !.len = 1]

(* mutant: the length is that of the part before *)
NextPlace_LengthBefore(m, bind, n, c, i) ==
  LET Wrap(p) == IF p = m.off + m.len THEN m.off ELSE p
      packed  == IF c.k = c.s
                 THEN [c EXCEPT !.p = Wrap(@ + 1), !.k = 1, !.s = IF i = n - c.rest THEN 1 ELSE @]
                 ELSE [c EXCEPT !.k = @ + 1]
      spread  == Wrap(IF c.p < c.rest THEN c.p + c.s + 1 ELSE c.p + c.s)
  IN  CASE bind \in {"true", "close"} -> packed
        [] bind = "master" -> c
        [] bind = "spread" /\ c.k = 0 ->
             [c EXCEPT !.p = spread, !.off = spread, !.len = IF c.p < c.rest THEN c.s + 1 ELSE c.s]
        [] bind = "spread" /\ c.k # 0 -> [packed EXCEPT !.off = packed.p, !.len = 1]

(* The switch (bind) of both loops, for thread i. *)
NextPlace(m, bind, n, c, i) ==
  LET Wrap(p) == IF p = m.off + m.len THEN m.off ELSE p
      packed  == IF c.k = c.s
                 THEN [c EXCEPT !.p = Wrap(@ + 1), !.k = 1, !.s = IF i = n - c.rest THEN 1 ELSE @]
                 ELSE [c EXCEPT !.k = @ + 1]
      spread  == Wrap(IF c.p < c.rest THEN c.p + c.s + 1 ELSE c.p + c.s)
  IN  CASE bind \in {"true", "close"} -> packed
        [] bind = "master" -> c
        [] bind = "spread" /\ c.k = 0 ->
             [c EXCEPT !.p = spread, !.off = spread,
                       !.len = IF spread < c.rest THEN c.s + 1 ELSE c.s]
        [] bind = "spread" /\ c.k # 0 -> [packed EXCEPT !.off = packed.p, !.len = 1]

(* mutant: what the loop over the old threads has changed is left so *)
FirstAgain_NotReset(m, bind, n, c) == c

(* The loop over the new threads counts from 1 again: what the loop over   *)
(* the old ones has changed is set back.                                   *)
FirstAgain(m, bind, n, c) ==
  LET first == FirstPlace(m, bind, n) IN
  CASE bind \in {"true", "close"} ->
         [c EXCEPT !.s = IF n > m.len THEN n \div m.len ELSE @, !.k = 1, !.p = m.place - 1]
    [] bind = "master" -> c
    [] bind = "spread" ->
         [c EXCEPT !.p = first.off, !.s = IF c.k # 0 THEN n \div m.len ELSE @,
                   !.k = IF c.k # 0 THEN 1 ELSE @]

-----------------------------------------------------------------------------
(* The threads of the pool.  x.i is the number of the next thread, x.n     *)
(* where the loop ends, x.members what has become of the threads so far    *)
(* (Null: pool->threads has none), x.lists affinity_thr (<<>>: NULL), the  *)
(* old threads of each place, and x.count affinity_count.                  *)

OldThreads == IF pool = <<>> THEN 0 ELSE Len(pool) + 1   \* pool->threads_used

Fits(w, bind, c) ==
  /\ bind # "true" => w.place = c.p + 1
  /\ w.place \in c.off + 1 .. c.off + c.len

(* affinity_thr, made at thread i: a thread goes in front of its list.     *)
ListFrom(x, i, n) ==
  [x EXCEPT !.lists = [l \in 0 .. NumPlaces - 1 |->
                         Reverse(SelectSeq(SubSeq(pool, i, Len(pool)),
                                           LAMBDA w : w.place = l + 1))],
            !.n = n, !.count = OldThreads - i]

(* One turn of the loop.  Without a thread in the lists it breaks, though  *)
(* the place of thread i has been computed.                                *)
ReuseOne(m, bind, n, x, i) ==
  IF x.i # i \/ i >= x.n THEN x
  ELSE LET c == NextPlace(m, bind, n, x.c, i)
           y == IF x.lists # <<>> \/ Fits(pool[i], bind, c) THEN x ELSE ListFrom(x, i, n)
           at == IF y.lists[c.p] # <<>> THEN {c.p}
                 ELSE {l \in c.off .. c.off + c.len - 1 : bind = "true" /\ y.lists[l] # <<>>}
       IN  CASE y.lists = <<>> ->
                  [x EXCEPT !.c = c, !.i = i + 1, !.members[i] = Thread(c, pool[i].bound)]
             [] y.lists # <<>> /\ y.count = 0 -> [y EXCEPT !.c = c]
             [] y.lists # <<>> /\ y.count # 0 /\ at = {} -> [y EXCEPT !.c = c, !.i = i + 1]
             [] y.lists # <<>> /\ y.count # 0 /\ at # {} ->
                  [y EXCEPT !.c = c, !.i = i + 1, !.count = @ - 1, !.lists[Min(at)] = Tail(@),
                            !.members[i] = Thread(c, Head(y.lists[Min(at)]).bound)]

Numbers(n) == [i \in 1 .. n - 1 |-> i]

(* The loop, and what follows it: as many old threads as there could be    *)
(* have been found, or the rest must be created.  If all have been found,  *)
(* in another order, and there are new ones, the loop has broken off at    *)
(* the first of these with its place computed (ahead).                     *)
Reuse(m, bind, n) ==
  LET start == [c |-> FirstPlace(m, bind, n), i |-> 1, n |-> Min({n, OldThreads}),
                members |-> [i \in 1 .. n - 1 |-> Null], lists |-> <<>>, count |-> 0,
                ahead |-> FALSE]
      x == FoldLeft(LAMBDA y, i : ReuseOne(m, bind, n, y, i), start, Numbers(n))
  IN  IF x.lists = <<>> THEN x
      ELSE IF (IF n <= OldThreads THEN x.count = OldThreads - n ELSE x.i = OldThreads)
      THEN [x EXCEPT !.lists = <<>>, !.count = 0, !.ahead = n > OldThreads]
      ELSE [x EXCEPT !.i = 1, !.c = FirstAgain(m, bind, n, x.c)]

(* The loop over the threads to create, which are bound to their places.   *)
CreateOne(m, bind, n, x, i) ==
  LET c == NextPlace(m, bind, n, x.c, i) IN
  IF i < x.i THEN x
  ELSE IF x.lists # <<>> /\ x.members[i] # Null THEN [x EXCEPT !.c = c]
  ELSE [x EXCEPT !.c = c, !.members[i] = Thread(c, c.p + 1)]

Create(m, bind, n, x) ==
  FoldLeft(LAMBDA y, i : CreateOne(m, bind, n, y, i), x, Numbers(n)).members

(* The team of master m.  *)
Team(m, bind, n, workers) ==
  LET c == FirstPlace(m, bind, n) IN
  [bind |-> bind, by |-> m,
   members |-> <<[m EXCEPT !.off = IF n = 1 THEN @ ELSE c.off,
                           !.len = IF n = 1 THEN @ ELSE c.len]>> \o workers]

-----------------------------------------------------------------------------

(* gomp_team_start, not nested, up to the dock.  A team of one has no part *)
(* in the pool.                                                            *)
TeamStart(bind, n) ==
  /\ pc = "serial"
  /\ LET x       == Reuse(Initial, bind, n)
         workers == Create(Initial, bind, n, x)
         diff    == n + x.count - OldThreads IN
     IF n = 1
     THEN /\ levels' = <<Team(Initial, bind, 1, <<>>)>>
          /\ pc' = "region"
          /\ UNCHANGED <<pool, dock, managed, local, threads>>
     ELSE /\ levels' = <<Team(Initial, bind, n, workers)>>
          /\ pool' = [i \in 1 .. n - 1 |-> [place |-> workers[i].place, bound |-> workers[i].bound]]
          /\ dock' = IF x.count > 0 THEN n + x.count ELSE IF n > OldThreads THEN n ELSE dock
          /\ managed' = IF diff <= 0 THEN managed
                        ELSE managed + diff - (IF OldThreads = 0 THEN 1 ELSE 0)
          /\ local' = [old_threads_used |-> OldThreads, affinity_count |-> x.count,
                       ahead |-> x.ahead]
          /\ threads' = threads + Cardinality({i \in DOMAIN workers : x.members[i] = Null})
          /\ pc' = "dock"
  /\ UNCHANGED program

(* mutant: the dock is set back only if the team is smaller *)
Released_IfSmaller ==
  /\ pc = "dock"
  /\ threads = dock
  /\ LET n == Len(pool) + 1 IN
     /\ IF n < local.old_threads_used
        THEN dock' = n /\ managed' = managed + n - local.old_threads_used
        ELSE UNCHANGED <<dock, managed>>
     /\ threads' = n
  /\ pc' = "region"
  /\ UNCHANGED <<program, pool, levels, local>>

(* do_release: the dock opens when dock threads have come to it, and those *)
(* that are not in the team exit.                                          *)
Released ==
  /\ pc = "dock"
  /\ threads = dock
  /\ LET n == Len(pool) + 1 IN
     /\ IF n < local.old_threads_used \/ local.affinity_count > 0
        THEN /\ dock' = n
             /\ managed' = IF local.affinity_count > 0 THEN managed - local.affinity_count
                           ELSE managed + n - local.old_threads_used
        ELSE UNCHANGED <<dock, managed>>
     /\ threads' = n
  /\ pc' = "region"
  /\ UNCHANGED <<program, pool, levels, local>>

(* gomp_team_start of member i of the innermost team, nested: all threads  *)
(* are new.                                                                *)
NestedStart(i, bind, n) ==
  /\ pc = "region" /\ Len(levels) < MaxLevels
  /\ LET m == Last(levels).members[i]
         new == [c |-> FirstPlace(m, bind, n), i |-> 1, lists |-> <<>>,
                 members |-> [j \in 1 .. n - 1 |-> Null]] IN
     levels' = Append(levels, Team(m, bind, n, Create(m, bind, n, new)))
  /\ managed' = managed + n - 1
  /\ threads' = threads + n - 1
  /\ UNCHANGED <<program, pool, dock, pc, local>>

(* gomp_team_end: the threads of a nested team exit. *)
TeamEnd ==
  /\ pc = "region"
  /\ LET n == Len(Last(levels).members) IN
     IF Len(levels) > 1
     THEN managed' = managed + 1 - n /\ threads' = threads + 1 - n /\ UNCHANGED pc
     ELSE pc' = "serial" /\ UNCHANGED <<managed, threads>>
  /\ levels' = Front(levels)
  /\ UNCHANGED <<program, pool, dock, local>>

Members == IF levels = <<>> THEN {} ELSE DOMAIN Last(levels).members

Next == \/ \E bind \in program.policies :
             \/ \E n \in program.outer : TeamStart(bind, n)
             \/ \E n \in program.nested, i \in Members : NestedStart(i, bind, n)
        \/ Released
        \/ TeamEnd

Spec == Init /\ [][Next]_vars

-----------------------------------------------------------------------------

(* Where thread i of a team belongs.  Places are dealt out one by one from *)
(* the master's on, round the partition; if there are fewer than threads,  *)
(* s to each and the remaining ones again one by one.  Spread divides the  *)
(* partition into one part for each thread, the first rest of them larger  *)
(* by one, and takes the first place of each but the master's.             *)
PlaceOf(team, i) ==
  LET m == team.by
      n == Len(team.members)
      s == n \div m.len
      Round(d) == m.off + ((m.place - 1 - m.off + d) % m.len)
      size == m.len \div n
      Part(j) == m.off + j * size + Min({j, m.len % n})   \* where part j begins
      mine == CHOOSE j \in 0 .. n - 1 : m.place - 1 \in Part(j) .. Part(j + 1) - 1
  IN  1 + CASE team.bind = "master" \/ i = 0 -> m.place - 1
            [] n > m.len -> Round(IF i < s * m.len THEN i \div s ELSE i - s * m.len)
            [] team.bind \in {"close", "true"} -> Round(i)
            [] team.bind = "spread" -> Part((mine + i) % n)

PlacedIn(l, i) ==
  levels[l].bind # "true" => levels[l].members[i].place = PlaceOf(levels[l], i - 1)

(* The library knows where each thread is bound.  Only if regions without  *)
(* a policy of their own run under OMP_PROC_BIND=true, which takes threads *)
(* wherever they are bound, it loses track.                                *)
BoundIn(l, i) ==
  "true" \notin program.policies => levels[l].members[i].bound = levels[l].members[i].place

(* Whatever teams the pool has served before, the library has for every    *)
(* thread of a team the place that its number and the policy ask for, and  *)
(* the thread is bound there.                                              *)
WellPlaced ==
  \A l \in DOMAIN levels : \A i \in DOMAIN levels[l].members : PlacedIn(l, i) /\ BoundIn(l, i)

(* The new threads of a pool that has found all the old ones in another    *)
(* order get the place of the thread after them.                           *)
Ahead(l) == l = 1 /\ local.ahead

(* Apart from these every thread is well placed.                           *)
PlacedUnlessAhead ==
  \A l \in DOMAIN levels : \A i \in DOMAIN levels[l].members :
    /\ ~(Ahead(l) /\ i > local.old_threads_used) => PlacedIn(l, i)
    /\ BoundIn(l, i)

(* The partitions of a spread team are intervals of its master's, each     *)
(* thread is in its own, and when there are places enough they share it    *)
(* out, so that nested teams do not get in each other's way.               *)
PartitionsDisjoint ==
  \A l \in DOMAIN levels :
    LET t == levels[l].members
        Part(i) == t[i].off .. t[i].off + t[i].len - 1
        all == levels[l].by.off .. levels[l].by.off + levels[l].by.len - 1 IN
    levels[l].bind = "spread" /\ Len(t) > 1 =>
      /\ \A i \in DOMAIN t : t[i].place - 1 \in Part(i) /\ Part(i) \subseteq all
      /\ ~Ahead(l) => UNION {Part(i) : i \in DOMAIN t} = all
      /\ Len(t) <= levels[l].by.len /\ ~Ahead(l) =>
           \A i, j \in DOMAIN t : i # j => Part(i) \cap Part(j) = {}

(* The dock waits for all threads that will come, those that are let go    *)
(* and the new ones, and for no more; gomp_managed_threads counts the      *)
(* threads there are.                                                      *)
ThreadsCounted ==
  /\ managed = threads
  /\ pc = "dock" => dock = threads
=============================================================================
