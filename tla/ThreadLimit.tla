----------------------------- MODULE ThreadLimit -----------------------------
(***************************************************************************)
(* How many threads a parallel region gets: gomp_resolve_num_threads, the  *)
(* limit GOMP_parallel adds for ARINC 653 (parallel.c), and the count of   *)
(* threads_busy that GOMP_parallel_end gives back.                         *)
(*                                                                         *)
(* Each initial thread g is a contention group with a pool of its own and  *)
(* runs the regions of program.outer[g]; every member <<g, i>> of such a   *)
(* team may start nested regions, at most Calls of them, from              *)
(* program.nested.  Nesting is enabled one level deep (nest_var,           *)
(* gomp_max_active_levels_var = 2), dyn_var is off, thread_limit_var is    *)
(* Limit.                                                                  *)
(***************************************************************************)
EXTENDS Integers, Sequences, FiniteSets

CONSTANTS
  Initials,  \* the initial threads
  Programs,  \* [outer |-> the regions of each initial thread,
             \*  nested |-> the nested regions a member may ask for]
  Calls,     \* bound: nested regions a member starts in one region
  Limit,     \* thread_limit_var
  MaxTeam    \* the largest number of threads asked for

(* Only "parallel" has the ARINC limit; "workshare" stands for the         *)
(* combined constructs, GOMP_parallel_sections and GOMP_parallel_loop_*.   *)
Requests == [construct : {"parallel", "workshare"}, threads : 1 .. MaxTeam]

LimitAssumption == Limit \in Nat \ {0} /\ MaxTeam \in Nat \ {0} /\ Calls \in Nat
ProgramsAssumption ==
  \A p \in Programs : p.outer \in [Initials -> Seq(Requests)] /\ p.nested \subseteq Requests

Min2(m, n) == IF m < n THEN m ELSE n

(* What gomp_resolve_num_threads makes of an outer region's request.       *)
OuterThreads(r) == IF r.threads = 1 THEN 1 ELSE Min2(r.threads, Limit)

Members == Initials \X (0 .. MaxTeam - 1)
Group(c)  == c[1]
Leader(g) == <<g, 0>>                 \* the initial thread itself

VARIABLES
  program,       \* the program that runs
  FIRST, ARINC_MAX_THREADS,
  threads_busy,  \* threads_busy[g]: pool->threads_busy
  pool,          \* pool[g]: g has a pool
  size,          \* size[g]: nthreads of g's team, 0 outside of a region
  nested,        \* nested[c]: nthreads of c's nested team, 0 for none
  step,          \* step[g]: the region of program.outer[g] that g has reached
  calls,         \* calls[c]: how many nested regions c may still start
  request, num_threads, busy,   \* locals of c in GOMP_parallel
  pc

cap    == <<program, FIRST, ARINC_MAX_THREADS>>
locals == <<request, num_threads, busy>>
vars   == <<cap, threads_busy, pool, size, nested, step, calls, locals, pc>>

Goto(c, place) == pc' = [pc EXCEPT ![c] = place]
Outside(c) == size[Group(c)] = 0      \* thr->ts.team = NULL

Init == /\ program \in Programs
        /\ FIRST = 1 /\ ARINC_MAX_THREADS = 0
        /\ threads_busy = [g \in Initials |-> 1]
        /\ pool = [g \in Initials |-> FALSE]
        /\ size = [g \in Initials |-> 0]
        /\ nested = [c \in Members |-> 0]
        /\ step = [g \in Initials |-> 1]
        /\ calls = [c \in Members |-> 0]
        /\ request = [c \in Members |-> [construct |-> "workshare", threads |-> 1]]
        /\ num_threads = [c \in Members |-> 0]
        /\ busy = [c \in Members |-> 0]
        /\ pc = [c \in Members |-> IF c[2] = 0 THEN "run" ELSE "absent"]

-----------------------------------------------------------------------------
(* gomp_resolve_num_threads. *)

(* After the number has been resolved: only "parallel" looks at FIRST.     *)
Resolved(c) == IF request'[c].construct = "parallel" THEN "first" ELSE "start"

(* Outside of a team there is just one thread in the group: no atomicity.  *)
ResolveOutside(c) ==
  /\ pc[c] = "run" /\ c = Leader(Group(c)) /\ Outside(c)
  /\ step[Group(c)] <= Len(program.outer[Group(c)])
  /\ LET r == program.outer[Group(c)][step[Group(c)]] IN
     /\ request' = [request EXCEPT ![c] = r]
     /\ num_threads' = [num_threads EXCEPT ![c] = OuterThreads(r)]
     /\ threads_busy' = IF pool[Group(c)] /\ r.threads > 1
                        THEN [threads_busy EXCEPT ![Group(c)] = OuterThreads(r)]
                        ELSE threads_busy
  /\ step' = [step EXCEPT ![Group(c)] = @ + 1]
  /\ Goto(c, Resolved(c))
  /\ UNCHANGED <<cap, pool, size, nested, calls, busy>>

(* A member of a team asks for a nested region; a region of one thread     *)
(* reserves nothing.                                                       *)
ResolveNested(c) ==
  /\ pc[c] = "run" /\ ~Outside(c) /\ nested[c] = 0 /\ calls[c] > 0
  /\ \E r \in program.nested :
       /\ request' = [request EXCEPT ![c] = r]
       /\ num_threads' = [num_threads EXCEPT ![c] = r.threads]
       /\ Goto(c, IF r.threads = 1 THEN Resolved(c) ELSE "load_busy")
  /\ calls' = [calls EXCEPT ![c] = @ - 1]
  /\ UNCHANGED <<cap, threads_busy, pool, size, nested, step, busy>>

(* What is left of the limit, an unsigned number: if more threads were     *)
(* counted than it allows, it would wrap around and limit nothing.         *)
LoadBusy(c) ==
  /\ pc[c] = "load_busy"
  /\ LET counted == threads_busy[Group(c)]
         asked   == request[c].threads
     IN /\ busy' = [busy EXCEPT ![c] = counted]
        /\ num_threads' = [num_threads EXCEPT
                             ![c] = IF counted > Limit + 1 THEN asked
                                    ELSE Min2(asked, Limit - counted + 1)]
  /\ Goto(c, "cas_busy")
  /\ UNCHANGED <<cap, threads_busy, pool, size, nested, step, calls, request>>

(* mutant: the reservation is stored without a comparison *)
ReserveBusy_NoCompare(c) ==
  /\ pc[c] = "cas_busy"
  /\ threads_busy' = [threads_busy EXCEPT ![Group(c)] = busy[c] + num_threads[c] - 1]
  /\ Goto(c, IF request[c].construct = "parallel" THEN "first" ELSE "start")
  /\ UNCHANGED <<cap, pool, size, nested, step, calls, locals>>

(* The compare and swap that reserves num_threads - 1 threads. *)
ReserveBusy(c) ==
  /\ pc[c] = "cas_busy"
  /\ IF threads_busy[Group(c)] = busy[c]
     THEN /\ threads_busy' = [threads_busy EXCEPT ![Group(c)] = busy[c] + num_threads[c] - 1]
          /\ Goto(c, IF request[c].construct = "parallel" THEN "first" ELSE "start")
     ELSE Goto(c, "load_busy") /\ UNCHANGED threads_busy
  /\ UNCHANGED <<cap, pool, size, nested, step, calls, locals>>

-----------------------------------------------------------------------------
(* The limit of GOMP_parallel, on two plain global variables. *)

ReadFirst(c) ==
  /\ pc[c] = "first"
  /\ Goto(c, IF FIRST = 1 THEN "clear_first" ELSE "compare")
  /\ UNCHANGED <<cap, threads_busy, pool, size, nested, step, calls, locals>>

ClearFirst(c) ==
  /\ pc[c] = "clear_first"
  /\ FIRST' = 0
  /\ Goto(c, "set_max")
  /\ UNCHANGED <<program, ARINC_MAX_THREADS, threads_busy, pool, size, nested, step, calls, locals>>

SetMax(c) ==
  /\ pc[c] = "set_max"
  /\ ARINC_MAX_THREADS' = num_threads[c]
  /\ Goto(c, "compare")
  /\ UNCHANGED <<program, FIRST, threads_busy, pool, size, nested, step, calls, locals>>

(* mutant: the warning is printed, the number stays *)
CompareMax_WarnsOnly(c) ==
  /\ pc[c] = "compare"
  /\ Goto(c, "start")
  /\ UNCHANGED <<cap, threads_busy, pool, size, nested, step, calls, locals>>

CompareMax(c) ==
  /\ pc[c] = "compare"
  /\ Goto(c, IF num_threads[c] > ARINC_MAX_THREADS THEN "lower" ELSE "start")
  /\ UNCHANGED <<cap, threads_busy, pool, size, nested, step, calls, locals>>

LowerToMax(c) ==
  /\ pc[c] = "lower"
  /\ num_threads' = [num_threads EXCEPT ![c] = ARINC_MAX_THREADS]
  /\ Goto(c, "start")
  /\ UNCHANGED <<cap, threads_busy, pool, size, nested, step, calls, request, busy>>

-----------------------------------------------------------------------------
(* gomp_new_team and gomp_team_start, the region, and GOMP_parallel_end.   *)

(* The first team of the initial thread comes with the pool, whose         *)
(* threads_busy is the number of threads of the team.                      *)
StartOutside(c) ==
  /\ pc[c] = "start" /\ Outside(c) /\ num_threads[c] > 0
  /\ LET g == Group(c) IN
     /\ size' = [size EXCEPT ![g] = num_threads[c]]
     /\ pool' = [pool EXCEPT ![g] = TRUE]
     /\ threads_busy' = IF pool[g] THEN threads_busy
                        ELSE [threads_busy EXCEPT ![g] = num_threads[c]]
     /\ calls' = [d \in Members |-> IF Group(d) = g THEN Calls ELSE calls[d]]
     /\ pc' = [d \in Members |-> IF Group(d) = g /\ d[2] < num_threads[c] THEN "run" ELSE pc[d]]
  /\ UNCHANGED <<cap, nested, step, locals>>

StartNested(c) ==
  /\ pc[c] = "start" /\ ~Outside(c) /\ num_threads[c] > 0
  /\ nested' = [nested EXCEPT ![c] = num_threads[c]]
  /\ Goto(c, "region")
  /\ UNCHANGED <<cap, threads_busy, pool, size, step, calls, locals>>

(* A team of no threads: its barriers never open and the caller stays.     *)
StartEmpty(c) ==
  /\ pc[c] = "start" /\ num_threads[c] = 0
  /\ Goto(c, "stuck")
  /\ UNCHANGED <<cap, threads_busy, pool, size, nested, step, calls, locals>>

EndNested(c) ==
  /\ pc[c] = "region"
  /\ nested' = [nested EXCEPT ![c] = 0]
  /\ Goto(c, IF nested[c] > 1 THEN "release" ELSE "run")
  /\ UNCHANGED <<cap, threads_busy, pool, size, step, calls, locals>>

(* The fetch-and-add of 1 - nthreads. *)
ReleaseBusy(c) ==
  /\ pc[c] = "release"
  /\ threads_busy' = [threads_busy EXCEPT ![Group(c)] = @ + 1 - num_threads[c]]
  /\ Goto(c, "run")
  /\ UNCHANGED <<cap, pool, size, nested, step, calls, locals>>

(* The outer region ends when all its members are through. *)
EndOutside(g) ==
  /\ size[g] > 0
  /\ \A i \in 0 .. size[g] - 1 : pc[<<g, i>>] = "run" /\ nested[<<g, i>>] = 0
  /\ threads_busy' = IF size[g] > 1 THEN [threads_busy EXCEPT ![g] = 1] ELSE threads_busy
  /\ size' = [size EXCEPT ![g] = 0]
  /\ pc' = [d \in Members |-> IF Group(d) = g /\ d[2] > 0 THEN "absent" ELSE pc[d]]
  /\ UNCHANGED <<cap, pool, nested, step, calls, locals>>

-----------------------------------------------------------------------------

Step(c) == \/ ResolveOutside(c) \/ ResolveNested(c) \/ LoadBusy(c) \/ ReserveBusy(c)
           \/ ReadFirst(c) \/ ClearFirst(c) \/ SetMax(c) \/ CompareMax(c) \/ LowerToMax(c)
           \/ StartOutside(c) \/ StartNested(c) \/ StartEmpty(c)
           \/ EndNested(c) \/ ReleaseBusy(c)

(* Every initial thread is through with its program, or somebody is stuck. *)
Finished == \A g \in Initials :
              \/ \E c \in Members : Group(c) = g /\ pc[c] = "stuck"
              \/ step[g] > Len(program.outer[g]) /\ size[g] = 0 /\ pc[Leader(g)] = "run"

Next == \/ \E c \in Members : Step(c)
        \/ \E g \in Initials : EndOutside(g)
        \/ Finished /\ UNCHANGED vars

Spec == Init /\ [][Next]_vars

-----------------------------------------------------------------------------

(* The threads that run in group g: one by default, the outer team's, and  *)
(* what nested teams add to it, thread <<i, k>> the k-th of member i's.    *)
NestedThreads(g) ==
  {s \in (0 .. MaxTeam - 1) \X (1 .. MaxTeam) : s[2] < nested[<<g, s[1]>>]}
Running(g) == (IF size[g] = 0 THEN 1 ELSE size[g]) + Cardinality(NestedThreads(g))

(* The threads that run in a contention group are all reserved and never   *)
(* more than thread_limit_var.                                             *)
ThreadLimitHeld ==
  \A g \in Initials : Running(g) <= threads_busy[g] /\ threads_busy[g] <= Limit

(* Who is about to take over ARINC_MAX_THREADS has more threads than that: *)
(* it has not changed since the comparison that calls the rest ignored     *)
(* (GOMP_parallel).  Another initial thread that had found FIRST set can   *)
(* change it in between, and the number is raised above what is reserved.  *)
NeverRaised == \A c \in Members : pc[c] = "lower" => ARINC_MAX_THREADS <= num_threads[c]

(* However the members' reservations interleave, the count and the limit   *)
(* hold as long as no number is raised.                                    *)
LimitHeldUnlessRaised == []NeverRaised => []ThreadLimitHeld

(* The initial threads begin with GOMP_parallel, with these numbers of     *)
(* threads; they have agreed on one.                                       *)
BeginsParallel == \A g \in Initials : Len(program.outer[g]) > 0 =>
                                        program.outer[g][1].construct = "parallel"
FirstNumbers   == {OuterThreads(program.outer[g][1]) : g \in {h \in Initials : Len(program.outer[h]) > 0}}
FirstAgreed    == BeginsParallel /\ \A k, n \in FirstNumbers : k = n

(* examples/readme: the first parallel directive limits the number of      *)
(* threads.  No GOMP_parallel makes a team of more threads than the first  *)
(* one of an initial thread; which, if they have not agreed, depends on    *)
(* their race for FIRST and ARINC_MAX_THREADS.  The combined constructs    *)
(* never ask (loop.c, sections.c).                                         *)
Bounded(n) == \E k \in FirstNumbers : n <= k
FirstLimitsAll ==
  BeginsParallel =>
    /\ \A g \in Initials :
         size[g] > 0 /\ program.outer[g][step[g] - 1].construct = "parallel" => Bounded(size[g])
    /\ \A c \in Members :
         nested[c] > 0 /\ request[c].construct = "parallel" => Bounded(nested[c])
=============================================================================
