---------------------------- MODULE TeamPoolProofs ----------------------------
(***************************************************************************)
(* A team ends when all of its members have run the region's function,     *)
(* nobody runs a stale one, no thread uses a freed team, and the dock of a *)
(* freed pool is left to threads that have been let go: for any sequence   *)
(* of regions and whatever threads come, stay or leave, if each team is    *)
(* made for as many threads as it is started with.                         *)
(***************************************************************************)
EXTENDS TeamPool, NaturalsInduction, WellFoundedInduction, FiniteSetTheorems, TLAPS

(* GOMP_parallel and its like ask gomp_new_team for as many threads as     *)
(* gomp_team_start; GOMP_parallel_start may not, and is left out here.     *)
WholeTeams == \A r \in RegionIds : Regions[r].team = Regions[r].threads

Functions == RegionIds \cup {NULL, Helper}
Barriers  == {"load", "arrive", "reset", "open", "wait"}
Places    == Barriers \cup
  {"unborn", "idle", "team_start", "assign", "create", "docked", "body", "team_end", "start",
   "finish_task", "undock", "free_threads", "undocked", "unmanage", "free_pool", "gone"}

Counters == [awaited : Int, total : Nat, generation : Nat]
Records  == [team : TeamIds \cup {NoTeam}, id : Nat, fn : Functions]
Locals   == [fn : Functions, team : TeamIds \cup {NoTeam}]
Pools    == [threads_used : Nat, last_team : TeamIds \cup {NoTeam}, freed : BOOLEAN,
             threads : [Ids -> Workers \cup {NoThread}]]

TypeOK ==
  /\ region \in 1 .. Len(Regions) + 1
  /\ team \in TeamIds \cup {NoTeam}
  /\ index \in Nat \ {0} /\ old_threads_used \in Nat
  /\ pool \in Pools
  /\ bar \in [TeamIds \cup {Dock} -> Counters]
  /\ status \in [TeamIds -> {"none", "live", "freed"}]
  /\ thr \in [Threads -> Records]
  /\ local \in [Threads -> Locals]
  /\ at \in [Threads -> TeamIds \cup {Dock}]
  /\ ret \in [Threads -> Places]
  /\ seen \in [Threads -> Nat]
  /\ ran \in [RegionIds -> [Ids -> Nat]]
  /\ pc \in [Threads -> Places]

-----------------------------------------------------------------------------
(* Where a thread is with respect to a barrier.                            *)
At(t, b)      == pc[t] \in Barriers /\ at[t] = b
Here(t, b)    == At(t, b) /\ (pc[t] # "load" => seen[t] = bar[b].generation)
LetGo(t, b)   == pc[t] = "wait" /\ at[t] = b /\ seen[t] < bar[b].generation
Opening(t, b) == pc[t] \in {"reset", "open"} /\ at[t] = b

(* Counted by barrier b; the helpers do not wait at the dock.              *)
Arrived(t, b) == pc[t] = "gone" \/ (Here(t, b) /\ pc[t] \notin {"load", "arrive"})

(* Barrier b is to be passed by n threads, of which who gives the first c. *)
Missing(b, n, c, who) == {i \in 0 .. n - 1 : ~(i < c /\ Arrived(who[i], b))}

Round(b, n, c, who) ==
  /\ bar[b].total = n
  /\ \A i \in 0 .. c - 1 : Opening(who[i], b) => Missing(b, n, c, who) = {}
  /\ \A i, j \in 0 .. c - 1 : Opening(who[i], b) /\ Opening(who[j], b) => i = j
  /\ IF \E i \in 0 .. c - 1 : at[who[i]] = b /\ pc[who[i]] = "open"
     THEN bar[b].awaited = n
     ELSE bar[b].awaited = Cardinality(Missing(b, n, c, who))

Full(b, n) == bar[b].total = n /\ bar[b].awaited = n

-----------------------------------------------------------------------------
(* The stages between one passing of the dock and the next:                *)
(*   "gather"  the threads of the pool come to the dock from the end of    *)
(*             their last region, and new ones are created                 *)
(*   "run"     they are past it and run the region's function              *)
(*   "exit"    they are past it and come to it once more, to exit          *)
(*   "over"    they are gone                                               *)
(* who gives the thread of each number, 0 being the master.                *)
Stages == {"gather", "run", "exit", "over"}

Used     == pool.threads_used
Several  == region \in RegionIds /\ Size > 1
Alone    == region \in RegionIds /\ Size = 1
Known    == IF Used = 0 THEN 1 ELSE Used
Older    == IF old_threads_used = 0 THEN 1 ELSE old_threads_used
Maximum(a, b) == IF a > b THEN a ELSE b

(* How many pass the dock next.                                            *)
Expected(c) == IF pc[Master] \in {"assign", "create"} THEN Maximum(c, Size) ELSE c

(* The team the workers ran in last.                                       *)
Ending == /\ Several
          /\ \/ pc[Master] = "team_end"
             \/ pc[Master] = "wait" /\ at[Master] = team /\ bar[team].generation = seen[Master] + 1
Kept == IF Ending \/ pool.last_team = NoTeam THEN team ELSE pool.last_team

(* What gomp_team_start and gomp_free_thread have given number i to do.    *)
Given(i) ==
  CASE pc[Master] \in {"assign", "create"}              -> IF i < index THEN region ELSE NULL
    [] pc[Master] = "free_threads"                      -> IF i < index THEN Helper ELSE NULL
    [] At(Master, Dock) /\ ret[Master] = "docked"       -> IF i < Size THEN region ELSE NULL
    [] At(Master, Dock) /\ ret[Master] = "undocked"     -> Helper
    [] OTHER                                            -> NULL

MasterGathers(c) ==
  \/ /\ pc[Master] = "idle" /\ team = NoTeam /\ c = Known
  \/ /\ pc[Master] = "free_threads" /\ team = NoTeam /\ region \notin RegionIds
     /\ Used > 1 /\ c = Used /\ index <= Used
  \/ /\ pc[Master] = "team_start" /\ region \in RegionIds /\ team # NoTeam /\ c = Known
  \/ /\ pc[Master] = "assign" /\ Several /\ team # NoTeam /\ Used = Size
     /\ c = Older /\ index <= c /\ index <= Size
  \/ /\ pc[Master] = "create" /\ Several /\ team # NoTeam /\ Used = Size
     /\ old_threads_used < Size /\ Older <= index /\ index <= Size /\ c = index
  \/ /\ Here(Master, Dock) /\ ret[Master] = "docked" /\ Several /\ team # NoTeam /\ Used = Size
     /\ c = Maximum(old_threads_used, Size)
  \/ /\ Here(Master, Dock) /\ ret[Master] = "undocked" /\ region \notin RegionIds
     /\ team = NoTeam /\ Used > 1 /\ c = Used
  \/ /\ Alone /\ team # NoTeam /\ c = Known
     /\ \/ pc[Master] = "body" /\ local[Master] = [fn |-> region, team |-> team]
        \/ Here(Master, team) /\ pc[Master] # "wait" /\ ret[Master] = "team_end"
        \/ pc[Master] = "team_end"
  \/ /\ Ending /\ team # NoTeam /\ Used = Size /\ c = Used
     /\ pc[Master] = "wait" => ret[Master] = "team_end"

Creating == pc[Master] = "create" \/ (At(Master, Dock) /\ ret[Master] = "docked")

(* Worker w has been told what is given to number i, or its last team is   *)
(* the one that is kept.                                                   *)
Told(i, w) == thr[w].fn = Given(i) /\ (thr[w].fn = region => thr[w].team = team)
FromKept(w) == local[w].team = Kept /\ Kept # NoTeam /\ (Alone => Kept # team)

WorkerGathers(i, w) ==
  \/ /\ \/ pc[w] = "start"
        \/ Here(w, Dock) /\ ret[w] = "body"
     /\ local[w] = [fn |-> region, team |-> team] /\ thr[w].fn = NULL
     /\ i >= Older
     /\ Creating
  \/ /\ \/ /\ \/ /\ pc[w] = "wait" /\ at[w] = local[w].team /\ ret[w] = "finish_task"
                 /\ bar[at[w]].generation = seen[w] + 1
              \/ pc[w] = "finish_task"
           /\ FromKept(w)
        \/ Here(w, Dock) /\ ret[w] = "undock"
     /\ Told(i, w)

MasterRuns ==
  \/ /\ (LetGo(Master, Dock) /\ ret[Master] = "docked") \/ pc[Master] = "docked"
     /\ Full(Dock, Maximum(old_threads_used, Size))
  \/ /\ \/ pc[Master] = "body" /\ local[Master] = [fn |-> region, team |-> team]
        \/ Here(Master, team) /\ ret[Master] = "team_end"
     /\ Full(Dock, Size)

WorkerRuns(w) ==
  \/ /\ \/ LetGo(w, Dock) /\ ret[w] = "body"
        \/ pc[w] = "body"
     /\ local[w] = [fn |-> region, team |-> team] /\ thr[w].fn = NULL
  \/ /\ (LetGo(w, Dock) /\ ret[w] = "undock") \/ pc[w] = "undock"
     /\ thr[w].fn = region /\ thr[w].team = team
  \/ Here(w, team) /\ ret[w] = "finish_task" /\ local[w].team = team /\ thr[w].fn = NULL

MasterExits ==
  \/ LetGo(Master, Dock) /\ ret[Master] = "undocked"
  \/ pc[Master] = "undocked"
  \/ Here(Master, Dock) /\ ret[Master] = "unmanage"

WorkerExits(w) ==
  \/ ((LetGo(w, Dock) /\ ret[w] = "undock") \/ pc[w] = "undock") /\ thr[w].fn = Helper
  \/ Here(w, Dock) /\ pc[w] # "wait" /\ ret[w] = "gone"
  \/ pc[w] = "gone"

(* Not yet created, gone, or let go by a smaller region.                   *)
Outside(w) ==
  \/ pc[w] \in {"unborn", "gone"}
  \/ ((LetGo(w, Dock) /\ ret[w] = "undock") \/ pc[w] = "undock") /\ thr[w].fn = NULL

Members(c, who) ==
  /\ c \in Nat \ {0}
  /\ who \in [0 .. c - 1 -> Threads]
  /\ who[0] = Master /\ thr[Master].id = 0
  /\ \A i \in 1 .. c - 1 :
       /\ who[i] \in Workers
       /\ i \in Ids
       /\ thr[who[i]].id = i
       /\ pc[who[i]] # "start" => pool.threads[i] = who[i]
  /\ \A w \in Workers : (\E i \in 1 .. c - 1 : who[i] = w) \/ Outside(w)

Gather(c, who) ==
  /\ MasterGathers(c)
  /\ \A i \in 1 .. c - 1 : WorkerGathers(i, who[i])
  /\ IF Used = 0 THEN \A w \in Workers : pc[w] = "unborn"
                 ELSE Round(Dock, Expected(c), c, who)
  /\ team # NoTeam => IF Opening(Master, team) /\ pc[Master] = "reset"
                      THEN bar[team].total = Size /\ bar[team].awaited = 0
                      ELSE Full(team, Size)

Run(c, who) ==
  /\ Several /\ team # NoTeam /\ c = Size /\ Used = Size
  /\ MasterRuns
  /\ \A i \in 1 .. c - 1 : WorkerRuns(who[i])
  /\ Round(team, c, c, who)

Exit(c, who) ==
  /\ region \notin RegionIds /\ team = NoTeam /\ c = Used /\ Used > 1
  /\ MasterExits
  /\ \A i \in 1 .. c - 1 : WorkerExits(who[i])
  /\ Round(Dock, c, c, who)

Over(c) ==
  /\ region \notin RegionIds /\ team = NoTeam /\ c = 1
  /\ \/ LetGo(Master, Dock) /\ ret[Master] = "unmanage"
     \/ pc[Master] \in {"unmanage", "free_pool", "gone"}

Staged(stage, c, who) ==
  CASE stage = "gather" -> Gather(c, who)
    [] stage = "run"    -> Run(c, who)
    [] stage = "exit"   -> Exit(c, who)
    [] stage = "over"   -> Over(c)

Teams ==
  /\ team # NoTeam => team <= region /\ status[team] = "live" /\ team # pool.last_team
  /\ pool.last_team # NoTeam => /\ pool.last_team < region
                                /\ pc[Master] # "gone" => status[pool.last_team] = "live"
                                /\ bar[pool.last_team].total > 1
                                /\ Full(pool.last_team, bar[pool.last_team].total)
  /\ Used # 1
  /\ pool.freed => pc[Master] = "gone"

HasRun(stage, i, who) == \/ pc[Master] = "team_end"
                         \/ stage = "gather" /\ At(Master, team)
                         \/ stage = "run" /\ At(who[i], team)

Counts(stage, who) ==
  \A r \in RegionIds : \A i \in Ids :
    ran[r][i] = IF i < Regions[r].threads
                   /\ (r < region \/ (r = region /\ HasRun(stage, i, who)))
                THEN 1 ELSE 0

Inv(stage, c, who) ==
  TypeOK /\ Members(c, who) /\ Staged(stage, c, who) /\ Teams /\ Counts(stage, who)

IInv == \E stage \in Stages : \E c, who : Inv(stage, c, who)

-----------------------------------------------------------------------------
(* A set of natural numbers that has 0, and the next of each of its        *)
(* members, has them all.                                                  *)
LEMMA Induction ==
  ASSUME NEW S, 0 \in S, \A i \in Nat : i \in S => i + 1 \in S
  PROVE  Nat \subseteq S
<1>1. SUFFICES ASSUME Nat \ S # {} PROVE FALSE
  OBVIOUS
<1>2. \E i \in Nat \ S : \A j \in Nat \ S : ~ <<j, i>> \in OpToRel(<, Nat)
  BY <1>1, WFMin, NatLessThanWellFounded
<1>3. PICK i \in Nat \ S : \A j \in Nat \ S : ~ (j < i)
  BY <1>2 DEF OpToRel
<1>4. i - 1 \in Nat /\ i - 1 < i
  BY <1>3
<1> QED BY <1>3, <1>4

LEMMA Sizes ==
  /\ Len(Regions) \in Nat
  /\ \A r \in RegionIds : /\ Regions[r].threads \in Nat \ {0} /\ Regions[r].team \in Nat \ {0}
                          /\ r \in Nat /\ r # NoTeam /\ r # Dock
  /\ NoTeam \notin RegionIds /\ Dock \notin RegionIds /\ Helper \notin RegionIds /\ NULL \notin RegionIds
  /\ NULL # Helper /\ Dock # NoTeam
<1>1. Len(Regions) \in Nat
  BY RegionsAssumption
<1>2. ASSUME NEW r \in RegionIds
      PROVE  Regions[r].threads \in Nat \ {0} /\ Regions[r].team \in Nat \ {0} /\ r \in Nat /\ r > 0
  <2> DEFINE S == [threads : Nat \ {0}, team : Nat \ {0}]
  <2>1. r \in 1 .. Len(Regions) /\ Regions \in Seq(S)
    BY RegionsAssumption DEF RegionIds
  <2>2. Regions[r] \in S
    <3> HIDE DEF S
    <3> QED BY <2>1
  <2> QED BY <1>1, <2>1, <2>2
<1> QED BY <1>1, <1>2 DEF RegionIds, NoTeam, Dock, Helper, NULL

(* No region is larger than the pool has room for.                         *)
LEMMA RoomForAll ==
  /\ \A r \in RegionIds : Regions[r].threads <= MaxThreads
  /\ RegionIds # {} => MaxThreads \in Nat
<1> DEFINE Largest(m, n) == \A r \in 1 .. n : Regions[r].threads <= Regions[m].threads
           S == {n \in Nat : n \in RegionIds => \E m \in RegionIds : Largest(m, n)}
<1>1. 0 \in S
  BY Sizes DEF RegionIds
<1>2. ASSUME NEW n \in Nat, n \in S, n + 1 \in RegionIds
      PROVE  \E m \in RegionIds : Largest(m, n + 1)
  <2>1. CASE n = 0
    BY <1>2, <2>1, Sizes DEF RegionIds
  <2>2. CASE n # 0
    <3>1. PICK m \in RegionIds : Largest(m, n)
      BY <1>2, <2>2, Sizes DEF RegionIds
    <3>2. Largest(n + 1, n + 1) \/ Largest(m, n + 1)
      BY <1>2, <3>1, Sizes DEF RegionIds
    <3> QED BY <1>2, <3>1, <3>2
  <2> QED BY <2>1, <2>2
<1>3. Nat \subseteq S
  <2> HIDE DEF Largest
  <2>1. \A n \in Nat : n \in S => n + 1 \in S
    BY <1>2
  <2> HIDE DEF S
  <2> QED BY <1>1, <2>1, Induction
<1>4. ASSUME RegionIds # {}
      PROVE  \E m \in RegionIds : Largest(m, Len(Regions))
  <2>1. Len(Regions) \in RegionIds /\ Len(Regions) \in Nat
    BY <1>4, Sizes DEF RegionIds
  <2> QED BY <1>3, <2>1
<1>5. ASSUME RegionIds # {}
      PROVE  /\ MaxThreads \in Nat
             /\ \A r \in RegionIds : Regions[r].threads <= MaxThreads
  <2>1. \E n \in {Regions[r].threads : r \in RegionIds} :
           \A r \in RegionIds : Regions[r].threads <= n
    BY <1>4, <1>5 DEF RegionIds
  <2>2. /\ MaxThreads \in {Regions[r].threads : r \in RegionIds}
        /\ \A r \in RegionIds : Regions[r].threads <= MaxThreads
    BY <2>1 DEF MaxThreads
  <2> QED BY <2>2, Sizes
<1> QED BY <1>5

-----------------------------------------------------------------------------
(* How the threads of a barrier are counted.                               *)

LEMMA MissingFinite ==
  ASSUME NEW b, NEW n \in Nat, NEW c, NEW who
  PROVE  /\ IsFiniteSet(Missing(b, n, c, who))
         /\ Cardinality(Missing(b, n, c, who)) \in 0 .. n
         /\ Cardinality(Missing(b, n, c, who)) = 0 <=> Missing(b, n, c, who) = {}
<1>1. IsFiniteSet(0 .. n - 1) /\ Cardinality(0 .. n - 1) = n
  BY FS_Interval
<1>2. Missing(b, n, c, who) \subseteq 0 .. n - 1
  BY DEF Missing
<1>3. /\ IsFiniteSet(Missing(b, n, c, who))
      /\ Cardinality(Missing(b, n, c, who)) <= n
  BY <1>1, <1>2, FS_Subset
<1> HIDE DEF Missing
<1> QED BY <1>3, FS_CardinalityType, FS_EmptySet

(* Nobody has arrived yet. *)
LEMMA NoneArrived ==
  ASSUME NEW b, NEW n \in Nat, NEW c \in Nat, NEW who, c <= n,
         bar'[b].total = n, bar'[b].awaited = n,
         \A i \in 0 .. c - 1 : ~Arrived(who[i], b)' /\ ~Opening(who[i], b)'
  PROVE  Round(b, n, c, who)'
<1>1. Missing(b, n, c, who)' = 0 .. n - 1
  BY DEF Missing
<1>2. Cardinality(Missing(b, n, c, who))' = n
  BY <1>1, FS_Interval
<1> QED BY <1>2 DEF Round, Opening

(* The same threads are at the same places of the barrier.                 *)
LEMMA RoundKept ==
  ASSUME NEW b, NEW n \in Nat, NEW c \in Nat, NEW who, Round(b, n, c, who), bar'[b] = bar[b],
         \A i \in 0 .. c - 1 : /\ Arrived(who[i], b)' <=> Arrived(who[i], b)
                               /\ Opening(who[i], b)' <=> Opening(who[i], b)
                               /\ (at'[who[i]] = b /\ pc'[who[i]] = "open")
                                    <=> (at[who[i]] = b /\ pc[who[i]] = "open")
  PROVE  Round(b, n, c, who)'
<1>1. Missing(b, n, c, who)' = Missing(b, n, c, who)
  BY DEF Missing
<1> QED BY <1>1 DEF Round

Apart(c, who) == /\ c \in Nat \ {0} /\ who \in [0 .. c - 1 -> Threads]
                 /\ \A i, j \in 0 .. c - 1 : who[i] = who[j] => i = j

LEMMA MembersApart ==
  ASSUME NEW c, NEW who, Members(c, who)
  PROVE  Apart(c, who)
<1>1. \A i \in 0 .. c - 1 : thr[who[i]].id = i
  BY DEF Members
<1> QED BY <1>1 DEF Members, Apart

LEMMA RoundArrives ==
  ASSUME NEW n \in Nat, NEW c, NEW who, c <= n, TypeOK, Apart(c, who),
         NEW j \in 0 .. c - 1, NEW t, t = who[j], NEW b, at[t] = b,
         Round(b, n, c, who), Arrive(t), seen[t] = bar[b].generation
  PROVE  Round(b, n, c, who)'
<1> DEFINE M == Missing(b, n, c, who)
<1>1. /\ t \in Threads /\ c \in Nat /\ pc[t] = "arrive" /\ b \in TeamIds \cup {Dock} /\ j \in 0 .. n - 1
      /\ at' = at /\ seen' = seen /\ ret' = ret
      /\ bar'[b].awaited = bar[b].awaited - 1 /\ bar'[b].total = n
      /\ bar'[b].generation = bar[b].generation
      /\ pc'[t] = IF bar[b].awaited = 1 THEN "reset" ELSE IF ret[t] = "gone" THEN "gone" ELSE "wait"
      /\ \A i \in 0 .. c - 1 : i # j => pc'[who[i]] = pc[who[i]]
  BY DEF Arrive, Goto, TypeOK, Apart, Round
<1>2. j \in M
  BY <1>1 DEF Missing, Arrived, Here
<1>3. /\ \A i \in 0 .. c - 1 : ~Opening(who[i], b)
      /\ bar[b].awaited = Cardinality(M)
  BY <1>2 DEF Round, Opening
<1>4. M' = M \ {j}
  BY <1>1 DEF Missing, Arrived, Here, At, Barriers
<1>5. Cardinality(M') = Cardinality(M) - 1 /\ Cardinality(M) \in Nat
  <2>1. IsFiniteSet(M) /\ Cardinality(M) \in Nat
    BY MissingFinite
  <2> HIDE DEF M
  <2> QED BY <1>2, <1>4, <2>1, FS_RemoveElement
<1>6. \A i \in 0 .. c - 1 : i # j => ~Opening(who[i], b)'
  BY <1>1, <1>3 DEF Opening
<1>7. CASE bar[b].awaited = 1
  <2>1. M' = {}
    BY <1>3, <1>5, <1>7, MissingFinite, <1>4, <1>2, FS_RemoveElement, FS_EmptySet, FS_Subset
  <2>2. ~(\E i \in 0 .. c - 1 : at'[who[i]] = b /\ pc'[who[i]] = "open")
    BY <1>1, <1>6, <1>7 DEF Opening
  <2>3. \A i, k \in 0 .. c - 1 : Opening(who[i], b)' /\ Opening(who[k], b)' => i = k
    BY <1>6
  <2> QED BY <1>1, <1>3, <1>5, <2>1, <2>2, <2>3 DEF Round
<1>8. CASE bar[b].awaited # 1
  <2>1. \A i \in 0 .. c - 1 : ~Opening(who[i], b)'
    BY <1>1, <1>6, <1>8 DEF Opening
  <2>2. ~(\E i \in 0 .. c - 1 : at'[who[i]] = b /\ pc'[who[i]] = "open")
    BY <2>1 DEF Opening
  <2> QED BY <1>1, <1>3, <1>5, <2>1, <2>2 DEF Round
<1> QED BY <1>7, <1>8

LEMMA RoundResets ==
  ASSUME NEW n \in Nat, NEW c, NEW who, c <= n, TypeOK, Apart(c, who),
         NEW j \in 0 .. c - 1, NEW t, t = who[j], NEW b, at[t] = b,
         Round(b, n, c, who), Reset(t)
  PROVE  Round(b, n, c, who)'
<1>1. /\ t \in Threads /\ c \in Nat /\ pc[t] = "reset" /\ b \in TeamIds \cup {Dock} /\ j \in 0 .. n - 1
      /\ at' = at /\ seen' = seen /\ ret' = ret
      /\ bar'[b].awaited = n /\ bar'[b].total = n
      /\ bar'[b].generation = bar[b].generation
      /\ pc'[t] = "open"
      /\ \A i \in 0 .. c - 1 : i # j => pc'[who[i]] = pc[who[i]]
  BY DEF Reset, Goto, TypeOK, Apart, Round
<1>2. \A i \in 0 .. c - 1 : Opening(who[i], b)' <=> Opening(who[i], b)
  BY <1>1 DEF Opening
<1>3. Missing(b, n, c, who)' = Missing(b, n, c, who)
  BY <1>1 DEF Missing, Arrived, Here, At, Barriers
<1>4. at'[who[j]] = b /\ pc'[who[j]] = "open"
  BY <1>1
<1> QED BY <1>1, <1>2, <1>3, <1>4 DEF Round

-----------------------------------------------------------------------------
(* Types. *)

LEMMA InRegion ==
  ASSUME NEW stage \in Stages, NEW c, NEW who, Inv(stage, c, who)
  PROVE  /\ pc[Master] \in {"team_start", "assign", "create", "docked", "body", "team_end"}
              => region \in RegionIds /\ team \in TeamIds
         /\ \A t \in Threads : pc[t] = "body" =>
              /\ region \in RegionIds /\ team \in TeamIds
              /\ local[t] = [fn |-> region, team |-> team]
<1>1. team \in TeamIds \cup {NoTeam} /\ Master \in Threads
  BY DEF Inv, TypeOK, Threads
<1>2. CASE stage = "gather"
  <2>1. MasterGathers(c) /\ \A i \in 1 .. c - 1 : WorkerGathers(i, who[i])
    BY <1>2 DEF Inv, Staged, Gather
  <2>2. pc[Master] \in {"team_start", "assign", "create", "docked", "body", "team_end"}
              => region \in RegionIds /\ team \in TeamIds
    BY <1>1, <2>1 DEF MasterGathers, Several, Alone, Ending, Here, At, Barriers
  <2>3. \A i \in 1 .. c - 1 : pc[who[i]] # "body"
    BY <2>1 DEF WorkerGathers, Here, At, Barriers
  <2>4. \A t \in Workers : pc[t] # "body"
    BY <2>3 DEF Inv, Members, Outside, LetGo
  <2>5. pc[Master] = "body" => local[Master] = [fn |-> region, team |-> team]
    BY <2>1 DEF MasterGathers, Ending, Here, At, Barriers
  <2> QED BY <2>2, <2>4, <2>5 DEF Threads
<1>3. CASE stage = "run"
  <2>1. MasterRuns /\ (\A i \in 1 .. c - 1 : WorkerRuns(who[i])) /\ region \in RegionIds /\ team \in TeamIds
    BY <1>1, <1>3 DEF Inv, Staged, Run, Several
  <2>2. \A i \in 1 .. c - 1 : pc[who[i]] = "body" => local[who[i]] = [fn |-> region, team |-> team]
    BY <2>1 DEF WorkerRuns, Here, LetGo, At, Barriers
  <2>3. \A t \in Workers : pc[t] = "body" => local[t] = [fn |-> region, team |-> team]
    BY <2>2 DEF Inv, Members, Outside, LetGo
  <2>4. pc[Master] = "body" => local[Master] = [fn |-> region, team |-> team]
    BY <2>1 DEF MasterRuns, LetGo, Here, At, Barriers
  <2> QED BY <2>1, <2>3, <2>4 DEF Threads
<1>4. CASE stage = "exit"
  <2>1. MasterExits /\ \A i \in 1 .. c - 1 : WorkerExits(who[i])
    BY <1>4 DEF Inv, Staged, Exit
  <2>2. pc[Master] \notin {"team_start", "assign", "create", "docked", "body", "team_end"}
    BY <2>1 DEF MasterExits, LetGo, Here, At, Barriers
  <2>3. \A i \in 1 .. c - 1 : pc[who[i]] # "body"
    BY <2>1 DEF WorkerExits, LetGo, Here, At, Barriers
  <2>4. \A t \in Workers : pc[t] # "body"
    BY <2>3 DEF Inv, Members, Outside, LetGo
  <2> QED BY <2>2, <2>4 DEF Threads
<1>5. CASE stage = "over"
  <2>1. pc[Master] \in {"wait", "unmanage", "free_pool", "gone"} /\ c = 1
    BY <1>5 DEF Inv, Staged, Over, LetGo
  <2>2. \A t \in Workers : pc[t] # "body"
    BY <2>1 DEF Inv, Members, Outside, LetGo
  <2> QED BY <2>1, <2>2 DEF Threads
<1> QED BY <1>2, <1>3, <1>4, <1>5 DEF Stages

LEMMA CountersChange ==
  ASSUME NEW S, NEW f \in [S -> Counters], NEW b
  PROVE  /\ \A a \in Int : [f EXCEPT ![b].awaited = a] \in [S -> Counters]
         /\ \A a \in Nat : [f EXCEPT ![b].generation = a] \in [S -> Counters]
         /\ \A n \in Nat : [f EXCEPT ![b] = NewBarrier(n)] \in [S -> Counters]
         /\ \A n \in Nat : b \in S => [f EXCEPT ![b] = Reinit(f[b], n)] \in [S -> Counters]
         /\ b \in S => f[b].awaited \in Int /\ f[b].total \in Nat /\ f[b].generation \in Nat
<1>1. CASE b \in S
  <2>1. f[b] \in Counters
    BY <1>1
  <2>2. f[b].awaited \in Int /\ f[b].total \in Nat /\ f[b].generation \in Nat
    BY <2>1 DEF Counters
  <2>3. ASSUME NEW a \in Int
        PROVE  [f EXCEPT ![b].awaited = a] \in [S -> Counters]
    <3>1. [f[b] EXCEPT !.awaited = a] \in Counters
      BY <2>1 DEF Counters
    <3> QED BY <1>1, <3>1
  <2>4. ASSUME NEW a \in Nat
        PROVE  [f EXCEPT ![b].generation = a] \in [S -> Counters]
    <3>1. [f[b] EXCEPT !.generation = a] \in Counters
      BY <2>1 DEF Counters
    <3> QED BY <1>1, <3>1
  <2>5. ASSUME NEW n \in Nat
        PROVE  [f EXCEPT ![b] = NewBarrier(n)] \in [S -> Counters]
    <3>1. NewBarrier(n) \in Counters
      BY DEF NewBarrier, Counters
    <3> QED BY <1>1, <3>1
  <2>6. ASSUME NEW n \in Nat
        PROVE  [f EXCEPT ![b] = Reinit(f[b], n)] \in [S -> Counters]
    <3>1. f[b].awaited + n - f[b].total \in Int
      BY <2>2
    <3>2. Reinit(f[b], n) \in Counters
      BY <2>1, <3>1 DEF Reinit, Counters
    <3> QED BY <1>1, <3>2
  <2> QED BY <2>2, <2>3, <2>4, <2>5, <2>6
<1>2. CASE b \notin S
  BY <1>2
<1> QED BY <1>1, <1>2

LEMMA RecordsChange ==
  ASSUME NEW f \in [Threads -> Records], NEW t
  PROVE  /\ \A a \in Functions : [f EXCEPT ![t].fn = a] \in [Threads -> Records]
         /\ \A a \in TeamIds \cup {NoTeam} : [f EXCEPT ![t].team = a] \in [Threads -> Records]
         /\ \A a \in Records : [f EXCEPT ![t] = a] \in [Threads -> Records]
         /\ t \in Threads => f[t].id \in Nat /\ f[t].fn \in Functions /\ f[t].team \in TeamIds \cup {NoTeam}
<1>1. CASE t \in Threads
  <2>1. f[t] \in Records
    BY <1>1
  <2>2. f[t].id \in Nat /\ f[t].fn \in Functions /\ f[t].team \in TeamIds \cup {NoTeam}
    BY <2>1 DEF Records
  <2>3. ASSUME NEW a \in Functions
        PROVE  [f EXCEPT ![t].fn = a] \in [Threads -> Records]
    <3>1. [f[t] EXCEPT !.fn = a] \in Records
      BY <2>1 DEF Records
    <3> QED BY <1>1, <3>1
  <2>4. ASSUME NEW a \in TeamIds \cup {NoTeam}
        PROVE  [f EXCEPT ![t].team = a] \in [Threads -> Records]
    <3>1. [f[t] EXCEPT !.team = a] \in Records
      BY <2>1 DEF Records
    <3> QED BY <1>1, <3>1
  <2> QED BY <1>1, <2>2, <2>3, <2>4
<1>2. CASE t \notin Threads
  BY <1>2
<1> QED BY <1>1, <1>2

LEMMA PoolsChange ==
  ASSUME NEW f \in Pools
  PROVE  /\ \A n \in Nat : [f EXCEPT !.threads_used = n] \in Pools
         /\ \A k \in TeamIds \cup {NoTeam} : [f EXCEPT !.last_team = k] \in Pools
         /\ [f EXCEPT !.freed = TRUE] \in Pools
         /\ \A i, w : w \in Workers => [f EXCEPT !.threads[i] = w] \in Pools
         /\ f.threads_used \in Nat /\ f.last_team \in TeamIds \cup {NoTeam} /\ f.freed \in BOOLEAN
         /\ f.threads \in [Ids -> Workers \cup {NoThread}]
<1>1. f.threads \in [Ids -> Workers \cup {NoThread}]
  BY DEF Pools
<1>2. ASSUME NEW i, NEW w \in Workers
      PROVE  [f EXCEPT !.threads[i] = w] \in Pools
  <2>1. [f.threads EXCEPT ![i] = w] \in [Ids -> Workers \cup {NoThread}]
    BY <1>1
  <2> QED BY <2>1 DEF Pools
<1> QED BY <1>1, <1>2 DEF Pools

LEMMA EnterTypes ==
  ASSUME TypeOK, NEW t \in Threads, NEW b \in TeamIds \cup {Dock}, NEW next \in Places, Enter(t, b, next)
  PROVE  /\ at' \in [Threads -> TeamIds \cup {Dock}] /\ ret' \in [Threads -> Places]
         /\ pc' \in [Threads -> Places] /\ seen' = seen
<1>1. "load" \in Places
  BY DEF Places, Barriers
<1> QED BY <1>1 DEF Enter, Goto, TypeOK

LEMMA TypeStep ==
  ASSUME NEW stage \in Stages, NEW c, NEW who, Inv(stage, c, who), [Next]_vars
  PROVE  TypeOK'
<1>1. /\ TypeOK /\ Master \in Threads /\ Workers \subseteq Threads
      /\ pc[Master] \in {"team_start", "assign", "create", "docked", "body", "team_end"}
              => region \in RegionIds /\ team \in TeamIds
      /\ \A t \in Threads : pc[t] = "body" =>
              /\ region \in RegionIds /\ team \in TeamIds
              /\ local[t] = [fn |-> region, team |-> team]
  BY InRegion DEF Inv, Threads
<1>2. /\ bar \in [TeamIds \cup {Dock} -> Counters] /\ thr \in [Threads -> Records] /\ pool \in Pools
      /\ Dock \in TeamIds \cup {Dock} /\ NULL \in Functions /\ Helper \in Functions
      /\ \A t \in Threads : at[t] \in TeamIds \cup {Dock} /\ ret[t] \in Places
      /\ \A r \in RegionIds : Regions[r].threads \in Nat /\ Regions[r].team \in Nat
      /\ TeamIds = RegionIds /\ RegionIds \subseteq Functions
  BY <1>1, Sizes DEF TypeOK, Functions, TeamIds
<1>3. ASSUME NEW t \in Threads, pc[t] = "body"
      PROVE  local[t].fn \in RegionIds /\ local[t].team \in TeamIds
  BY <1>1, <1>3
<1>4. ASSUME NEW t \in Threads, LoadGeneration(t)
      PROVE  TypeOK'
  <2>1. bar[at[t]].generation \in Nat
    BY <1>2, CountersChange
  <2> QED BY <1>1, <1>4, <2>1 DEF LoadGeneration, Goto, TypeOK, masterVars, Places, Barriers
<1>5. ASSUME NEW t \in Threads, Arrive(t)
      PROVE  TypeOK'
  <2>1. bar[at[t]].awaited - 1 \in Int
    BY <1>2, CountersChange
  <2>2. bar' \in [TeamIds \cup {Dock} -> Counters]
    BY <1>2, <1>5, <2>1, CountersChange DEF Arrive
  <2> QED BY <1>1, <1>5, <2>2 DEF Arrive, Goto, TypeOK, masterVars, Places, Barriers
<1>6. ASSUME NEW t \in Threads, Reset(t)
      PROVE  TypeOK'
  <2>1. bar[at[t]].total \in Int
    BY <1>2, CountersChange
  <2>2. bar' \in [TeamIds \cup {Dock} -> Counters]
    BY <1>2, <1>6, <2>1, CountersChange DEF Reset
  <2> QED BY <1>1, <1>6, <2>2 DEF Reset, Goto, TypeOK, masterVars, Places, Barriers
<1>7. ASSUME NEW t \in Threads, Open(t)
      PROVE  TypeOK'
  <2>1. bar[at[t]].generation + 1 \in Nat
    BY <1>2, CountersChange
  <2>2. bar' \in [TeamIds \cup {Dock} -> Counters]
    BY <1>2, <1>7, <2>1, CountersChange DEF Open
  <2> QED BY <1>1, <1>7, <2>2 DEF Open, Goto, TypeOK, masterVars
<1>8. ASSUME NEW t \in Threads, Pass(t)
      PROVE  TypeOK'
  BY <1>1, <1>8 DEF Pass, Goto, TypeOK, masterVars, barrierVars
<1>9. ASSUME NEW t \in Threads, RunFn(t)
      PROVE  TypeOK'
  <2>1. /\ local[t].fn \in RegionIds /\ local[t].team \in TeamIds
        /\ ran' = [ran EXCEPT ![local[t].fn][thr[t].id] = @ + 1]
    BY <1>3, <1>9 DEF RunFn
  <2>2. ran' \in [RegionIds -> [Ids -> Nat]]
    <3>1. PICK r, i : r = local[t].fn /\ i = thr[t].id /\ r \in RegionIds
      BY <2>1
    <3>2. ran[r] \in [Ids -> Nat]
      BY <1>1, <3>1 DEF TypeOK
    <3>3. [ran[r] EXCEPT ![i] = ran[r][i] + 1] \in [Ids -> Nat]
      <4>1. CASE i \in Ids
        BY <3>2, <4>1
      <4>2. CASE i \notin Ids
        BY <3>2, <4>2
      <4> QED BY <4>1, <4>2
    <3>4. ran' = [ran EXCEPT ![r] = [ran[r] EXCEPT ![i] = ran[r][i] + 1]]
      BY <1>1, <2>1, <3>1 DEF TypeOK
    <3> QED BY <1>1, <3>1, <3>3, <3>4 DEF TypeOK
  <2> QED BY <1>1, <1>9, <2>1, <2>2 DEF RunFn, Enter, Goto, TypeOK, masterVars, Places, Barriers
<1>10. CASE NewTeam
  <2>1. bar' \in [TeamIds \cup {Dock} -> Counters]
    BY <1>2, <1>10, CountersChange DEF NewTeam
  <2>2. pool' \in Pools /\ team' \in TeamIds \cup {NoTeam}
    <3>1. pool.last_team \in TeamIds \cup {NoTeam} /\ region \in TeamIds
          /\ [pool EXCEPT !.last_team = NoTeam] \in Pools
      BY <1>2, <1>10, PoolsChange DEF NewTeam
    <3> QED BY <1>2, <1>10, <3>1 DEF NewTeam
  <2>3. status' \in [TeamIds -> {"none", "live", "freed"}]
    BY <1>1, <1>10 DEF NewTeam, TypeOK
  <2> QED BY <1>1, <1>10, <2>1, <2>2, <2>3 DEF NewTeam, Goto, TypeOK, Places, Barriers
<1>11. CASE TeamStart
  <2>1. Size \in Nat
    BY <1>1, <1>2, <1>11 DEF TeamStart, Size
  <2>2. bar' \in [TeamIds \cup {Dock} -> Counters]
    BY <1>2, <1>11, <2>1, CountersChange DEF TeamStart
  <2>3. pool' \in Pools /\ old_threads_used' \in Nat
    BY <1>2, <1>11, <2>1, PoolsChange DEF TeamStart
  <2>4. [team |-> team, id |-> 0, fn |-> NULL] \in Records
    BY <1>1, <1>2 DEF Records, TypeOK
  <2>5. thr' \in [Threads -> Records]
    BY <1>2, <1>11, <2>4, RecordsChange DEF TeamStart
  <2> QED BY <1>1, <1>11, <2>2, <2>3, <2>5 DEF TeamStart, Goto, TypeOK, Places, Barriers
<1>12. CASE TeamStartAlone
  <2>1. [team |-> team, id |-> 0, fn |-> NULL] \in Records
    BY <1>1, <1>2 DEF Records, TypeOK
  <2>2. thr' \in [Threads -> Records]
    BY <1>2, <1>12, <2>1, RecordsChange DEF TeamStartAlone
  <2>3. [fn |-> region, team |-> team] \in Locals
    BY <1>1, <1>2, <1>12 DEF TeamStartAlone, Locals
  <2>4. local' \in [Threads -> Locals]
    BY <1>1, <1>12, <2>3 DEF TeamStartAlone, TypeOK
  <2> QED BY <1>1, <1>12, <2>2, <2>4
          DEF TeamStartAlone, Goto, TypeOK, masterVars, barrierVars, Places, Barriers
<1>13. CASE AssignIdle
  <2>1. [team |-> team, id |-> index, fn |-> region] \in Records
    BY <1>1, <1>2, <1>13 DEF AssignIdle, Records, TypeOK
  <2>2. thr' \in [Threads -> Records]
    BY <1>2, <1>13, <2>1, RecordsChange DEF AssignIdle
  <2> QED BY <1>1, <1>13, <2>2 DEF AssignIdle, TypeOK, barrierVars
<1>14. CASE AssignDone
  <2>1. /\ at' \in [Threads -> TeamIds \cup {Dock}] /\ ret' \in [Threads -> Places]
        /\ pc' \in [Threads -> Places] /\ seen' = seen
    <3>1. \/ pc' = [pc EXCEPT ![Master] = "create"] /\ UNCHANGED <<at, ret, seen>>
          \/ Enter(Master, Dock, "docked")
      BY <1>14 DEF AssignDone, Goto
    <3>2. CASE Enter(Master, Dock, "docked")
      <4>1. "docked" \in Places
        BY DEF Places
      <4> QED BY <1>1, <1>2, <3>2, <4>1, EnterTypes
    <3>3. CASE pc' = [pc EXCEPT ![Master] = "create"] /\ UNCHANGED <<at, ret, seen>>
      BY <1>1, <3>3 DEF TypeOK, Places
    <3> QED BY <3>1, <3>2, <3>3
  <2> QED BY <1>1, <1>14, <2>1 DEF AssignDone, TypeOK, masterVars
<1>15. CASE Create
  <2>1. PICK w \in Workers :
          /\ thr' = [thr EXCEPT ![w] = [team |-> team, id |-> index, fn |-> NULL]]
          /\ local' = [local EXCEPT ![w] = [fn |-> region, team |-> team]]
          /\ pc' = [pc EXCEPT ![w] = "start"]
    BY <1>15 DEF Create, Goto
  <2>2. [team |-> team, id |-> index, fn |-> NULL] \in Records
    BY <1>1, <1>2 DEF Records, TypeOK
  <2>3. thr' \in [Threads -> Records]
    BY <1>2, <2>1, <2>2, RecordsChange
  <2>4. [fn |-> region, team |-> team] \in Locals
    BY <1>1, <1>2, <1>15 DEF Create, Locals
  <2>5. local' \in [Threads -> Locals]
    BY <1>1, <2>1, <2>4 DEF TypeOK
  <2> QED BY <1>1, <1>15, <2>1, <2>3, <2>5 DEF Create, TypeOK, barrierVars, Places
<1>16. CASE CreateDone
  BY <1>1, <1>2, <1>16 DEF CreateDone, Enter, Goto, TypeOK, masterVars, Places, Barriers
<1>17. CASE Released
  <2>1. Size \in Nat
    BY <1>1, <1>2, <1>17 DEF Released, Size
  <2>2. bar' \in [TeamIds \cup {Dock} -> Counters]
    BY <1>2, <1>17, <2>1, CountersChange DEF Released
  <2>3. [fn |-> region, team |-> team] \in Locals
    BY <1>1, <1>2, <1>17 DEF Released, Locals
  <2>4. local' \in [Threads -> Locals]
    BY <1>1, <1>17, <2>3 DEF Released, TypeOK
  <2> QED BY <1>1, <1>17, <2>2, <2>4 DEF Released, Goto, TypeOK, masterVars, Places
<1>18. CASE TeamEnd
  <2>1. pool' \in Pools
    <3>1. [pool EXCEPT !.last_team = team] \in Pools
      BY <1>1, <1>2, <1>18, PoolsChange DEF TeamEnd
    <3> QED BY <1>2, <1>18, <3>1 DEF TeamEnd
  <2>2. thr' \in [Threads -> Records]
    BY <1>2, <1>18, RecordsChange DEF TeamEnd
  <2>3. status' \in [TeamIds -> {"none", "live", "freed"}]
    BY <1>1, <1>18 DEF TeamEnd, TypeOK
  <2>4. region' \in 1 .. Len(Regions) + 1
    BY <1>1, <1>18, Sizes DEF TeamEnd, RegionIds
  <2> QED BY <1>1, <1>18, <2>1, <2>2, <2>3, <2>4 DEF TeamEnd, Goto, TypeOK, barrierVars, Places
<1>19. ASSUME NEW w \in Workers, ThreadStart(w)
       PROVE  TypeOK'
  <2>1. pool' \in Pools
    BY <1>2, <1>19, PoolsChange DEF ThreadStart
  <2> QED BY <1>1, <1>2, <1>19, <2>1 DEF ThreadStart, Enter, Goto, TypeOK, masterVars, Places, Barriers
<1>20. ASSUME NEW w \in Workers, FinishTask(w)
       PROVE  TypeOK'
  BY <1>1, <1>2, <1>20 DEF FinishTask, Enter, Goto, TypeOK, masterVars, Places, Barriers
<1>21. ASSUME NEW w \in Workers, Undock(w)
       PROVE  TypeOK'
  <2>1. thr' \in [Threads -> Records]
    BY <1>2, <1>21, RecordsChange DEF Undock
  <2>2. [fn |-> thr[w].fn, team |-> thr[w].team] \in Locals
    BY <1>1, <1>2, RecordsChange DEF Locals
  <2>3. local' \in [Threads -> Locals]
    BY <1>1, <1>21, <2>2 DEF Undock, TypeOK
  <2>4. /\ at' \in [Threads -> TeamIds \cup {Dock}] /\ ret' \in [Threads -> Places]
        /\ pc' \in [Threads -> Places] /\ seen' = seen
    <3>1. \/ (\E p \in {"gone", "body"} : pc' = [pc EXCEPT ![w] = p]) /\ UNCHANGED <<at, ret, seen>>
          \/ Enter(w, Dock, "gone")
      BY <1>21 DEF Undock, Goto
    <3>2. CASE Enter(w, Dock, "gone")
      <4>1. "gone" \in Places
        BY DEF Places
      <4> QED BY <1>1, <1>2, <3>2, <4>1, EnterTypes
    <3>3. CASE (\E p \in {"gone", "body"} : pc' = [pc EXCEPT ![w] = p]) /\ UNCHANGED <<at, ret, seen>>
      <4>1. {"gone", "body"} \subseteq Places
        BY DEF Places
      <4> QED BY <1>1, <3>3, <4>1 DEF TypeOK
    <3> QED BY <3>1, <3>2, <3>3
  <2> QED BY <1>1, <1>21, <2>1, <2>3, <2>4 DEF Undock, TypeOK, masterVars
<1>22. CASE ThreadExit
  BY <1>1, <1>22 DEF ThreadExit, Goto, TypeOK, barrierVars, Places
<1>23. CASE AssignHelper
  <2>1. thr' \in [Threads -> Records]
    BY <1>2, <1>23, RecordsChange DEF AssignHelper
  <2> QED BY <1>1, <1>23, <2>1 DEF AssignHelper, TypeOK, barrierVars
<1>24. CASE Undocking
  BY <1>1, <1>2, <1>24 DEF Undocking, Enter, Goto, TypeOK, masterVars, Places, Barriers
<1>25. CASE Unmanage
  BY <1>1, <1>25 DEF Unmanage, Goto, TypeOK, masterVars, barrierVars, Places
<1>26. CASE FreePool
  <2>1. pool' \in Pools
    BY <1>2, <1>26, PoolsChange DEF FreePool
  <2>2. status' \in [TeamIds -> {"none", "live", "freed"}]
    BY <1>1, <1>26 DEF FreePool, TypeOK
  <2> QED BY <1>1, <1>26, <2>1, <2>2 DEF FreePool, Goto, TypeOK, masterVars, barrierVars, Places
<1>27. CASE UNCHANGED vars
  BY <1>1, <1>27 DEF vars, masterVars, barrierVars, TypeOK
<1> QED BY <1>1, <1>4, <1>5, <1>6, <1>7, <1>8, <1>9, <1>10, <1>11, <1>12, <1>13,
           <1>14, <1>15, <1>16, <1>17, <1>18, <1>19, <1>20, <1>21, <1>22, <1>23, <1>24, <1>25, <1>26, <1>27
       DEF Next, MasterStep, WorkerStep, Step

-----------------------------------------------------------------------------
(* Steps that leave the stage as it is. *)

Same(t) == /\ pc'[t] = pc[t] /\ at'[t] = at[t] /\ ret'[t] = ret[t] /\ seen'[t] = seen[t]
           /\ thr'[t] = thr[t] /\ local'[t] = local[t]

Stays(t) == /\ pc'[t] = pc[t] /\ at'[t] = at[t] /\ ret'[t] = ret[t] /\ seen'[t] = seen[t]
            /\ local'[t] = local[t]
            /\ pc[t] \in Barriers => bar'[at[t]].generation = bar[at[t]].generation

Generations == \A b \in TeamIds \cup {Dock} : bar'[b].generation = bar[b].generation

(* Whoever does not move is where it was.                                  *)
LEMMA WorkerStays ==
  ASSUME NEW i, NEW w \in Workers, WorkerGathers(i, w), Stays(w),
         Creating => /\ Creating' /\ Older' = Older /\ region' = region /\ team' = team
                     /\ thr'[w].fn = thr[w].fn,
         Told(i, w) => Told(i, w)', FromKept(w) => FromKept(w)'
  PROVE  WorkerGathers(i, w)'
<1>1. Here(w, Dock) => Here(w, Dock)'
  BY DEF Stays, Here, At
<1> QED BY <1>1 DEF WorkerGathers, Stays, Barriers

LEMMA OutsideStays ==
  ASSUME NEW w \in Workers, Outside(w), Same(w), bar'[Dock].generation = bar[Dock].generation
  PROVE  Outside(w)'
BY DEF Outside, Same, LetGo

LEMMA RunnerStays ==
  ASSUME NEW w \in Workers, WorkerRuns(w), Same(w), region' = region, team' = team,
         bar'[Dock].generation = bar[Dock].generation, bar'[team].generation = bar[team].generation
  PROVE  WorkerRuns(w)'
BY DEF WorkerRuns, Same, LetGo, Here, At

LEMMA ExiterStays ==
  ASSUME NEW w \in Workers, WorkerExits(w), Same(w), bar'[Dock].generation = bar[Dock].generation
  PROVE  WorkerExits(w)'
BY DEF WorkerExits, Same, LetGo, Here, At

(* t moves inside of a wait function. *)
Walks(t) ==
  /\ UNCHANGED <<masterVars, pool, at, ret, status, thr, local, ran>>
  /\ \A u \in Threads \ {t} : pc'[u] = pc[u] /\ seen'[u] = seen[u]
  /\ Generations
  /\ \A b \in TeamIds \cup {Dock} : bar'[b].total = bar[b].total /\ (b # at[t] => bar'[b] = bar[b])
  /\ pc[t] \in {"load", "arrive", "reset"} /\ pc'[t] \in {"arrive", "reset", "open", "wait", "gone"}
  /\ pc'[t] = "gone" <=> ret[t] = "gone" /\ pc'[t] \notin {"arrive", "reset", "open"}
  /\ pc'[t] # "gone" => seen'[t] = bar'[at[t]].generation

LEMMA WalkKeepsMembers ==
  ASSUME NEW c, NEW who, TypeOK, Members(c, who), NEW j \in 0 .. c - 1, NEW t, t = who[j], Walks(t)
  PROVE  Members(c, who)'
<1>1. \A w \in Workers \ {t} : w \in Threads \ {t} /\ Same(w)
  BY DEF Walks, Same, Threads
<1>2. bar'[Dock].generation = bar[Dock].generation
  BY DEF Walks, Generations
<1>3. \A w \in Workers : Outside(w) /\ w # t => Outside(w)'
  BY <1>1, <1>2, OutsideStays
<1>4. \A i \in 1 .. c - 1 : pc'[who[i]] # "start" => pool.threads[i] = who[i]
  BY DEF Members, Walks, Threads
<1>5. \A w \in Workers : (\E i \in 1 .. c - 1 : who[i] = w) \/ (Outside(w) /\ w # t)
  <2>1. pc[t] \in {"load", "arrive", "reset"} 
    BY DEF Walks
  <2> QED BY <2>1 DEF Members, Outside, LetGo
<1> QED BY <1>3, <1>4, <1>5 DEF Members, Walks

LEMMA WalkGathers ==
  ASSUME NEW c, NEW who, Inv("gather", c, who), TypeOK', NEW j \in 0 .. c - 1, NEW t, t = who[j], Walks(t),
         \/ at[t] = Dock /\ Round(Dock, Expected(c), c, who)'
         \/ /\ t = Master /\ at[t] = team /\ Alone /\ pc'[t] # "wait"
            /\ IF pc'[t] = "reset" THEN bar'[team].total = Size /\ bar'[team].awaited = 0
                                   ELSE Full(team, Size)'
  PROVE  Inv("gather", c, who)'
<1>1. /\ TypeOK /\ Members(c, who) /\ Gather(c, who) /\ Teams /\ Counts("gather", who)
      /\ Members(c, who)'
  BY WalkKeepsMembers DEF Inv, Staged
<1>2. /\ Master \in Threads /\ Workers \subseteq Threads /\ Master \notin Workers /\ t \in Threads
      /\ at[t] \in TeamIds \cup {Dock} /\ Dock \notin TeamIds /\ team \in TeamIds \cup {NoTeam}
      /\ NoTeam \notin TeamIds /\ c \in Nat \ {0} /\ Dock # NoTeam
  BY <1>1, Sizes, MasterAssumption DEF TypeOK, Threads, Members, TeamIds
<1>3. /\ pc[Master] \in Barriers <=> pc'[Master] \in Barriers
      /\ \A b : At(Master, b)' <=> At(Master, b)
      /\ \A p \in Places \ Barriers : pc[Master] = p <=> pc'[Master] = p
      /\ t = Master => ret[Master] # "gone"
  <2>1. t # Master => pc'[Master] = pc[Master]
    BY <1>2 DEF Walks
  <2>2. t = Master => ret[Master] # "gone"
    BY <1>1 DEF Gather, MasterGathers, Walks, Ending
  <2>3. t = Master => pc[Master] \in Barriers /\ pc'[Master] \in Barriers
    BY <2>2 DEF Walks, Barriers
  <2>4. pc[Master] \in Barriers <=> pc'[Master] \in Barriers
    BY <2>1, <2>3
  <2>5. at' = at
    BY DEF Walks
  <2> QED BY <2>1, <2>2, <2>3, <2>4, <2>5 DEF At
<1>4. /\ region' = region /\ team' = team /\ pool' = pool /\ ret' = ret /\ at' = at /\ local' = local
      /\ index' = index /\ old_threads_used' = old_threads_used /\ thr' = thr /\ ran' = ran
      /\ status' = status /\ Size' = Size /\ Used' = Used /\ Known' = Known /\ Older' = Older
      /\ (Several' <=> Several) /\ (Alone' <=> Alone)
  BY DEF Walks, masterVars, Size, Used, Known, Older, Several, Alone
<1>5. ~(pc'[t] = "wait" /\ bar'[at[t]].generation = seen'[t] + 1)
  <2>1. bar'[at[t]].generation \in Nat
    BY <1>2, CountersChange DEF TypeOK
  <2>2. pc'[t] = "wait" => seen'[t] = bar'[at[t]].generation
    BY DEF Walks
  <2> QED BY <2>1, <2>2
<1>6. Ending' <=> Ending
  <2>1. CASE t = Master
    <3>1. ~Ending
      BY <2>1 DEF Ending, Walks
    <3>2. ~Ending'
      BY <1>4, <1>5, <2>1 DEF Ending, Walks
    <3> QED BY <3>1, <3>2
  <2>2. CASE t # Master
    <3>1. pc'[Master] = pc[Master] /\ seen'[Master] = seen[Master]
      BY <1>2, <2>2 DEF Walks
    <3>2. team \in TeamIds => bar'[team].generation = bar[team].generation
      BY DEF Walks, Generations
    <3>3. at[Master] = team => team \in TeamIds \/ Dock = NoTeam
      BY <1>1, <1>2 DEF TypeOK
    <3> QED BY <1>2, <1>4, <3>1, <3>2, <3>3 DEF Ending
  <2> QED BY <2>1, <2>2
<1>7. Kept' = Kept
  BY <1>4, <1>6 DEF Kept
<1>8. \A i : Given(i)' = Given(i)
  <2>1. {"assign", "create", "free_threads"} \subseteq Places \ Barriers
    BY DEF Places, Barriers
  <2> QED BY <1>3, <1>4, <2>1 DEF Given
<1>9. Expected(c)' = Expected(c)
  <2>1. {"assign", "create"} \subseteq Places \ Barriers
    BY DEF Places, Barriers
  <2> QED BY <1>3, <1>4, <2>1 DEF Expected, Maximum
<1>10. Creating => Creating'
  <2>1. "create" \in Places \ Barriers
    BY DEF Places, Barriers
  <2> QED BY <1>3, <1>4, <2>1 DEF Creating
<1>11. Here(t, at[t])' \/ pc'[t] = "gone"
  BY DEF Walks, Here, At, Barriers
<1>12. MasterGathers(c)'
  <2>1. CASE t # Master
    <3>1. pc'[Master] = pc[Master] /\ seen'[Master] = seen[Master]
      BY <1>2, <2>1 DEF Walks
    <3>2. bar'[at[Master]].generation = bar[at[Master]].generation
          /\ bar'[Dock].generation = bar[Dock].generation
      BY <1>1, <1>2 DEF Walks, Generations, TypeOK
    <3>3. Here(Master, Dock)' <=> Here(Master, Dock)
      BY <1>4, <3>1, <3>2 DEF Here, At
    <3>4. Here(Master, team) => Here(Master, team)'
      BY <1>4, <3>1, <3>2 DEF Here, At
    <3>5. MasterGathers(c)
      BY <1>1 DEF Gather
    <3> QED BY <1>4, <1>6, <3>1, <3>3, <3>4, <3>5 DEF MasterGathers
  <2>2. CASE t = Master
    <3>1. pc[Master] \in {"load", "arrive", "reset"} /\ ~Ending /\ MasterGathers(c)
      BY <1>1, <2>2 DEF Walks, Ending, Gather
    <3>2. ret[Master] # "gone"
      BY <1>3, <2>2
    <3>3. Here(Master, at[Master])'
      BY <1>11, <2>2, <3>2 DEF Walks
    <3> QED BY <1>2, <1>4, <2>2, <3>1, <3>2, <3>3 DEF MasterGathers, Here, At, Barriers, Walks
  <2> QED BY <2>1, <2>2
<1>13. \A i \in 1 .. c - 1 : WorkerGathers(i, who[i])'
  <2> SUFFICES ASSUME NEW i \in 1 .. c - 1
               PROVE  WorkerGathers(i, who[i])'
    OBVIOUS
  <2>1. who[i] \in Workers /\ WorkerGathers(i, who[i])
    BY <1>1 DEF Members, Gather
  <2>2. CASE who[i] # t
    <3>1. Stays(who[i])
      BY <1>1, <1>2, <1>4, <2>1, <2>2 DEF Stays, Walks, Generations, TypeOK
    <3>2. Told(i, who[i]) => Told(i, who[i])'
      BY <1>4, <1>8 DEF Told
    <3>3. FromKept(who[i]) => FromKept(who[i])'
      BY <1>4, <1>7 DEF FromKept
    <3> QED BY <1>4, <1>10, <2>1, <3>1, <3>2, <3>3, WorkerStays
  <2>3. CASE who[i] = t
    <3>1. t # Master /\ at[t] = Dock
      BY <1>2, <2>1, <2>3
    <3>2. pc[t] \in {"load", "arrive", "reset"} /\ Here(t, Dock) /\ ret[t] \in {"body", "undock"}
      BY <2>1, <2>3 DEF WorkerGathers, Walks
    <3>3. Here(t, Dock)'
      BY <1>11, <3>1, <3>2 DEF Walks
    <3>4. Told(i, t)' <=> Told(i, t)
      BY <1>4, <1>8 DEF Told
    <3> QED BY <1>4, <1>10, <2>1, <2>3, <3>2, <3>3, <3>4 DEF WorkerGathers, Barriers, Here, At
  <2> QED BY <2>2, <2>3
<1>14. IF Used' = 0 THEN \A w \in Workers : pc'[w] = "unborn" ELSE Round(Dock, Expected(c), c, who)'
  <2>1. CASE Used = 0
    <3>1. t = Master
      BY <1>1, <1>2, <2>1 DEF Gather, Walks, Threads
    <3> QED BY <1>1, <1>2, <1>4, <2>1, <3>1 DEF Gather, Walks, Threads
  <2>2. CASE Used # 0 /\ at[t] = Dock
    BY <1>2, <1>4, <1>9, <2>2
  <2>3. CASE Used # 0 /\ at[t] # Dock
    <3>1. Expected(c) \in Nat /\ Round(Dock, Expected(c), c, who)
      <4>1. Alone /\ Size \in Nat
        BY <1>2, <2>3, Sizes DEF Alone, Size
      <4> QED BY <1>1, <1>2, <2>3, <4>1 DEF Gather, Expected, Maximum
    <3>2. \A i \in 0 .. c - 1 : who[i] # t => pc'[who[i]] = pc[who[i]] /\ seen'[who[i]] = seen[who[i]]
      BY <1>1, <1>2 DEF Walks, Members
    <3>3. bar'[Dock] = bar[Dock] /\ pc'[t] # "gone" /\ pc[t] # "gone"
      <4>1. pc'[t] # "gone"
        BY <1>3, <1>2, <2>3 DEF Walks, Barriers
      <4> QED BY <2>3, <4>1 DEF Walks
    <3>4. \A i \in 0 .. c - 1 :
            /\ Arrived(who[i], Dock)' <=> Arrived(who[i], Dock)
            /\ Opening(who[i], Dock)' <=> Opening(who[i], Dock)
            /\ (at'[who[i]] = Dock /\ pc'[who[i]] = "open") <=> (at[who[i]] = Dock /\ pc[who[i]] = "open")
      BY <1>4, <2>3, <3>2, <3>3 DEF Arrived, Here, At, Opening
    <3>5. Round(Dock, Expected(c), c, who)'
      <4> DEFINE n == Expected(c)
      <4>1. n \in Nat /\ n' = n /\ Round(Dock, n, c, who)
        BY <1>9, <3>1
      <4>2. PICK m : m = n
        OBVIOUS
      <4>3. Round(Dock, m, c, who)'
        BY <1>2, <3>3, <3>4, <4>1, <4>2, RoundKept
      <4> QED BY <4>1, <4>2, <4>3
    <3> QED BY <1>4, <2>3, <3>5
  <2> QED BY <2>1, <2>2, <2>3
<1>15. team' # NoTeam => IF Opening(Master, team)' /\ pc'[Master] = "reset"
                         THEN bar'[team].total = Size' /\ bar'[team].awaited = 0
                         ELSE Full(team, Size)'
  <2>1. CASE at[t] = Dock /\ team # NoTeam
    <3>1. bar'[team] = bar[team]
      BY <1>2, <2>1 DEF Walks
    <3>2. Opening(Master, team)' /\ pc'[Master] = "reset" <=> Opening(Master, team) /\ pc[Master] = "reset"
      BY <1>2, <1>4, <2>1 DEF Opening, Walks
    <3> QED BY <1>1, <1>4, <2>1, <3>1, <3>2 DEF Gather, Full
  <2>2. CASE at[t] # Dock
    BY <1>4, <2>2 DEF Opening
  <2> QED BY <1>4, <2>1, <2>2
<1>16. Teams'
  <2>1. pool.last_team # NoTeam => bar'[pool.last_team] = bar[pool.last_team]
    <3>1. pool.last_team \in TeamIds \cup {NoTeam}
      BY <1>1, PoolsChange DEF TypeOK
    <3>2. at[t] # pool.last_team \/ pool.last_team = NoTeam
      BY <1>1, <1>2, <3>1 DEF Teams
    <3> QED BY <1>2, <3>1, <3>2 DEF Walks
  <2>2. pc'[Master] = "gone" <=> pc[Master] = "gone"
    BY <1>3 DEF Places, Barriers
  <2> QED BY <1>1, <1>4, <2>1, <2>2 DEF Teams, Full
<1>17. Counts("gather", who)'
  <2>1. "team_end" \in Places \ Barriers
    BY DEF Places, Barriers
  <2>2. \A i : HasRun("gather", i, who)' <=> HasRun("gather", i, who)
    BY <1>3, <1>4, <2>1 DEF HasRun
  <2> QED BY <1>1, <1>4, <2>2 DEF Counts
<1>18. Gather(c, who)'
  BY <1>4, <1>12, <1>13, <1>14, <1>15 DEF Gather
<1> QED BY <1>1, <1>16, <1>17, <1>18 DEF Inv, Staged

LEMMA Basics ==
  ASSUME NEW stage \in Stages, NEW c, NEW who, Inv(stage, c, who)
  PROVE  /\ TypeOK /\ Members(c, who) /\ Teams /\ Counts(stage, who) /\ Apart(c, who)
         /\ Master \in Threads /\ Workers \subseteq Threads /\ Master \notin Workers
         /\ \A t \in Threads : at[t] \in TeamIds \cup {Dock} /\ (t # Master => t \in Workers)
         /\ TeamIds = RegionIds /\ Dock \notin TeamIds /\ NoTeam \notin TeamIds /\ Dock # NoTeam
         /\ team \in TeamIds \cup {NoTeam} /\ region \in Nat
         /\ region \in RegionIds => Size \in Nat \ {0}
         /\ Used \in Nat /\ old_threads_used \in Nat /\ index \in Nat \ {0}
         /\ \A b \in TeamIds \cup {Dock} : /\ bar[b].awaited \in Int /\ bar[b].total \in Nat
                                           /\ bar[b].generation \in Nat
         /\ c \in Nat \ {0} /\ who[0] = Master
         /\ \A i \in 1 .. c - 1 : who[i] \in Workers
<1>1. TypeOK /\ Members(c, who) /\ Teams /\ Counts(stage, who)
  BY DEF Inv
<1>2. Apart(c, who)
  BY <1>1, MembersApart
<1>3. Master \in Threads /\ Workers \subseteq Threads /\ Master \notin Workers
  BY MasterAssumption DEF Threads
<1>4. /\ \A t \in Threads : at[t] \in TeamIds \cup {Dock} /\ (t # Master => t \in Workers)
      /\ team \in TeamIds \cup {NoTeam} /\ region \in Nat
      /\ old_threads_used \in Nat /\ index \in Nat \ {0}
  BY <1>1, Sizes DEF TypeOK, Threads
<1>5. TeamIds = RegionIds /\ Dock \notin TeamIds /\ NoTeam \notin TeamIds /\ Dock # NoTeam
  BY Sizes DEF TeamIds
<1>6. region \in RegionIds => Size \in Nat \ {0}
  BY Sizes DEF Size
<1>7. Used \in Nat
  BY <1>1, PoolsChange DEF Used, TypeOK
<1>8. \A b \in TeamIds \cup {Dock} : /\ bar[b].awaited \in Int /\ bar[b].total \in Nat
                                     /\ bar[b].generation \in Nat
  BY <1>1, CountersChange DEF TypeOK
<1>9. c \in Nat \ {0} /\ who[0] = Master /\ \A i \in 1 .. c - 1 : who[i] \in Workers
  BY <1>1 DEF Members
<1> QED BY <1>1, <1>2, <1>3, <1>4, <1>5, <1>6, <1>7, <1>8, <1>9

LEMMA WalkRuns ==
  ASSUME NEW c, NEW who, Inv("run", c, who), TypeOK', NEW j \in 0 .. c - 1, NEW t, t = who[j], Walks(t),
         at[t] = team, Round(team, c, c, who)'
  PROVE  Inv("run", c, who)'
<1> DEFINE stage == "run"
<1>1. /\ stage \in Stages /\ Run(c, who) /\ Members(c, who)'
  BY WalkKeepsMembers DEF Inv, Staged, Stages
<1>2. /\ Members(c, who) /\ Teams /\ Counts("run", who)
      /\ Master \in Threads /\ Workers \subseteq Threads /\ Master \notin Workers /\ t \in Threads
      /\ Dock \notin TeamIds /\ NoTeam \notin TeamIds
      /\ team \in TeamIds \cup {NoTeam} /\ c \in Nat \ {0} /\ who[0] = Master
      /\ \A i \in 1 .. c - 1 : who[i] \in Workers
  <2> HIDE DEF stage
  <2>1. Inv(stage, c, who)
    BY DEF stage
  <2>2. Counts("run", who) /\ Apart(c, who)
    BY MembersApart DEF Inv
  <2> QED BY <1>1, <2>1, <2>2, Basics DEF Apart
<1>3. /\ region' = region /\ team' = team /\ pool' = pool /\ ret' = ret /\ at' = at /\ local' = local
      /\ old_threads_used' = old_threads_used /\ thr' = thr /\ ran' = ran
      /\ status' = status /\ Size' = Size /\ Used' = Used /\ (Several' <=> Several)
      /\ bar'[Dock] = bar[Dock] /\ bar'[team].generation = bar[team].generation
      /\ team \in TeamIds /\ team # Dock
  BY <1>1, <1>2 DEF Walks, masterVars, Size, Used, Several, Generations, Run
<1>4. \A u \in Threads \ {t} : pc'[u] = pc[u] /\ seen'[u] = seen[u]
  BY DEF Walks
<1>5. Here(t, team)' \/ pc'[t] = "gone"
  BY <1>3 DEF Walks, Here, At, Barriers
<1>6. ret[t] \in {"finish_task", "team_end"} /\ Here(t, team)
  <2>1. CASE t = Master
    BY <1>1, <1>3, <2>1 DEF Run, MasterRuns, Walks, LetGo
  <2>2. CASE t # Master
    <3>1. WorkerRuns(t)
      BY <1>1, <1>2, <2>2 DEF Run
    <3> QED BY <1>3, <3>1 DEF WorkerRuns, Walks, LetGo
  <2> QED BY <2>1, <2>2
<1>7. Here(t, team)'
  BY <1>5, <1>6 DEF Walks
<1>8. MasterRuns'
  <2>1. MasterRuns
    BY <1>1 DEF Run
  <2>2. CASE t = Master
    BY <1>3, <1>6, <1>7, <2>1, <2>2 DEF MasterRuns, Full, Walks, LetGo
  <2>3. CASE t # Master
    <3>1. pc'[Master] = pc[Master] /\ seen'[Master] = seen[Master]
      BY <1>2, <1>4, <2>3
    <3>2. LetGo(Master, Dock)' <=> LetGo(Master, Dock)
      BY <1>3, <3>1 DEF LetGo
    <3>3. Here(Master, team)' <=> Here(Master, team)
      BY <1>3, <3>1 DEF Here, At
    <3> QED BY <1>3, <2>1, <3>1, <3>2, <3>3 DEF MasterRuns, Full, Maximum
  <2> QED BY <2>2, <2>3
<1>9. \A i \in 1 .. c - 1 : WorkerRuns(who[i])'
  <2> SUFFICES ASSUME NEW i \in 1 .. c - 1
               PROVE  WorkerRuns(who[i])'
    OBVIOUS
  <2>1. who[i] \in Workers /\ WorkerRuns(who[i])
    BY <1>1, <1>2 DEF Run
  <2>2. CASE who[i] # t
    <3>1. Same(who[i])
      BY <1>2, <1>3, <1>4, <2>1, <2>2 DEF Same
    <3> QED BY <1>3, <2>1, <3>1, RunnerStays
  <2>3. CASE who[i] = t
    BY <1>3, <1>6, <1>7, <2>1, <2>3 DEF WorkerRuns, Walks, LetGo
  <2> QED BY <2>2, <2>3
<1>10. Teams'
  <2>1. pc'[Master] # "gone"
    BY <1>8 DEF MasterRuns, LetGo, Here, At, Barriers
  <2>2. pool.last_team # NoTeam => bar'[pool.last_team] = bar[pool.last_team]
    <3>1. pool.last_team \in TeamIds \cup {NoTeam}
      BY PoolsChange DEF Inv, TypeOK
    <3> QED BY <1>2, <1>3, <3>1 DEF Teams, Walks
  <2>3. pc[Master] # "gone"
    BY <1>1 DEF Run, MasterRuns, LetGo, Here, At, Barriers
  <2> QED BY <1>2, <1>3, <2>1, <2>2, <2>3 DEF Teams, Full
<1>11. Counts("run", who)'
  <2>1. pc'[Master] # "team_end" /\ pc[Master] # "team_end"
    BY <1>1, <1>8 DEF Run, MasterRuns, LetGo, Here, At, Barriers
  <2>2. \A i \in 0 .. c - 1 : pc'[who[i]] \in Barriers <=> pc[who[i]] \in Barriers
    <3>1. pc[t] \in Barriers /\ pc'[t] \in Barriers
      BY <1>6, <1>7 DEF Here, At
    <3>2. \A i \in 0 .. c - 1 : who[i] # t => pc'[who[i]] = pc[who[i]]
      BY <1>2, <1>4
    <3> QED BY <3>1, <3>2
  <2>3. \A i \in 0 .. c - 1 : HasRun("run", i, who)' <=> HasRun("run", i, who)
    BY <1>3, <2>1, <2>2 DEF HasRun, At
  <2>4. \A r \in RegionIds : \A i \in Ids : r = region /\ i < Regions[r].threads => i \in 0 .. c - 1
    BY <1>1, <1>2, RoomForAll, Sizes DEF Run, Size, Ids
  <2> QED BY <1>2, <1>3, <2>3, <2>4 DEF Counts
<1>12. Run(c, who)'
  BY <1>1, <1>3, <1>8, <1>9 DEF Run
<1> QED BY <1>1, <1>10, <1>11, <1>12 DEF Inv, Staged

LEMMA WalkExits ==
  ASSUME NEW c, NEW who, Inv("exit", c, who), TypeOK', NEW j \in 0 .. c - 1, NEW t, t = who[j], Walks(t),
         at[t] = Dock, Round(Dock, c, c, who)'
  PROVE  Inv("exit", c, who)'
<1> DEFINE stage == "exit"
<1>1. /\ stage \in Stages /\ Exit(c, who) /\ Members(c, who)'
  BY WalkKeepsMembers DEF Inv, Staged, Stages
<1>2. /\ Members(c, who) /\ Teams /\ Counts("exit", who)
      /\ Master \in Threads /\ Workers \subseteq Threads /\ Master \notin Workers /\ t \in Threads
      /\ Dock \notin TeamIds /\ NoTeam \notin TeamIds
      /\ team \in TeamIds \cup {NoTeam} /\ c \in Nat \ {0} /\ who[0] = Master
      /\ \A i \in 1 .. c - 1 : who[i] \in Workers
  <2> HIDE DEF stage
  <2>1. Inv(stage, c, who)
    BY DEF stage
  <2>2. Counts("exit", who) /\ Apart(c, who)
    BY MembersApart DEF Inv
  <2> QED BY <1>1, <2>1, <2>2, Basics DEF Apart
<1>3. /\ region' = region /\ team' = team /\ pool' = pool /\ ret' = ret /\ at' = at /\ local' = local
      /\ old_threads_used' = old_threads_used /\ thr' = thr /\ ran' = ran
      /\ status' = status /\ Used' = Used
      /\ bar'[Dock].generation = bar[Dock].generation
  BY <1>1, <1>2 DEF Walks, masterVars, Used, Generations
<1>4. \A u \in Threads \ {t} : pc'[u] = pc[u] /\ seen'[u] = seen[u]
  BY DEF Walks
<1>5. pc'[t] # "gone" => Here(t, Dock)'
  BY <1>3 DEF Walks, Here, At, Barriers
<1>6. /\ t = Master => ret[t] = "unmanage" /\ Here(t, Dock) /\ pc'[t] # "gone"
      /\ t # Master => ret[t] = "gone" /\ Here(t, Dock)
  <2>1. CASE t = Master
    BY <1>1, <1>3, <2>1 DEF Exit, MasterExits, Walks, LetGo
  <2>2. CASE t # Master
    <3>1. WorkerExits(t)
      BY <1>1, <1>2, <2>2 DEF Exit
    <3> QED BY <1>3, <2>2, <3>1 DEF WorkerExits, Walks, LetGo
  <2> QED BY <2>1, <2>2
<1>7. MasterExits'
  <2>1. MasterExits
    BY <1>1 DEF Exit
  <2>2. CASE t = Master
    BY <1>3, <1>5, <1>6, <2>2 DEF MasterExits
  <2>3. CASE t # Master
    <3>1. pc'[Master] = pc[Master] /\ seen'[Master] = seen[Master]
      BY <1>2, <1>4, <2>3
    <3>2. LetGo(Master, Dock)' <=> LetGo(Master, Dock)
      BY <1>3, <3>1 DEF LetGo
    <3>3. Here(Master, Dock)' <=> Here(Master, Dock)
      BY <1>3, <3>1 DEF Here, At
    <3> QED BY <1>3, <2>1, <3>1, <3>2, <3>3 DEF MasterExits
  <2> QED BY <2>2, <2>3
<1>8. \A i \in 1 .. c - 1 : WorkerExits(who[i])'
  <2> SUFFICES ASSUME NEW i \in 1 .. c - 1
               PROVE  WorkerExits(who[i])'
    OBVIOUS
  <2>1. who[i] \in Workers /\ WorkerExits(who[i])
    BY <1>1, <1>2 DEF Exit
  <2>2. CASE who[i] # t
    <3>1. Same(who[i])
      BY <1>2, <1>3, <1>4, <2>1, <2>2 DEF Same
    <3> QED BY <1>3, <2>1, <3>1, ExiterStays
  <2>3. CASE who[i] = t
    BY <1>2, <1>3, <1>5, <1>6, <2>1, <2>3 DEF WorkerExits, Walks
  <2> QED BY <2>2, <2>3
<1>9. pc'[Master] # "gone" /\ pc[Master] # "gone"
  BY <1>1, <1>7 DEF Exit, MasterExits, LetGo, Here, At, Barriers
<1>10. Teams'
  <2>1. pool.last_team # NoTeam => bar'[pool.last_team] = bar[pool.last_team]
    <3>1. pool.last_team \in TeamIds \cup {NoTeam}
      BY PoolsChange DEF Inv, TypeOK
    <3> QED BY <1>2, <3>1 DEF Walks
  <2> QED BY <1>1, <1>2, <1>3, <1>9, <2>1 DEF Teams, Full, Exit
<1>11. Counts("exit", who)'
  BY <1>1, <1>2, <1>3 DEF Counts, Exit
<1>12. Exit(c, who)'
  BY <1>1, <1>3, <1>7, <1>8 DEF Exit
<1> QED BY <1>1, <1>10, <1>11, <1>12 DEF Inv, Staged

(* Whoever is inside of a wait function is one of those who pass next.     *)
LEMMA WhichBarrier ==
  ASSUME NEW stage \in Stages, NEW c, NEW who, Inv(stage, c, who),
         NEW t \in Threads, pc[t] \in {"load", "arrive", "reset", "open"}
  PROVE  \E j \in 0 .. c - 1 :
           /\ t = who[j] /\ Here(t, at[t])
           /\ \/ stage = "gather" /\ at[t] = Dock /\ Used # 0 /\ ret[t] # "gone"
              \/ /\ stage = "gather" /\ t = Master /\ Alone /\ team \in TeamIds
                 /\ at[t] = team /\ ret[t] = "team_end"
              \/ stage = "run" /\ at[t] = team /\ team \in TeamIds /\ ret[t] # "gone"
              \/ stage = "exit" /\ at[t] = Dock /\ (ret[t] = "gone" <=> t # Master)
<1>1. /\ Members(c, who) /\ Master \in Threads /\ Master \notin Workers
      /\ (t # Master => t \in Workers) /\ team \in TeamIds \cup {NoTeam}
      /\ c \in Nat \ {0} /\ who[0] = Master
      /\ \A i \in 1 .. c - 1 : who[i] \in Workers
  BY Basics
<1>2. PICK j \in 0 .. c - 1 : t = who[j] /\ (t # Master => j # 0)
  <2>1. CASE t = Master
    BY <1>1, <2>1
  <2>2. CASE t # Master
    <3>1. ~Outside(t)
      BY DEF Outside, LetGo
    <3>2. PICK i \in 1 .. c - 1 : who[i] = t
      BY <1>1, <2>2, <3>1 DEF Members
    <3> QED BY <1>1, <2>2, <3>2
  <2> QED BY <2>1, <2>2
<1>3. CASE stage = "gather"
  <2>1. Gather(c, who)
    BY <1>3 DEF Inv, Staged
  <2>2. CASE t = Master
    <3>1. MasterGathers(c)
      BY <2>1 DEF Gather
    <3>2. \/ Here(t, Dock) /\ at[t] = Dock /\ Used # 0 /\ ret[t] # "gone"
          \/ Alone /\ team \in TeamIds /\ Here(t, team) /\ at[t] = team /\ ret[t] = "team_end"
      BY <1>1, <2>2, <3>1, Basics DEF MasterGathers, Here, At, Ending, Several
    <3> QED BY <1>2, <1>3, <2>2, <3>2
  <2>3. CASE t # Master
    <3>1. WorkerGathers(j, t)
      BY <1>1, <1>2, <2>1, <2>3 DEF Gather
    <3>2. Here(t, Dock) /\ at[t] = Dock /\ ret[t] # "gone"
      BY <3>1 DEF WorkerGathers, Here, At
    <3>3. Used # 0
      BY <1>1, <2>1, <2>3 DEF Gather
    <3> QED BY <1>2, <1>3, <3>2, <3>3
  <2> QED BY <2>2, <2>3
<1>4. CASE stage = "run"
  <2>1. Run(c, who)
    BY <1>4 DEF Inv, Staged
  <2>2. Here(t, team) /\ at[t] = team /\ ret[t] # "gone"
    <3>1. CASE t = Master
      BY <2>1, <3>1 DEF Run, MasterRuns, LetGo, Here, At
    <3>2. CASE t # Master
      <4>1. WorkerRuns(t)
        BY <1>1, <1>2, <2>1, <3>2 DEF Run
      <4> QED BY <4>1 DEF WorkerRuns, LetGo, Here, At
    <3> QED BY <3>1, <3>2
  <2> QED BY <1>1, <1>2, <1>4, <2>1, <2>2 DEF Run
<1>5. CASE stage = "exit"
  <2>1. Exit(c, who)
    BY <1>5 DEF Inv, Staged
  <2>2. Here(t, Dock) /\ at[t] = Dock /\ (ret[t] = "gone" <=> t # Master)
    <3>1. CASE t = Master
      BY <2>1, <3>1 DEF Exit, MasterExits, LetGo, Here, At
    <3>2. CASE t # Master
      <4>1. WorkerExits(t)
        BY <1>1, <1>2, <2>1, <3>2 DEF Exit
      <4> QED BY <3>2, <4>1 DEF WorkerExits, LetGo, Here, At
    <3> QED BY <3>1, <3>2
  <2> QED BY <1>2, <1>5, <2>2
<1>6. CASE stage = "over"
  <2>1. Over(c)
    BY <1>6 DEF Inv, Staged
  <2>2. j = 0 /\ t = Master
    BY <1>1, <1>2, <2>1 DEF Over
  <2> QED BY <2>1, <2>2 DEF Over, LetGo
<1> QED BY <1>3, <1>4, <1>5, <1>6 DEF Stages

(* What is expected at the dock. *)
LEMMA DockRound ==
  ASSUME NEW c, NEW who, Inv("gather", c, who), Used # 0
  PROVE  /\ Expected(c) \in Nat /\ c <= Expected(c) /\ Round(Dock, Expected(c), c, who)
         /\ pc[Master] \notin {"assign", "create"} => Expected(c) = c
<1>1. Gather(c, who) /\ c \in Nat
  BY DEF Inv, Staged, Members
<1>2. pc[Master] \in {"assign", "create"} => Size \in Nat
  BY <1>1, Sizes DEF Gather, MasterGathers, Several, Alone, Ending, Here, At, Barriers, Size
<1> QED BY <1>1, <1>2 DEF Gather, Expected, Maximum

(* A walk of a thread to whose barrier the counting lemma applies.         *)
LEMMA Walk ==
  ASSUME NEW stage \in Stages, NEW c, NEW who, Inv(stage, c, who), TypeOK', NEW t \in Threads, Walks(t),
         \A b \in TeamIds \cup {Dock} : \A n \in Nat :
            (\E j \in 0 .. c - 1 : t = who[j]) /\ c <= n /\ at[t] = b /\ Here(t, b) /\ Round(b, n, c, who)
               => Round(b, n, c, who)',
         ASSUME t = Master, at[t] = team, Alone, Here(t, team), ret[t] = "team_end",
                Gather(c, who), team \in TeamIds
         PROVE  /\ pc'[t] # "wait"
                /\ IF pc'[t] = "reset" THEN bar'[team].total = Size /\ bar'[team].awaited = 0
                                       ELSE Full(team, Size)'
  PROVE  Inv(stage, c, who)'
<1>1. PICK j \in 0 .. c - 1 :
           /\ t = who[j] /\ Here(t, at[t])
           /\ \/ stage = "gather" /\ at[t] = Dock /\ Used # 0 /\ ret[t] # "gone"
              \/ /\ stage = "gather" /\ t = Master /\ Alone /\ team \in TeamIds
                 /\ at[t] = team /\ ret[t] = "team_end"
              \/ stage = "run" /\ at[t] = team /\ team \in TeamIds /\ ret[t] # "gone"
              \/ stage = "exit" /\ at[t] = Dock /\ (ret[t] = "gone" <=> t # Master)
  <2>1. pc[t] \in {"load", "arrive", "reset", "open"}
    BY DEF Walks
  <2> QED BY <2>1, WhichBarrier
<1>2. c \in Nat /\ Dock \in TeamIds \cup {Dock}
  BY Basics
<1>3. CASE stage = "gather" /\ at[t] = Dock /\ Used # 0
  <2>1. Expected(c) \in Nat /\ c <= Expected(c) /\ Round(Dock, Expected(c), c, who)
    BY <1>3, DockRound
  <2>2. PICK n \in Nat : n = Expected(c)
    BY <2>1
  <2>3. Round(Dock, n, c, who)'
    BY <1>1, <1>2, <1>3, <2>1, <2>2
  <2>4. Expected(c)' = Expected(c)
    <3>1. pc'[Master] # pc[Master] => t = Master
      <4>1. Master \in Threads
        BY Basics
      <4> QED BY <4>1 DEF Walks
    <3>2. \/ pc'[Master] = pc[Master]
          \/ pc[Master] \notin {"assign", "create"} /\ pc'[Master] \notin {"assign", "create"}
      BY <3>1 DEF Walks
    <3>3. Size' = Size
      BY DEF Size, Walks, masterVars
    <3> QED BY <3>2, <3>3 DEF Expected, Maximum
  <2>5. Round(Dock, Expected(c), c, who)'
    BY <2>2, <2>3, <2>4
  <2> QED BY <1>1, <1>3, <2>5, WalkGathers
<1>4. CASE stage = "gather" /\ t = Master /\ Alone /\ team \in TeamIds /\ at[t] = team /\ ret[t] = "team_end"
  <2>1. Gather(c, who)
    BY <1>4 DEF Inv, Staged
  <2> QED BY <1>1, <1>4, <2>1, WalkGathers
<1>5. CASE stage = "run" /\ at[t] = team /\ team \in TeamIds
  <2>1. Round(team, c, c, who)
    BY <1>5 DEF Inv, Staged, Run
  <2>2. Round(team, c, c, who)'
    <3>1. PICK b \in TeamIds : b = team /\ team' = team
      BY <1>5 DEF Walks, masterVars
    <3>2. Round(b, c, c, who)'
      BY <1>1, <1>2, <1>5, <2>1, <3>1
    <3> QED BY <3>1, <3>2
  <2> QED BY <1>1, <1>5, <2>2, WalkRuns
<1>6. CASE stage = "exit" /\ at[t] = Dock
  <2>1. Round(Dock, c, c, who)
    BY <1>6 DEF Inv, Staged, Exit
  <2>2. Round(Dock, c, c, who)'
    BY <1>1, <1>2, <1>6, <2>1
  <2> QED BY <1>1, <1>6, <2>2, WalkExits
<1> QED BY <1>1, <1>3, <1>4, <1>5, <1>6

LEMMA LoadStep ==
  ASSUME NEW stage \in Stages, NEW c, NEW who, Inv(stage, c, who), TypeOK', NEW t \in Threads, LoadGeneration(t)
  PROVE  Inv(stage, c, who)'
<1>1. TypeOK /\ Apart(c, who) /\ at[t] \in TeamIds \cup {Dock}
  BY Basics
<1>2. /\ pc[t] = "load" /\ pc'[t] = "arrive" /\ seen'[t] = bar[at[t]].generation
      /\ \A u \in Threads \ {t} : pc'[u] = pc[u] /\ seen'[u] = seen[u]
      /\ UNCHANGED <<masterVars, pool, bar, at, ret, status, thr, local, ran>>
  BY <1>1 DEF LoadGeneration, Goto, TypeOK
<1>3. Walks(t)
  BY <1>2 DEF Walks, Generations
<1>4. ASSUME NEW b \in TeamIds \cup {Dock}, NEW n \in Nat, NEW j \in 0 .. c - 1, t = who[j],
             Round(b, n, c, who)
      PROVE  Round(b, n, c, who)'
  <2>1. \A i \in 0 .. c - 1 : /\ Arrived(who[i], b)' <=> Arrived(who[i], b)
                              /\ Opening(who[i], b)' <=> Opening(who[i], b)
                              /\ (at'[who[i]] = b /\ pc'[who[i]] = "open")
                                   <=> (at[who[i]] = b /\ pc[who[i]] = "open")
    <3> SUFFICES ASSUME NEW i \in 0 .. c - 1
                 PROVE  /\ Arrived(who[i], b)' <=> Arrived(who[i], b)
                        /\ Opening(who[i], b)' <=> Opening(who[i], b)
                        /\ (at'[who[i]] = b /\ pc'[who[i]] = "open")
                             <=> (at[who[i]] = b /\ pc[who[i]] = "open")
      OBVIOUS
    <3>1. who[i] = t \/ who[i] \in Threads \ {t}
      BY <1>1 DEF Apart
    <3> QED BY <1>2, <3>1 DEF Arrived, Opening, Here, At, Barriers
  <2> QED BY <1>1, <1>2, <1>4, <2>1, RoundKept DEF Apart
<1>5. ASSUME t = Master, at[t] = team, Gather(c, who), team \in TeamIds
      PROVE  pc'[t] \notin {"wait", "reset"} /\ Full(team, Size)'
  <2>1. Full(team, Size)
    BY <1>2, <1>5, Basics DEF Gather, Opening
  <2> QED BY <1>2, <2>1 DEF Full, Size, masterVars
<1> QED BY <1>3, <1>4, <1>5, Walk

LEMMA ArriveStep ==
  ASSUME NEW stage \in Stages, NEW c, NEW who, Inv(stage, c, who), TypeOK', NEW t \in Threads, Arrive(t)
  PROVE  Inv(stage, c, who)'
<1>1. /\ TypeOK /\ Apart(c, who) /\ at[t] \in TeamIds \cup {Dock}
      /\ bar[at[t]].awaited \in Int
  BY Basics
<1>2. Here(t, at[t])
  BY WhichBarrier DEF Arrive
<1>3. /\ pc[t] = "arrive" /\ seen[t] = bar[at[t]].generation /\ seen' = seen
      /\ pc'[t] = IF bar[at[t]].awaited = 1 THEN "reset"
                  ELSE IF ret[t] = "gone" THEN "gone" ELSE "wait"
      /\ \A u \in Threads \ {t} : pc'[u] = pc[u]
      /\ UNCHANGED <<masterVars, pool, at, ret, status, thr, local, ran>>
      /\ bar'[at[t]].awaited = bar[at[t]].awaited - 1
      /\ \A b \in TeamIds \cup {Dock} : /\ bar'[b].generation = bar[b].generation
                                        /\ bar'[b].total = bar[b].total
                                        /\ b # at[t] => bar'[b] = bar[b]
  BY <1>1, <1>2 DEF Arrive, Goto, TypeOK, Here, At
<1>4. Walks(t)
  BY <1>1, <1>3 DEF Walks, Generations
<1>5. ASSUME NEW b \in TeamIds \cup {Dock}, NEW n \in Nat, NEW j \in 0 .. c - 1, t = who[j],
             c <= n, at[t] = b, Round(b, n, c, who)
      PROVE  Round(b, n, c, who)'
  BY <1>1, <1>3, <1>5, RoundArrives
<1>6. ASSUME t = Master, at[t] = team, Alone, Gather(c, who), team \in TeamIds
      PROVE  pc'[t] = "reset" /\ bar'[team].total = Size' /\ bar'[team].awaited = 0 /\ Size' = Size
  <2>1. Full(team, Size) /\ Size = 1
    BY <1>3, <1>6, Basics DEF Gather, Opening, Alone
  <2> QED BY <1>1, <1>3, <1>6, <2>1 DEF Full, Size, masterVars
<1> QED BY <1>4, <1>5, <1>6, Walk

LEMMA ResetStep ==
  ASSUME NEW stage \in Stages, NEW c, NEW who, Inv(stage, c, who), TypeOK', NEW t \in Threads, Reset(t)
  PROVE  Inv(stage, c, who)'
<1>1. TypeOK /\ Apart(c, who) /\ at[t] \in TeamIds \cup {Dock}
  BY Basics
<1>2. Here(t, at[t])
  BY WhichBarrier DEF Reset
<1>3. /\ pc[t] = "reset" /\ seen[t] = bar[at[t]].generation /\ seen' = seen
      /\ pc'[t] = "open"
      /\ \A u \in Threads \ {t} : pc'[u] = pc[u]
      /\ UNCHANGED <<masterVars, pool, at, ret, status, thr, local, ran>>
      /\ bar'[at[t]].awaited = bar[at[t]].total
      /\ \A b \in TeamIds \cup {Dock} : /\ bar'[b].generation = bar[b].generation
                                        /\ bar'[b].total = bar[b].total
                                        /\ b # at[t] => bar'[b] = bar[b]
  BY <1>1, <1>2 DEF Reset, Goto, TypeOK, Here, At
<1>4. Walks(t)
  BY <1>1, <1>3 DEF Walks, Generations
<1>5. ASSUME NEW b \in TeamIds \cup {Dock}, NEW n \in Nat, NEW j \in 0 .. c - 1, t = who[j],
             c <= n, at[t] = b, Round(b, n, c, who)
      PROVE  Round(b, n, c, who)'
  BY <1>1, <1>3, <1>5, RoundResets
<1>6. ASSUME t = Master, at[t] = team, Gather(c, who), team \in TeamIds
      PROVE  pc'[t] = "open" /\ Full(team, Size)'
  <2>1. bar[team].total = Size
    BY <1>6, Basics DEF Gather, Full
  <2>2. team' = team /\ Size' = Size
    BY <1>3 DEF Size, masterVars
  <2> QED BY <1>1, <1>3, <1>6, <2>1, <2>2 DEF Full
<1> QED BY <1>4, <1>5, <1>6, Walk

-----------------------------------------------------------------------------
(* The last thread opens the barrier, upon which the stage changes.        *)

LEMMA AllArrived ==
  ASSUME NEW b, NEW n \in Nat, NEW c \in Nat \ {0}, NEW who, c <= n, Round(b, n, c, who),
         NEW j \in 0 .. c - 1, at[who[j]] = b, pc[who[j]] = "open"
  PROVE  /\ c = n /\ Full(b, n)
         /\ \A i \in 0 .. c - 1 : Arrived(who[i], b)
         /\ \A i \in 0 .. c - 1 : i # j => ~Opening(who[i], b)
<1>1. Opening(who[j], b)
  BY DEF Opening
<1>2. Missing(b, n, c, who) = {}
  BY <1>1 DEF Round
<1>3. \A i \in 0 .. n - 1 : i < c /\ Arrived(who[i], b)
  BY <1>2 DEF Missing
<1>4. c = n
  BY <1>3
<1> QED BY <1>1, <1>3, <1>4 DEF Round, Full

(* ... as it does when the dock opens. *)
LEMMA DockOpened ==
  ASSUME NEW c \in Nat \ {0}, NEW who, Inv("gather", c, who), Used # 0,
         NEW j \in 0 .. c - 1, at[who[j]] = Dock, pc[who[j]] = "open"
  PROVE  /\ c = Expected(c) /\ Full(Dock, c)
         /\ \A i \in 0 .. c - 1 : Arrived(who[i], Dock)
         /\ \A i \in 0 .. c - 1 : i # j => ~Opening(who[i], Dock)
<1>1. Expected(c) \in Nat /\ c <= Expected(c) /\ Round(Dock, Expected(c), c, who)
  BY DockRound
<1>2. PICK n \in Nat : n = Expected(c)
  BY <1>1
<1>3. PICK b : b = Dock
  OBVIOUS
<1>4. c <= n /\ Round(b, n, c, who) /\ at[who[j]] = b /\ pc[who[j]] = "open"
  BY <1>1, <1>2, <1>3
<1>5. /\ c = n /\ Full(b, n)
      /\ \A i \in 0 .. c - 1 : Arrived(who[i], b)
      /\ \A i \in 0 .. c - 1 : i # j => ~Opening(who[i], b)
  BY <1>4, AllArrived
<1> QED BY <1>2, <1>3, <1>5

LEMMA OpenFacts ==
  ASSUME TypeOK, NEW t \in Threads, Open(t)
  PROVE  /\ pc[t] = "open" /\ pc'[t] = ret[t]
         /\ \A u \in Threads \ {t} : pc'[u] = pc[u]
         /\ UNCHANGED <<masterVars, pool, at, ret, seen, status, thr, local, ran>>
         /\ bar'[at[t]].generation = bar[at[t]].generation + 1
         /\ \A b \in TeamIds \cup {Dock} : /\ bar'[b].total = bar[b].total /\ bar'[b].awaited = bar[b].awaited
                                           /\ b # at[t] => bar'[b] = bar[b]
         /\ bar[at[t]].generation \in Nat
<1>1. at[t] \in TeamIds \cup {Dock} /\ bar[at[t]].generation \in Nat
  <2>1. at[t] \in TeamIds \cup {Dock} /\ bar \in [TeamIds \cup {Dock} -> Counters]
    BY DEF TypeOK
  <2> QED BY <2>1, CountersChange
<1> QED BY <1>1 DEF Open, Goto, TypeOK

(* A thread that has arrived at b and does not open it is let go. *)
LEMMA ArrivedLetGo ==
  ASSUME NEW u, NEW b, Arrived(u, b), ~Opening(u, b), pc[u] # "gone",
         pc'[u] = pc[u], at'[u] = at[u], seen'[u] = seen[u],
         bar[b].generation \in Nat, bar'[b].generation = bar[b].generation + 1
  PROVE  LetGo(u, b)' /\ seen[u] = bar[b].generation /\ pc[u] = "wait" /\ at[u] = b
BY DEF Arrived, Here, At, Opening, LetGo, Barriers

(* Whoever waits outside still does. *)
LEMMA OutsideLeft ==
  ASSUME NEW w, Outside(w), pc'[w] = pc[w], at'[w] = at[w], ret'[w] = ret[w], seen'[w] = seen[w],
         thr'[w] = thr[w], seen[w] \in Nat, bar[Dock].generation \in Nat,
         bar'[Dock].generation \in {bar[Dock].generation, bar[Dock].generation + 1}
  PROVE  Outside(w)'
BY DEF Outside, LetGo

LEMMA OpenDockToRun ==
  ASSUME NEW c, NEW who, Inv("gather", c, who), TypeOK', NEW j \in 0 .. c - 1, NEW t \in Threads,
         t = who[j], at[t] = Dock, Used # 0, Open(t), ret[Master] = "docked"
  PROVE  \E d, crew : Inv("run", d, crew)'
<1> DEFINE stage == "gather"
<1>1. stage \in Stages /\ Gather(c, who) /\ Inv(stage, c, who)
  BY DEF Inv, Staged, Stages
<1>2. /\ TypeOK /\ Members(c, who) /\ Teams /\ Apart(c, who) /\ Counts(stage, who)
      /\ Master \in Threads /\ Workers \subseteq Threads /\ Master \notin Workers
      /\ TeamIds = RegionIds /\ Dock \notin TeamIds /\ NoTeam \notin TeamIds /\ Dock # NoTeam
      /\ team \in TeamIds \cup {NoTeam}
      /\ region \in RegionIds => Size \in Nat \ {0}
      /\ old_threads_used \in Nat
      /\ c \in Nat \ {0} /\ who[0] = Master
      /\ \A i \in 1 .. c - 1 : who[i] \in Workers
      /\ \A u \in Threads : seen[u] \in Nat
  <2> HIDE DEF stage
  <2> QED BY <1>1, Basics DEF TypeOK
<1>3. /\ pc[t] = "open" /\ pc'[t] = ret[t]
      /\ \A u \in Threads \ {t} : pc'[u] = pc[u]
      /\ UNCHANGED <<masterVars, pool, at, ret, seen, status, thr, local, ran>>
      /\ bar'[Dock].generation = bar[Dock].generation + 1
      /\ \A b \in TeamIds \cup {Dock} : /\ bar'[b].total = bar[b].total /\ bar'[b].awaited = bar[b].awaited
                                        /\ b # Dock => bar'[b] = bar[b]
      /\ bar[Dock].generation \in Nat
  BY <1>2, OpenFacts
<1>4. /\ region' = region /\ team' = team /\ pool' = pool /\ Size' = Size /\ Used' = Used
      /\ old_threads_used' = old_threads_used
  BY <1>3 DEF masterVars, Size, Used
<1>5. /\ c = Expected(c) /\ Full(Dock, c)
      /\ \A i \in 0 .. c - 1 : Arrived(who[i], Dock)
      /\ \A i \in 0 .. c - 1 : i # j => ~Opening(who[i], Dock)
  <2>1. c \in Nat \ {0} /\ at[who[j]] = Dock /\ pc[who[j]] = "open"
    BY <1>2, <1>3
  <2> QED BY <2>1, DockOpened
<1>6. /\ pc[Master] \in {"wait", "reset", "open"} /\ at[Master] = Dock
      /\ Several /\ team \in TeamIds /\ Used = Size /\ c = Maximum(old_threads_used, Size)
  <2>1. MasterGathers(c) /\ Arrived(Master, Dock)
    BY <1>1, <1>2, <1>5 DEF Gather
  <2>2. pc[Master] \in {"wait", "reset", "open"} /\ At(Master, Dock)
    BY <2>1 DEF MasterGathers, Arrived, Here, At, Barriers, Ending
  <2> QED BY <1>2, <2>1, <2>2 DEF MasterGathers, At, Ending
<1>7. Size \in Nat /\ Size > 1 /\ Size <= c
  BY <1>2, <1>6 DEF Several, Maximum
<1>8. \A i \in 0 .. c - 1 : /\ who[i] \in Threads /\ pc[who[i]] # "gone"
                            /\ i # j => who[i] # t /\ LetGo(who[i], Dock)' /\ at'[who[i]] = Dock
  <2> SUFFICES ASSUME NEW i \in 0 .. c - 1
               PROVE  /\ who[i] \in Threads /\ pc[who[i]] # "gone"
                      /\ i # j => who[i] # t /\ LetGo(who[i], Dock)' /\ at'[who[i]] = Dock
    OBVIOUS
  <2>1. who[i] \in Threads /\ (i # j => who[i] # t)
    BY <1>2 DEF Apart
  <2>2. pc[who[i]] # "gone"
    <3>1. CASE i = 0
      BY <1>2, <1>6, <3>1
    <3>2. CASE i # 0
      <4>1. WorkerGathers(i, who[i])
        BY <1>1, <3>2 DEF Gather
      <4> QED BY <4>1 DEF WorkerGathers, Here, At, Barriers
    <3> QED BY <3>1, <3>2
  <2> QED BY <1>3, <1>5, <2>1, <2>2, ArrivedLetGo
<1>9. \A i \in 1 .. c - 1 :
        IF i < Size
        THEN \/ ret[who[i]] = "body" /\ local[who[i]] = [fn |-> region, team |-> team] /\ thr[who[i]].fn = NULL
             \/ ret[who[i]] = "undock" /\ thr[who[i]].fn = region /\ thr[who[i]].team = team
        ELSE ret[who[i]] = "undock" /\ thr[who[i]].fn = NULL
  <2> SUFFICES ASSUME NEW i \in 1 .. c - 1
               PROVE  IF i < Size
                      THEN \/ /\ ret[who[i]] = "body" /\ thr[who[i]].fn = NULL
                              /\ local[who[i]] = [fn |-> region, team |-> team]
                           \/ ret[who[i]] = "undock" /\ thr[who[i]].fn = region /\ thr[who[i]].team = team
                      ELSE ret[who[i]] = "undock" /\ thr[who[i]].fn = NULL
    OBVIOUS
  <2>1. Here(who[i], Dock) /\ pc[who[i]] \in {"wait", "reset", "open"} /\ at[who[i]] = Dock
    BY <1>5, <1>8 DEF Arrived, Here, At, Barriers
  <2>2. Given(i) = IF i < Size THEN region ELSE NULL
    BY <1>6 DEF Given, At, Barriers
  <2>3. WorkerGathers(i, who[i])
    BY <1>1 DEF Gather
  <2>4. CASE Here(who[i], Dock) /\ ret[who[i]] = "undock" /\ Told(i, who[i])
    BY <1>2, <1>6, <2>2, <2>4, Sizes DEF Told, Several
  <2>5. CASE /\ ret[who[i]] = "body" /\ local[who[i]] = [fn |-> region, team |-> team]
             /\ thr[who[i]].fn = NULL /\ i >= Older
    <3>1. i < Size
      BY <1>2, <1>6, <1>7, <2>5 DEF Older, Maximum
    <3> QED BY <2>5, <3>1
  <2>6. ~FromKept(who[i]) \/ at[who[i]] # local[who[i]].team
    <3>1. Kept \in TeamIds \cup {NoTeam}
      BY <1>2, PoolsChange DEF Kept, TypeOK
    <3> QED BY <1>2, <2>1, <3>1 DEF FromKept
  <2> QED BY <2>1, <2>3, <2>4, <2>5, <2>6 DEF WorkerGathers
<1>10. PICK m, crew : /\ m = Size /\ m \in Nat /\ m > 1 /\ m <= c
                      /\ crew \in [0 .. m - 1 -> Threads] /\ crew[0] = Master
                      /\ \A i \in 0 .. m - 1 : crew[i] = who[i] /\ i \in 0 .. c - 1
  <2> DEFINE first == [i \in 0 .. Size - 1 |-> who[i]]
  <2>1. /\ first \in [0 .. Size - 1 -> Threads] /\ first[0] = Master
        /\ \A i \in 0 .. Size - 1 : first[i] = who[i] /\ i \in 0 .. c - 1
    BY <1>2, <1>7 DEF Apart
  <2> QED BY <1>7, <2>1
<1>11. Members(m, crew)'
  <2>1. \A i \in 1 .. m - 1 : /\ crew[i] \in Workers /\ i \in Ids /\ thr'[crew[i]].id = i
                              /\ pc'[crew[i]] # "start" => pool.threads[i] = crew[i]
    <3> SUFFICES ASSUME NEW i \in 1 .. m - 1
                 PROVE  /\ crew[i] \in Workers /\ i \in Ids /\ thr'[crew[i]].id = i
                        /\ pc'[crew[i]] # "start" => pool.threads[i] = crew[i]
      OBVIOUS
    <3>1. i \in 1 .. c - 1 /\ crew[i] = who[i]
      BY <1>10
    <3>2. pc[who[i]] # "start"
      BY <1>5, <1>8, <3>1 DEF Arrived, Here, At, Barriers
    <3> QED BY <1>2, <1>3, <3>1, <3>2 DEF Members
  <2>2. \A w \in Workers : (\E i \in 1 .. m - 1 : crew[i] = w) \/ Outside(w)'
    <3> SUFFICES ASSUME NEW w \in Workers, ~(\E i \in 1 .. m - 1 : crew[i] = w)
                 PROVE  Outside(w)'
      OBVIOUS
    <3>1. CASE \E i \in 1 .. c - 1 : who[i] = w
      <4>1. PICK i \in 1 .. c - 1 : who[i] = w
        BY <3>1
      <4>2. ~(i < m)
        BY <1>10, <4>1
      <4>3. ret[w] = "undock" /\ thr[w].fn = NULL
        BY <1>9, <1>10, <4>1, <4>2
      <4> QED BY <1>3, <1>8, <4>1, <4>3 DEF Outside
    <3>2. CASE ~(\E i \in 1 .. c - 1 : who[i] = w)
      <4>1. Outside(w)
        BY <1>2, <3>2 DEF Members
      <4>2. w # t
        BY <1>2, <3>2
      <4> QED BY <1>2, <1>3, <4>1, <4>2, OutsideLeft
    <3> QED BY <3>1, <3>2
  <2>3. thr'[Master].id = 0
    BY <1>2, <1>3 DEF Members
  <2>4. m \in Nat \ {0} /\ crew \in [0 .. m - 1 -> Threads] /\ crew[0] = Master
    BY <1>10
  <2> QED BY <1>4, <2>1, <2>2, <2>3, <2>4 DEF Members
<1>12. MasterRuns'
  <2>1. Full(Dock, Maximum(old_threads_used, Size))'
    BY <1>3, <1>4, <1>5, <1>6 DEF Full, Maximum
  <2>2. (LetGo(Master, Dock)' /\ ret'[Master] = "docked") \/ pc'[Master] = "docked"
    <3>1. CASE j = 0
      BY <1>2, <1>3, <3>1
    <3>2. CASE j # 0
      BY <1>2, <1>3, <1>8, <3>2
    <3> QED BY <3>1, <3>2
  <2> QED BY <2>1, <2>2 DEF MasterRuns
<1>13. \A i \in 1 .. m - 1 : WorkerRuns(crew[i])'
  <2> SUFFICES ASSUME NEW i \in 1 .. m - 1
               PROVE  WorkerRuns(crew[i])'
    OBVIOUS
  <2>1. i \in 1 .. c - 1 /\ crew[i] = who[i] /\ i < m
    BY <1>10
  <2>2. LetGo(who[i], Dock)' \/ (who[i] = t /\ pc'[who[i]] = ret[who[i]])
    BY <1>3, <1>8, <2>1
  <2>3. \/ ret[who[i]] = "body" /\ local[who[i]] = [fn |-> region, team |-> team] /\ thr[who[i]].fn = NULL
        \/ ret[who[i]] = "undock" /\ thr[who[i]].fn = region /\ thr[who[i]].team = team
    BY <1>9, <1>10, <2>1
  <2>4. WorkerRuns(who[i])'
    BY <1>3, <1>4, <2>2, <2>3 DEF WorkerRuns
  <2> QED BY <2>1, <2>4
<1>14. \A i \in 0 .. m - 1 : ~At(crew[i], team)'
  <2> SUFFICES ASSUME NEW i \in 0 .. m - 1
               PROVE  ~At(crew[i], team)'
    OBVIOUS
  <2>1. i \in 0 .. c - 1 /\ crew[i] = who[i]
    BY <1>10
  <2>2. at'[who[i]] = Dock
    <3>1. at' = at
      BY <1>3
    <3> QED BY <1>8, <2>1, <3>1
  <2> QED BY <1>2, <1>4, <1>6, <2>1, <2>2 DEF At
<1>15. \A i \in 0 .. m - 1 : pc'[crew[i]] # "gone"
  <2> SUFFICES ASSUME NEW i \in 0 .. m - 1
               PROVE  pc'[crew[i]] # "gone"
    OBVIOUS
  <2>1. i \in 0 .. c - 1 /\ crew[i] = who[i]
    BY <1>10
  <2>2. CASE i # j
    BY <1>8, <2>1, <2>2 DEF LetGo
  <2>3. CASE i = j /\ i = 0
    BY <1>2, <1>3, <2>1, <2>3
  <2>4. CASE i = j /\ i # 0
    <3>1. ret[who[i]] \in {"body", "undock"}
      BY <1>9, <2>1, <2>4
    <3> QED BY <1>3, <2>1, <2>4, <3>1
  <2> QED BY <2>2, <2>3, <2>4
<1>16. Round(team, m, m, crew)'
  <2>1. Full(team, Size)'
    <3>1. Full(team, Size)
      BY <1>1, <1>2, <1>6 DEF Gather, Opening
    <3> QED BY <1>2, <1>3, <1>4, <1>6, <3>1 DEF Full
  <2>2. \A i \in 0 .. m - 1 : ~Arrived(crew[i], team)' /\ ~Opening(crew[i], team)'
    BY <1>14, <1>15 DEF Arrived, Opening, Here, At, Barriers
  <2>3. PICK b : b = team
    OBVIOUS
  <2>4. bar'[b].total = m /\ bar'[b].awaited = m
    BY <1>4, <1>10, <2>1, <2>3 DEF Full
  <2>5. \A i \in 0 .. m - 1 : ~Arrived(crew[i], b)' /\ ~Opening(crew[i], b)'
    BY <1>4, <2>2, <2>3
  <2>6. Round(b, m, m, crew)'
    <3>1. m \in Nat /\ m <= m
      BY <1>10
    <3> QED BY <2>4, <2>5, <3>1, NoneArrived
  <2> QED BY <1>4, <2>3, <2>6
<1>17. Run(m, crew)'
  BY <1>2, <1>4, <1>6, <1>10, <1>12, <1>13, <1>16 DEF Run, Several
<1>18. Teams'
  <2>1. pool.last_team # NoTeam => bar'[pool.last_team] = bar[pool.last_team] /\ pc[Master] # "gone"
    <3>1. pool.last_team \in TeamIds \cup {NoTeam}
      BY <1>2, PoolsChange DEF TypeOK
    <3> QED BY <1>2, <1>3, <1>6, <3>1
  <2> QED BY <1>2, <1>3, <1>4, <1>6, <1>10, <1>15, <2>1 DEF Teams, Full
<1>19. Counts("run", crew)'
  <2>1. pc'[Master] # "team_end" /\ pc[Master] # "team_end"
    BY <1>6, <1>12 DEF MasterRuns, LetGo, Here, At, Barriers
  <2>2. \A i \in 0 .. m - 1 : ~HasRun("run", i, crew)' /\ ~HasRun("gather", i, who)
    BY <1>2, <1>4, <1>6, <1>14, <2>1 DEF HasRun, At
  <2>3. \A r \in RegionIds : \A i \in Ids : r = region /\ i < Regions[r].threads => i \in 0 .. m - 1
    BY <1>10, RoomForAll, Sizes DEF Size, Ids
  <2> QED BY <1>2, <1>3, <1>4, <2>2, <2>3 DEF Counts
<1> QED BY <1>11, <1>17, <1>18, <1>19 DEF Inv, Staged

LEMMA OpenDockToExit ==
  ASSUME NEW c, NEW who, Inv("gather", c, who), TypeOK', NEW j \in 0 .. c - 1, NEW t \in Threads,
         t = who[j], at[t] = Dock, Used # 0, Open(t), ret[Master] # "docked"
  PROVE  Inv("exit", c, who)'
<1> DEFINE stage == "gather"
<1>1. stage \in Stages /\ Gather(c, who) /\ Inv(stage, c, who)
  BY DEF Inv, Staged, Stages
<1>2. /\ TypeOK /\ Members(c, who) /\ Teams /\ Apart(c, who) /\ Counts(stage, who)
      /\ Master \in Threads /\ Workers \subseteq Threads /\ Master \notin Workers
      /\ TeamIds = RegionIds /\ Dock \notin TeamIds /\ NoTeam \notin TeamIds /\ Dock # NoTeam
      /\ team \in TeamIds \cup {NoTeam}
      /\ c \in Nat \ {0} /\ who[0] = Master
      /\ \A i \in 1 .. c - 1 : who[i] \in Workers
      /\ \A u \in Threads : seen[u] \in Nat
  <2> HIDE DEF stage
  <2> QED BY <1>1, Basics DEF TypeOK
<1>3. /\ pc[t] = "open" /\ pc'[t] = ret[t]
      /\ \A u \in Threads \ {t} : pc'[u] = pc[u]
      /\ UNCHANGED <<masterVars, pool, at, ret, seen, status, thr, local, ran>>
      /\ bar'[Dock].generation = bar[Dock].generation + 1
      /\ \A b \in TeamIds \cup {Dock} : /\ bar'[b].total = bar[b].total /\ bar'[b].awaited = bar[b].awaited
                                        /\ b # Dock => bar'[b] = bar[b]
      /\ bar[Dock].generation \in Nat
  BY <1>2, OpenFacts
<1>4. region' = region /\ team' = team /\ pool' = pool /\ Used' = Used
  BY <1>3 DEF masterVars, Used
<1>5. /\ c = Expected(c) /\ Full(Dock, c)
      /\ \A i \in 0 .. c - 1 : Arrived(who[i], Dock)
      /\ \A i \in 0 .. c - 1 : i # j => ~Opening(who[i], Dock)
  <2>1. c \in Nat \ {0} /\ at[who[j]] = Dock /\ pc[who[j]] = "open"
    BY <1>2, <1>3
  <2> QED BY <2>1, DockOpened
<1>6. /\ pc[Master] \in {"wait", "reset", "open"} /\ at[Master] = Dock /\ ret[Master] = "undocked"
      /\ region \notin RegionIds /\ team = NoTeam /\ Used > 1 /\ c = Used
  <2>1. MasterGathers(c) /\ Arrived(Master, Dock)
    BY <1>1, <1>2, <1>5 DEF Gather
  <2>2. pc[Master] \in {"wait", "reset", "open"} /\ At(Master, Dock)
    BY <2>1 DEF MasterGathers, Arrived, Here, At, Barriers, Ending
  <2> QED BY <1>2, <2>1, <2>2 DEF MasterGathers, At, Here, Ending
<1>7. \A i \in 1 .. c - 1 : pc[who[i]] # "gone" /\ ret[who[i]] = "undock" /\ thr[who[i]].fn = Helper
  <2> SUFFICES ASSUME NEW i \in 1 .. c - 1
               PROVE  pc[who[i]] # "gone" /\ ret[who[i]] = "undock" /\ thr[who[i]].fn = Helper
    OBVIOUS
  <2>1. WorkerGathers(i, who[i])
    BY <1>1 DEF Gather
  <2>2. pc[who[i]] # "gone"
    BY <2>1 DEF WorkerGathers, Here, At, Barriers
  <2>3. Here(who[i], Dock) /\ pc[who[i]] \in {"wait", "reset", "open"} /\ at[who[i]] = Dock
    BY <1>5, <2>2 DEF Arrived, Here, At, Barriers
  <2>4. Given(i) = Helper /\ ~Creating
    BY <1>6 DEF Given, Creating, At, Barriers
  <2>5. ~FromKept(who[i]) \/ at[who[i]] # local[who[i]].team
    <3>1. Kept \in TeamIds \cup {NoTeam}
      BY <1>2, PoolsChange DEF Kept, TypeOK
    <3> QED BY <1>2, <2>3, <3>1 DEF FromKept
  <2> QED BY <2>1, <2>2, <2>3, <2>4, <2>5 DEF WorkerGathers, Told
<1>8. \A i \in 0 .. c - 1 : /\ who[i] \in Threads
                            /\ i # j => who[i] # t /\ LetGo(who[i], Dock)'
  <2> SUFFICES ASSUME NEW i \in 0 .. c - 1
               PROVE  who[i] \in Threads /\ (i # j => who[i] # t /\ LetGo(who[i], Dock)')
    OBVIOUS
  <2>1. who[i] \in Threads /\ (i # j => who[i] # t)
    BY <1>2 DEF Apart
  <2>2. pc[who[i]] # "gone"
    BY <1>2, <1>6, <1>7
  <2> QED BY <1>3, <1>5, <2>1, <2>2, ArrivedLetGo
<1>9. Members(c, who)'
  <2>1. \A w \in Workers : (\E i \in 1 .. c - 1 : who[i] = w) \/ Outside(w)'
    <3> SUFFICES ASSUME NEW w \in Workers, ~(\E i \in 1 .. c - 1 : who[i] = w)
                 PROVE  Outside(w)'
      OBVIOUS
    <3>1. Outside(w)
      BY <1>2 DEF Members
    <3>2. w # t
      BY <1>2
    <3> QED BY <1>2, <1>3, <3>1, <3>2, OutsideLeft
  <2>2. \A i \in 1 .. c - 1 : pc[who[i]] # "start"
    BY <1>5, <1>7 DEF Arrived, Here, At, Barriers
  <2> QED BY <1>2, <1>3, <1>4, <2>1, <2>2 DEF Members
<1>10. MasterExits'
  <2>1. CASE j = 0
    BY <1>2, <1>3, <1>6, <2>1 DEF MasterExits
  <2>2. CASE j # 0
    BY <1>2, <1>3, <1>6, <1>8, <2>2 DEF MasterExits
  <2> QED BY <2>1, <2>2
<1>11. \A i \in 1 .. c - 1 : WorkerExits(who[i])'
  BY <1>3, <1>7, <1>8 DEF WorkerExits
<1>12. Round(Dock, c, c, who)'
  <2>1. \A i \in 0 .. c - 1 : pc'[who[i]] \notin Barriers \cup {"gone"} \/ LetGo(who[i], Dock)'
    <3>1. ret[t] \in {"undocked", "undock"}
      BY <1>2, <1>6, <1>7
    <3> QED BY <1>3, <1>8, <3>1 DEF Barriers
  <2>2. \A i \in 0 .. c - 1 : ~Arrived(who[i], Dock)' /\ ~Opening(who[i], Dock)'
    <3> SUFFICES ASSUME NEW i \in 0 .. c - 1
                 PROVE  ~Arrived(who[i], Dock)' /\ ~Opening(who[i], Dock)'
      OBVIOUS
    <3>1. seen'[who[i]] \in Nat /\ bar'[Dock].generation \in Nat
      BY <1>2, <1>3, <1>8
    <3> QED BY <2>1, <3>1 DEF Arrived, Opening, Here, At, Barriers, LetGo
  <2>3. bar'[Dock].total = c /\ bar'[Dock].awaited = c
    BY <1>3, <1>5 DEF Full
  <2>4. c \in Nat /\ c <= c
    BY <1>2
  <2> QED BY <2>2, <2>3, <2>4, NoneArrived
<1>13. Teams'
  <2>1. pool.last_team # NoTeam => bar'[pool.last_team] = bar[pool.last_team] /\ pc[Master] # "gone"
    <3>1. pool.last_team \in TeamIds \cup {NoTeam}
      BY <1>2, PoolsChange DEF TypeOK
    <3> QED BY <1>2, <1>3, <1>6, <3>1
  <2>2. pc'[Master] # "gone"
    BY <1>10 DEF MasterExits, LetGo, Here, At, Barriers
  <2> QED BY <1>2, <1>3, <1>4, <1>6, <2>1, <2>2 DEF Teams, Full
<1>14. Counts("exit", who)'
  BY <1>2, <1>3, <1>4, <1>6 DEF Counts
<1>15. Exit(c, who)'
  BY <1>4, <1>6, <1>10, <1>11, <1>12 DEF Exit
<1> QED BY <1>9, <1>13, <1>14, <1>15 DEF Inv, Staged

LEMMA OpenLastBarrier ==
  ASSUME NEW c, NEW who, Inv("run", c, who), TypeOK', NEW j \in 0 .. c - 1, NEW t \in Threads,
         t = who[j], at[t] = team, team \in TeamIds, Open(t)
  PROVE  Inv("gather", c, who)'
<1> DEFINE stage == "run"
<1>1. stage \in Stages /\ Run(c, who) /\ Inv(stage, c, who)
  BY DEF Inv, Staged, Stages
<1>2. /\ TypeOK /\ Members(c, who) /\ Teams /\ Apart(c, who) /\ Counts(stage, who)
      /\ Master \in Threads /\ Workers \subseteq Threads /\ Master \notin Workers
      /\ TeamIds = RegionIds /\ Dock \notin TeamIds /\ NoTeam \notin TeamIds /\ Dock # NoTeam
      /\ c \in Nat \ {0} /\ who[0] = Master
      /\ \A i \in 1 .. c - 1 : who[i] \in Workers
      /\ \A u \in Threads : seen[u] \in Nat
      /\ bar[Dock].generation \in Nat
  <2> HIDE DEF stage
  <2> QED BY <1>1, Basics DEF TypeOK
<1>3. /\ pc[t] = "open" /\ pc'[t] = ret[t]
      /\ \A u \in Threads \ {t} : pc'[u] = pc[u]
      /\ UNCHANGED <<masterVars, pool, at, ret, seen, status, thr, local, ran>>
      /\ bar'[team].generation = bar[team].generation + 1
      /\ \A b \in TeamIds \cup {Dock} : /\ bar'[b].total = bar[b].total /\ bar'[b].awaited = bar[b].awaited
                                        /\ b # team => bar'[b] = bar[b]
      /\ bar[team].generation \in Nat
  BY <1>2, OpenFacts
<1>4. /\ region' = region /\ team' = team /\ pool' = pool /\ Used' = Used /\ Size' = Size
      /\ (Several' <=> Several) /\ Several /\ Size = c /\ Used = c /\ c > 1
  BY <1>1, <1>3 DEF masterVars, Used, Size, Several, Run
<1>5. /\ Full(team, c)
      /\ \A i \in 0 .. c - 1 : Arrived(who[i], team)
      /\ \A i \in 0 .. c - 1 : i # j => ~Opening(who[i], team)
  <2>1. PICK b : b = team
    OBVIOUS
  <2>2. Round(b, c, c, who)
    BY <1>1, <2>1 DEF Run
  <2>3. c \in Nat \ {0} /\ c \in Nat /\ c <= c /\ at[who[j]] = b /\ pc[who[j]] = "open"
    BY <1>2, <1>3, <2>1
  <2>4. /\ Full(b, c)
        /\ \A i \in 0 .. c - 1 : Arrived(who[i], b)
        /\ \A i \in 0 .. c - 1 : i # j => ~Opening(who[i], b)
    BY <2>2, <2>3, AllArrived
  <2> QED BY <2>1, <2>4
<1>6. Here(Master, team) /\ at[Master] = team /\ ret[Master] = "team_end" /\ Full(Dock, c)
  <2>1. MasterRuns /\ Arrived(Master, team)
    BY <1>1, <1>2, <1>5 DEF Run
  <2> QED BY <1>2, <1>4, <2>1 DEF MasterRuns, Arrived, Here, At, Barriers, LetGo
<1>7. \A i \in 1 .. c - 1 : /\ Here(who[i], team) /\ at[who[i]] = team /\ ret[who[i]] = "finish_task"
                            /\ local[who[i]].team = team /\ thr[who[i]].fn = NULL
  <2> SUFFICES ASSUME NEW i \in 1 .. c - 1
               PROVE  /\ Here(who[i], team) /\ at[who[i]] = team /\ ret[who[i]] = "finish_task"
                      /\ local[who[i]].team = team /\ thr[who[i]].fn = NULL
    OBVIOUS
  <2>1. WorkerRuns(who[i]) /\ Arrived(who[i], team)
    BY <1>1, <1>5 DEF Run
  <2> QED BY <1>2, <2>1 DEF WorkerRuns, Arrived, Here, At, Barriers, LetGo
<1>8. \A i \in 0 .. c - 1 :
        /\ who[i] \in Threads /\ pc'[who[i]] # "gone" /\ at'[who[i]] = team
        /\ i # j => /\ who[i] # t /\ pc'[who[i]] = "wait"
                    /\ bar'[team].generation = seen'[who[i]] + 1
  <2> SUFFICES ASSUME NEW i \in 0 .. c - 1
               PROVE  /\ who[i] \in Threads /\ pc'[who[i]] # "gone" /\ at'[who[i]] = team
                      /\ i # j => /\ who[i] # t /\ pc'[who[i]] = "wait"
                                  /\ bar'[team].generation = seen'[who[i]] + 1
    OBVIOUS
  <2>1. who[i] \in Threads /\ (i # j => who[i] # t)
    BY <1>2 DEF Apart
  <2>2. Here(who[i], team) /\ at[who[i]] = team /\ ret[who[i]] # "gone"
    BY <1>2, <1>6, <1>7
  <2>3. pc[who[i]] # "gone"
    BY <2>2 DEF Here, At, Barriers
  <2>4. i # j => LetGo(who[i], team)' /\ seen[who[i]] = bar[team].generation
    <3>1. at' = at /\ seen' = seen
      BY <1>3
    <3>2. PICK b : b = team /\ b = team'
      BY <1>4
    <3> QED BY <1>3, <1>5, <2>1, <2>3, <3>1, <3>2, ArrivedLetGo
  <2> QED BY <1>3, <2>1, <2>2, <2>3, <2>4 DEF LetGo
<1>9. Members(c, who)'
  <2>1. \A w \in Workers : (\E i \in 1 .. c - 1 : who[i] = w) \/ Outside(w)'
    <3> SUFFICES ASSUME NEW w \in Workers, ~(\E i \in 1 .. c - 1 : who[i] = w)
                 PROVE  Outside(w)'
      OBVIOUS
    <3>1. Outside(w)
      BY <1>2 DEF Members
    <3>2. w # t /\ bar'[Dock] = bar[Dock]
      BY <1>2, <1>3
    <3> QED BY <1>2, <1>3, <3>1, <3>2, OutsideLeft
  <2>2. \A i \in 1 .. c - 1 : pc[who[i]] # "start"
    BY <1>7 DEF Here, At, Barriers
  <2> QED BY <1>2, <1>3, <1>4, <2>1, <2>2 DEF Members
<1>10. Ending'
  <2>1. CASE j = 0
    BY <1>2, <1>3, <1>4, <1>6, <2>1 DEF Ending
  <2>2. CASE j # 0
    BY <1>2, <1>3, <1>4, <1>6, <1>8, <2>2 DEF Ending
  <2> QED BY <2>1, <2>2
<1>11. MasterGathers(c)'
  BY <1>2, <1>3, <1>4, <1>6, <1>10 DEF MasterGathers
<1>12. \A i \in 1 .. c - 1 : WorkerGathers(i, who[i])'
  <2> SUFFICES ASSUME NEW i \in 1 .. c - 1
               PROVE  WorkerGathers(i, who[i])'
    OBVIOUS
  <2>1. Given(i)' = NULL
    BY <1>2, <1>3, <1>4, <1>6, <1>10 DEF Given, At, Ending
  <2>2. Told(i, who[i])'
    BY <1>2, <1>3, <1>4, <1>7, <2>1, Sizes DEF Told, Several
  <2>3. FromKept(who[i])'
    BY <1>2, <1>3, <1>4, <1>7, <1>10 DEF FromKept, Kept, Several, Alone
  <2>4. \/ /\ pc'[who[i]] = "wait" /\ at'[who[i]] = team /\ local'[who[i]].team = team
           /\ ret'[who[i]] = "finish_task" /\ bar'[team].generation = seen'[who[i]] + 1
        \/ pc'[who[i]] = "finish_task"
    BY <1>3, <1>7, <1>8
  <2> QED BY <2>2, <2>3, <2>4 DEF WorkerGathers
<1>13. Round(Dock, c, c, who)'
  <2>1. \A i \in 0 .. c - 1 : ~Arrived(who[i], Dock)' /\ ~Opening(who[i], Dock)'
    BY <1>2, <1>8 DEF Arrived, Opening, Here, At
  <2>2. bar'[Dock].total = c /\ bar'[Dock].awaited = c
    BY <1>2, <1>3, <1>6 DEF Full
  <2>3. c \in Nat /\ c <= c
    BY <1>2
  <2> QED BY <2>1, <2>2, <2>3, NoneArrived
<1>14. Expected(c)' = c /\ pc'[Master] \notin {"assign", "create"} /\ ~(Opening(Master, team)' /\ pc'[Master] = "reset")
  <2>1. pc'[Master] \in {"team_end", "wait"}
    BY <1>10 DEF Ending
  <2> QED BY <2>1 DEF Expected
<1>15. Gather(c, who)'
  <2>1. Full(team, Size)'
    BY <1>2, <1>3, <1>4, <1>5 DEF Full
  <2>2. Round(Dock, Expected(c), c, who)'
    BY <1>13, <1>14
  <2>3. Used' # 0
    BY <1>4
  <2> QED BY <1>4, <1>11, <1>12, <1>14, <2>1, <2>2, <2>3 DEF Gather
<1>16. Teams'
  <2>1. pool.last_team # NoTeam => bar'[pool.last_team] = bar[pool.last_team]
    <3>1. pool.last_team \in TeamIds \cup {NoTeam}
      BY <1>2, PoolsChange DEF TypeOK
    <3> QED BY <1>2, <1>3, <3>1 DEF Teams
  <2>2. pc'[Master] # "gone" /\ pc[Master] # "gone"
    BY <1>6, <1>10 DEF Ending, Here, At, Barriers
  <2> QED BY <1>2, <1>3, <1>4, <2>1, <2>2 DEF Teams, Full
<1>17. Counts("gather", who)'
  <2>1. \A i : HasRun("gather", i, who)'
    BY <1>3, <1>4, <1>6, <1>10 DEF HasRun, Ending, At, Barriers
  <2>2. \A i \in 0 .. c - 1 : HasRun("run", i, who)
    BY <1>2, <1>6, <1>7 DEF HasRun, Here
  <2>3. \A r \in RegionIds : \A i \in Ids : r = region /\ i < Regions[r].threads => i \in 0 .. c - 1
    BY <1>4, RoomForAll, Sizes DEF Size, Ids
  <2> QED BY <1>2, <1>3, <1>4, <2>1, <2>2, <2>3 DEF Counts
<1> QED BY <1>9, <1>15, <1>16, <1>17 DEF Inv, Staged

-----------------------------------------------------------------------------
(* Steps of the master, while the workers stay where they are.             *)

Quiet == /\ \A w \in Workers : /\ pc'[w] = pc[w] /\ at'[w] = at[w] /\ ret'[w] = ret[w]
                               /\ seen'[w] = seen[w] /\ local'[w] = local[w]
         /\ bar'[Dock].generation = bar[Dock].generation

LEMMA MembersStay ==
  ASSUME NEW c, NEW who, Members(c, who), Quiet,
         \A t \in Threads : thr'[t].id = thr[t].id, pool'.threads = pool.threads,
         \A w \in Workers : (\A i \in 1 .. c - 1 : who[i] # w) => thr'[w].fn = thr[w].fn
  PROVE  Members(c, who)'
<1>1. ASSUME NEW w \in Workers, ~(\E i \in 1 .. c - 1 : who[i] = w)
      PROVE  Outside(w)'
  <2>1. Outside(w) /\ thr'[w].fn = thr[w].fn
    BY <1>1 DEF Members
  <2> QED BY <2>1 DEF Outside, LetGo, Quiet
<1>2. \A i \in 1 .. c - 1 : who[i] \in Workers /\ who[i] \in Threads /\ pc'[who[i]] = pc[who[i]]
  BY DEF Members, Quiet, Threads
<1>3. Master \in Threads
  BY DEF Threads
<1> QED BY <1>1, <1>2, <1>3 DEF Members

LEMMA DockStays ==
  ASSUME NEW n \in Nat, NEW c, NEW who, Members(c, who), Quiet, Round(Dock, n, c, who), bar'[Dock] = bar[Dock],
         ~Arrived(Master, Dock), ~Opening(Master, Dock), ~Arrived(Master, Dock)', ~Opening(Master, Dock)'
  PROVE  Round(Dock, n, c, who)'
<1>1. c \in Nat /\ who[0] = Master /\ \A i \in 1 .. c - 1 : who[i] \in Workers
  BY DEF Members
<1>2. \A i \in 0 .. c - 1 :
        /\ Arrived(who[i], Dock)' <=> Arrived(who[i], Dock)
        /\ Opening(who[i], Dock)' <=> Opening(who[i], Dock)
        /\ (at'[who[i]] = Dock /\ pc'[who[i]] = "open") <=> (at[who[i]] = Dock /\ pc[who[i]] = "open")
  <2> SUFFICES ASSUME NEW i \in 0 .. c - 1
               PROVE  /\ Arrived(who[i], Dock)' <=> Arrived(who[i], Dock)
                      /\ Opening(who[i], Dock)' <=> Opening(who[i], Dock)
                      /\ (at'[who[i]] = Dock /\ pc'[who[i]] = "open")
                           <=> (at[who[i]] = Dock /\ pc[who[i]] = "open")
    OBVIOUS
  <2>1. CASE i = 0
    BY <1>1, <2>1 DEF Opening
  <2>2. CASE i # 0
    <3>1. who[i] \in Workers
      BY <1>1, <2>2
    <3> QED BY <3>1 DEF Quiet, Arrived, Opening, Here, At
  <2> QED BY <2>1, <2>2
<1>3. PICK b : b = Dock
  OBVIOUS
<1>4. Round(b, n, c, who)'
  BY <1>1, <1>2, <1>3, RoundKept
<1> QED BY <1>3, <1>4

LEMMA WorkersStay ==
  ASSUME NEW c, NEW who, Inv("gather", c, who), Quiet,
         Kept # NoTeam /\ (Alone => Kept # team)
           => /\ Kept' = Kept /\ (Alone' => Kept' # team')
              /\ bar'[Kept].generation = bar[Kept].generation,
         Creating => /\ Creating' /\ Older' = Older /\ region' = region /\ team' = team
                     /\ \A w \in Workers : thr'[w].fn = thr[w].fn,
         \A i \in 1 .. c - 1 : Told(i, who[i]) => Told(i, who[i])'
  PROVE  \A i \in 1 .. c - 1 : WorkerGathers(i, who[i])'
<1> SUFFICES ASSUME NEW i \in 1 .. c - 1
             PROVE  WorkerGathers(i, who[i])'
  OBVIOUS
<1>1. who[i] \in Workers /\ WorkerGathers(i, who[i])
  BY DEF Inv, Members, Staged, Gather
<1>2. FromKept(who[i]) => FromKept(who[i])' /\ bar'[local[who[i]].team].generation = bar[local[who[i]].team].generation
  BY <1>1 DEF FromKept, Quiet
<1>3. /\ pc'[who[i]] = pc[who[i]] /\ at'[who[i]] = at[who[i]] /\ ret'[who[i]] = ret[who[i]]
      /\ seen'[who[i]] = seen[who[i]] /\ local'[who[i]] = local[who[i]]
      /\ bar'[Dock].generation = bar[Dock].generation
  BY <1>1 DEF Quiet
<1>4. pc[who[i]] \in Barriers => bar'[at[who[i]]].generation = bar[at[who[i]]].generation
  BY <1>1, <1>2, <1>3 DEF WorkerGathers, Here, At, Barriers
<1>5. Stays(who[i])
  BY <1>3, <1>4 DEF Stays
<1> QED BY <1>1, <1>2, <1>5, WorkerStays

(* ... and the last team is the kept one, however the master has it.       *)
LEMMA KeptInTeams ==
  ASSUME NEW stage \in Stages, NEW c, NEW who, Inv(stage, c, who)
  PROVE  /\ Kept \in TeamIds \cup {NoTeam} /\ pool.last_team \in TeamIds \cup {NoTeam}
         /\ Kept = pool.last_team \/ Kept = team
<1>1. pool.last_team \in TeamIds \cup {NoTeam} /\ team \in TeamIds \cup {NoTeam}
  BY PoolsChange DEF Inv, TypeOK
<1> QED BY <1>1 DEF Kept

LEMMA OpenAlone ==
  ASSUME NEW c, NEW who, Inv("gather", c, who), TypeOK', Alone, team \in TeamIds, at[Master] = team,
         Open(Master), ret[Master] = "team_end"
  PROVE  Inv("gather", c, who)'
<1> DEFINE stage == "gather"
<1>1. stage \in Stages /\ Gather(c, who) /\ Inv(stage, c, who)
  BY DEF Inv, Staged, Stages
<1>2. /\ TypeOK /\ Members(c, who) /\ Teams /\ Counts(stage, who)
      /\ Master \in Threads /\ Workers \subseteq Threads /\ Master \notin Workers
      /\ TeamIds = RegionIds /\ Dock \notin TeamIds /\ NoTeam \notin TeamIds /\ Dock # NoTeam
      /\ c \in Nat \ {0} /\ who[0] = Master
      /\ Kept \in TeamIds \cup {NoTeam} /\ pool.last_team \in TeamIds \cup {NoTeam}
  <2> HIDE DEF stage
  <2> QED BY <1>1, Basics, KeptInTeams
<1>3. /\ pc[Master] = "open" /\ pc'[Master] = "team_end"
      /\ \A u \in Workers : pc'[u] = pc[u]
      /\ UNCHANGED <<masterVars, pool, at, ret, seen, status, thr, local, ran>>
      /\ \A b \in TeamIds \cup {Dock} : /\ bar'[b].total = bar[b].total /\ bar'[b].awaited = bar[b].awaited
                                        /\ b # team => bar'[b] = bar[b]
  BY <1>2, OpenFacts
<1>4. /\ region' = region /\ team' = team /\ pool' = pool /\ Size' = Size /\ Used' = Used
      /\ (Alone' <=> Alone) /\ Older' = Older /\ Known' = Known
      /\ Size = 1 /\ region \in RegionIds /\ c = Known
  <2>1. MasterGathers(c)
    BY <1>1 DEF Gather
  <2> QED BY <1>2, <1>3, <2>1 DEF masterVars, Size, Used, Alone, Older, Known, MasterGathers, Here, At, Barriers,
                                  Ending, Several
<1>5. Quiet /\ bar'[Dock] = bar[Dock]
  BY <1>2, <1>3 DEF Quiet
<1>6. ~Ending /\ ~Ending' /\ Kept' = Kept
  <2>1. ~Ending /\ ~Ending'
    BY <1>4 DEF Ending, Several
  <2> QED BY <1>4, <2>1 DEF Kept
<1>7. ~Creating /\ \A i : Given(i) = NULL /\ Given(i)' = NULL
  BY <1>2, <1>3 DEF Creating, Given, At
<1>8. \A i \in 1 .. c - 1 : WorkerGathers(i, who[i])'
  <2>1. Kept # NoTeam /\ (Alone => Kept # team) => bar'[Kept].generation = bar[Kept].generation
    BY <1>2, <1>3
  <2>2. \A i \in 1 .. c - 1 : Told(i, who[i]) => Told(i, who[i])'
    BY <1>3, <1>4, <1>7 DEF Told
  <2> QED BY <1>4, <1>5, <1>6, <1>7, <2>1, <2>2, WorkersStay
<1>9. Members(c, who)'
  BY <1>2, <1>3, <1>4, <1>5, MembersStay
<1>10. IF Used' = 0 THEN \A w \in Workers : pc'[w] = "unborn" ELSE Round(Dock, Expected(c), c, who)'
  <2>1. CASE Used = 0
    BY <1>1, <1>3, <1>4, <2>1 DEF Gather
  <2>2. CASE Used # 0
    <3>1. Expected(c) = c /\ Expected(c)' = c /\ Round(Dock, Expected(c), c, who)
      BY <1>3, <2>2, DockRound DEF Expected
    <3>2. Round(Dock, c, c, who)
      BY <3>1
    <3>3. ~Arrived(Master, Dock) /\ ~Opening(Master, Dock) /\ ~Arrived(Master, Dock)' /\ ~Opening(Master, Dock)'
      BY <1>2, <1>3 DEF Arrived, Opening, Here, At, Barriers
    <3>4. c \in Nat
      BY <1>2
    <3>5. Round(Dock, c, c, who)'
      BY <1>2, <1>5, <3>2, <3>3, <3>4, DockStays
    <3> QED BY <1>4, <2>2, <3>1, <3>5
  <2> QED BY <2>1, <2>2
<1>11. MasterGathers(c)'
  BY <1>2, <1>3, <1>4 DEF MasterGathers
<1>12. Full(team, Size)'
  <2>1. Full(team, Size)
    BY <1>1, <1>2, <1>3 DEF Gather, Opening
  <2> QED BY <1>3, <1>4, <2>1 DEF Full
<1>13. Teams'
  <2>1. pool.last_team # NoTeam => bar'[pool.last_team] = bar[pool.last_team]
    BY <1>2, <1>3 DEF Teams
  <2> QED BY <1>2, <1>3, <1>4, <2>1 DEF Teams, Full
<1>14. Counts("gather", who)'
  <2>1. \A i : HasRun("gather", i, who)' /\ HasRun("gather", i, who)
    BY <1>3 DEF HasRun, At, Barriers
  <2> QED BY <1>2, <1>3, <1>4, <2>1 DEF Counts
<1>15. Gather(c, who)'
  BY <1>3, <1>8, <1>10, <1>11, <1>12 DEF Gather, Opening
<1> QED BY <1>9, <1>13, <1>14, <1>15 DEF Inv, Staged

LEMMA OpenDockToOver ==
  ASSUME NEW c, NEW who, Inv("exit", c, who), TypeOK', NEW j \in 0 .. c - 1, NEW t \in Threads,
         t = who[j], at[t] = Dock, Open(t), ret[t] = "gone" <=> t # Master
  PROVE  \E crew : Inv("over", 1, crew)'
<1> DEFINE stage == "exit"
<1>1. stage \in Stages /\ Exit(c, who) /\ Inv(stage, c, who)
  BY DEF Inv, Staged, Stages
<1>2. /\ TypeOK /\ Members(c, who) /\ Teams /\ Apart(c, who) /\ Counts(stage, who)
      /\ Master \in Threads /\ Workers \subseteq Threads /\ Master \notin Workers
      /\ TeamIds = RegionIds /\ Dock \notin TeamIds /\ NoTeam \notin TeamIds /\ Dock # NoTeam
      /\ c \in Nat \ {0} /\ who[0] = Master
      /\ \A i \in 1 .. c - 1 : who[i] \in Workers
      /\ \A u \in Threads : seen[u] \in Nat
  <2> HIDE DEF stage
  <2> QED BY <1>1, Basics DEF TypeOK
<1>3. /\ pc[t] = "open" /\ pc'[t] = ret[t]
      /\ \A u \in Threads \ {t} : pc'[u] = pc[u]
      /\ UNCHANGED <<masterVars, pool, at, ret, seen, status, thr, local, ran>>
      /\ bar'[Dock].generation = bar[Dock].generation + 1
      /\ \A b \in TeamIds \cup {Dock} : b # Dock => bar'[b] = bar[b]
      /\ bar[Dock].generation \in Nat
  BY <1>2, OpenFacts
<1>4. region' = region /\ team' = team /\ pool' = pool /\ region \notin RegionIds /\ team = NoTeam
  BY <1>1, <1>3 DEF masterVars, Exit
<1>5. /\ \A i \in 0 .. c - 1 : Arrived(who[i], Dock)
      /\ \A i \in 0 .. c - 1 : i # j => ~Opening(who[i], Dock)
  <2>1. Round(Dock, c, c, who)
    BY <1>1 DEF Exit
  <2>2. c \in Nat \ {0} /\ c \in Nat /\ c <= c /\ at[who[j]] = Dock /\ pc[who[j]] = "open"
    BY <1>2, <1>3
  <2> QED BY <2>1, <2>2, AllArrived
<1>6. Here(Master, Dock) /\ ret[Master] = "unmanage" /\ pc[Master] # "gone"
  <2>1. MasterExits /\ Arrived(Master, Dock)
    BY <1>1, <1>2, <1>5 DEF Exit
  <2> QED BY <1>2, <1>3, <2>1 DEF MasterExits, Arrived, Here, At, Barriers, LetGo
<1>7. (LetGo(Master, Dock)' /\ ret'[Master] = "unmanage") \/ pc'[Master] = "unmanage"
  <2>1. CASE t = Master
    BY <1>3, <1>6, <2>1
  <2>2. CASE t # Master
    <3>1. ~Opening(Master, Dock) /\ Arrived(Master, Dock)
      BY <1>2, <1>5, <2>2
    <3> QED BY <1>2, <1>3, <1>6, <2>2, <3>1, ArrivedLetGo
  <2> QED BY <2>1, <2>2
<1>8. \A i \in 1 .. c - 1 : pc'[who[i]] = "gone"
  <2> SUFFICES ASSUME NEW i \in 1 .. c - 1
               PROVE  pc'[who[i]] = "gone"
    OBVIOUS
  <2>1. WorkerExits(who[i]) /\ Arrived(who[i], Dock) /\ who[i] \in Threads /\ who[i] # Master
    BY <1>1, <1>2, <1>5 DEF Exit
  <2>2. CASE i = j
    BY <1>3, <2>1, <2>2
  <2>3. CASE i # j
    <3>1. who[i] # t /\ ~Opening(who[i], Dock)
      BY <1>2, <1>5, <2>3 DEF Apart
    <3>2. pc[who[i]] = "gone"
      BY <1>2, <2>1, <3>1 DEF WorkerExits, Arrived, Opening, Here, At, Barriers, LetGo
    <3> QED BY <1>3, <2>1, <3>1, <3>2
  <2> QED BY <2>2, <2>3
<1>9. PICK crew : crew \in [0 .. 0 -> Threads] /\ crew[0] = Master
  <2> DEFINE one == [i \in 0 .. 0 |-> Master]
  <2>1. one \in [0 .. 0 -> Threads] /\ one[0] = Master
    BY <1>2
  <2> QED BY <2>1
<1>10. Members(1, crew)'
  <2>1. \A w \in Workers : Outside(w)'
    <3> SUFFICES ASSUME NEW w \in Workers
                 PROVE  Outside(w)'
      OBVIOUS
    <3>1. CASE \E i \in 1 .. c - 1 : who[i] = w
      BY <1>8, <3>1 DEF Outside
    <3>2. CASE ~(\E i \in 1 .. c - 1 : who[i] = w)
      <4>1. Outside(w) /\ w # t
        BY <1>2, <3>2 DEF Members
      <4> QED BY <1>2, <1>3, <4>1, OutsideLeft
    <3> QED BY <3>1, <3>2
  <2>2. thr'[Master].id = 0
    BY <1>2, <1>3 DEF Members
  <2> QED BY <1>9, <2>1, <2>2 DEF Members
<1>11. Over(1)'
  BY <1>4, <1>7 DEF Over
<1>12. Teams'
  <2>1. pool.last_team # NoTeam => bar'[pool.last_team] = bar[pool.last_team]
    <3>1. pool.last_team \in TeamIds \cup {NoTeam}
      BY <1>2, PoolsChange DEF TypeOK
    <3> QED BY <1>2, <1>3, <3>1
  <2> QED BY <1>2, <1>3, <1>4, <1>6, <2>1 DEF Teams, Full, Used
<1>13. Counts("over", crew)'
  BY <1>2, <1>3, <1>4 DEF Counts
<1> QED BY <1>10, <1>11, <1>12, <1>13 DEF Inv, Staged

LEMMA OpenStep ==
  ASSUME NEW stage \in Stages, NEW c, NEW who, Inv(stage, c, who), TypeOK', NEW t \in Threads, Open(t)
  PROVE  IInv'
<1>1. PICK j \in 0 .. c - 1 :
           /\ t = who[j] /\ Here(t, at[t])
           /\ \/ stage = "gather" /\ at[t] = Dock /\ Used # 0 /\ ret[t] # "gone"
              \/ /\ stage = "gather" /\ t = Master /\ Alone /\ team \in TeamIds
                 /\ at[t] = team /\ ret[t] = "team_end"
              \/ stage = "run" /\ at[t] = team /\ team \in TeamIds /\ ret[t] # "gone"
              \/ stage = "exit" /\ at[t] = Dock /\ (ret[t] = "gone" <=> t # Master)
  <2>1. pc[t] = "open"
    BY DEF Open
  <2> QED BY <2>1, WhichBarrier
<1>2. CASE stage = "gather" /\ at[t] = Dock /\ Used # 0
  <2>1. CASE ret[Master] = "docked"
    <3>1. \E d, crew : Inv("run", d, crew)'
      BY <1>1, <1>2, <2>1, OpenDockToRun
    <3> QED BY <3>1 DEF IInv, Stages
  <2>2. CASE ret[Master] # "docked"
    <3>1. Inv("exit", c, who)'
      BY <1>1, <1>2, <2>2, OpenDockToExit
    <3> QED BY <3>1 DEF IInv, Stages
  <2> QED BY <2>1, <2>2
<1>3. CASE stage = "gather" /\ t = Master /\ Alone /\ team \in TeamIds /\ at[t] = team /\ ret[t] = "team_end"
  <2>1. Inv("gather", c, who)'
    BY <1>3, OpenAlone
  <2> QED BY <2>1 DEF IInv, Stages
<1>4. CASE stage = "run" /\ at[t] = team /\ team \in TeamIds
  <2>1. Inv("gather", c, who)'
    BY <1>1, <1>4, OpenLastBarrier
  <2> QED BY <2>1 DEF IInv, Stages
<1>5. CASE stage = "exit" /\ at[t] = Dock /\ (ret[t] = "gone" <=> t # Master)
  <2>1. \E crew : Inv("over", 1, crew)'
    BY <1>1, <1>5, OpenDockToOver
  <2> QED BY <2>1 DEF IInv, Stages
<1> QED BY <1>1, <1>2, <1>3, <1>4, <1>5

-----------------------------------------------------------------------------
(* Steps of one thread, while all of the others stay where they are.       *)

OthersStay(t) == \A u \in Threads \ {t} : Same(u)

(* A step of t keeps the members what they are. *)
LEMMA MemberMoves ==
  ASSUME NEW c, NEW who, TypeOK, Members(c, who), NEW j \in 0 .. c - 1, NEW t, t = who[j], OthersStay(t),
         thr'[t].id = thr[t].id, bar'[Dock].generation = bar[Dock].generation,
         \A i \in 1 .. c - 1 : i # j => pool'.threads[i] = pool.threads[i],
         j # 0 /\ pc'[t] # "start" => pool'.threads[j] = t
  PROVE  Members(c, who)'
<1>1. /\ c \in Nat \ {0} /\ who \in [0 .. c - 1 -> Threads]
      /\ who[0] = Master /\ thr[Master].id = 0
      /\ \A i \in 1 .. c - 1 : who[i] \in Workers /\ i \in Ids /\ thr[who[i]].id = i
                               /\ (pc[who[i]] # "start" => pool.threads[i] = who[i])
  BY DEF Members
<1>2. t \in Threads /\ \A i \in 0 .. c - 1 : i # j => who[i] \in Threads \ {t}
  BY <1>1, MembersApart DEF Apart
<1>3. \A i \in 1 .. c - 1 : /\ thr'[who[i]].id = i
                            /\ pc'[who[i]] # "start" => pool'.threads[i] = who[i]
  <2> SUFFICES ASSUME NEW i \in 1 .. c - 1
               PROVE  /\ thr'[who[i]].id = i
                      /\ pc'[who[i]] # "start" => pool'.threads[i] = who[i]
    OBVIOUS
  <2>1. CASE i = j
    BY <1>1, <2>1
  <2>2. CASE i # j
    <3>1. Same(who[i])
      BY <1>2, <2>2 DEF OthersStay
    <3> QED BY <1>1, <2>2, <3>1 DEF Same
  <2> QED BY <2>1, <2>2
<1>4. thr'[Master].id = 0
  BY <1>1, MasterAssumption DEF OthersStay, Same, Threads
<1>5. \A w \in Workers : (\E i \in 1 .. c - 1 : who[i] = w) \/ Outside(w)'
  <2> SUFFICES ASSUME NEW w \in Workers, ~(\E i \in 1 .. c - 1 : who[i] = w)
               PROVE  Outside(w)'
    OBVIOUS
  <2>1. Outside(w)
    BY DEF Members
  <2>2. w # t
    BY <1>1, MasterAssumption
  <2>3. Same(w)
    BY <2>2 DEF OthersStay, Threads
  <2> QED BY <2>1, <2>3, OutsideStays
<1> QED BY <1>1, <1>3, <1>4, <1>5 DEF Members

(* A step of t that no barrier counts. *)
LEMMA RoundBeside ==
  ASSUME NEW b, NEW n \in Nat, NEW c, NEW who, Apart(c, who), NEW t, OthersStay(t), Round(b, n, c, who),
         bar'[b] = bar[b],
         (\E j \in 0 .. c - 1 : t = who[j])
           => ~Arrived(t, b) /\ ~Opening(t, b) /\ ~Arrived(t, b)' /\ ~Opening(t, b)'
  PROVE  Round(b, n, c, who)'
<1>1. \A i \in 0 .. c - 1 :
        /\ Arrived(who[i], b)' <=> Arrived(who[i], b)
        /\ Opening(who[i], b)' <=> Opening(who[i], b)
        /\ (at'[who[i]] = b /\ pc'[who[i]] = "open") <=> (at[who[i]] = b /\ pc[who[i]] = "open")
  <2> SUFFICES ASSUME NEW i \in 0 .. c - 1
               PROVE  /\ Arrived(who[i], b)' <=> Arrived(who[i], b)
                      /\ Opening(who[i], b)' <=> Opening(who[i], b)
                      /\ (at'[who[i]] = b /\ pc'[who[i]] = "open") <=> (at[who[i]] = b /\ pc[who[i]] = "open")
    OBVIOUS
  <2>1. CASE who[i] = t
    BY <2>1 DEF Opening
  <2>2. CASE who[i] # t
    <3>1. Same(who[i])
      BY <2>2 DEF OthersStay, Apart
    <3> QED BY <3>1 DEF Same, Arrived, Opening, Here, At
  <2> QED BY <2>1, <2>2
<1>2. c \in Nat
  BY DEF Apart
<1> QED BY <1>1, <1>2, RoundKept

LEMMA TeamsStay ==
  ASSUME NEW stage \in Stages, NEW c, NEW who, Inv(stage, c, who), region' = region, team' = team,
         pool'.last_team = pool.last_team, pool'.freed = pool.freed, pool'.threads_used = pool.threads_used,
         status' = status, \A b \in TeamIds : bar'[b] = bar[b], pc[Master] # "gone"
  PROVE  Teams'
<1>1. pool.last_team \in TeamIds \cup {NoTeam} /\ Teams
  BY KeptInTeams DEF Inv
<1> QED BY <1>1 DEF Teams, Full, Used

LEMMA RunMoves ==
  ASSUME NEW c, NEW who, Inv("run", c, who), TypeOK', NEW j \in 0 .. c - 1, NEW t, t = who[j], OthersStay(t),
         thr'[t].id = thr[t].id,
         region' = region, team' = team, old_threads_used' = old_threads_used, pool' = pool, status' = status,
         \A b \in TeamIds : bar'[b] = bar[b], bar'[Dock].generation = bar[Dock].generation,
         IF t = Master THEN MasterRuns' ELSE WorkerRuns(t)' /\ bar'[Dock] = bar[Dock],
         ~Arrived(t, team), ~Opening(t, team), ~Arrived(t, team)', ~Opening(t, team)',
         Counts("run", who)'
  PROVE  Inv("run", c, who)'
<1> DEFINE stage == "run"
<1>1. stage \in Stages /\ Run(c, who) /\ Inv(stage, c, who)
  BY DEF Inv, Staged, Stages
<1>2. /\ TypeOK /\ Members(c, who) /\ Apart(c, who) /\ c \in Nat /\ team \in TeamIds
      /\ Master \in Threads /\ Workers \subseteq Threads /\ Master \notin Workers
      /\ t \in Threads /\ who[0] = Master /\ (\A i \in 1 .. c - 1 : who[i] \in Workers)
  <2> HIDE DEF stage
  <2>1. TypeOK /\ Members(c, who) /\ Apart(c, who) /\ c \in Nat /\ team \in TeamIds
      /\ Master \in Threads /\ Workers \subseteq Threads /\ Master \notin Workers
      /\ who[0] = Master /\ (\A i \in 1 .. c - 1 : who[i] \in Workers)
    BY <1>1, Basics DEF Run
  <2> QED BY <2>1 DEF Apart
<1>3. pc[Master] # "gone" /\ \A i \in 1 .. c - 1 : pc[who[i]] # "start"
  BY <1>1 DEF Run, MasterRuns, WorkerRuns, Here, At, Barriers, LetGo
<1>4. Members(c, who)'
  <2>1. j # 0 => pool'.threads[j] = t
    BY <1>2, <1>3 DEF Members
  <2> QED BY <1>2, <2>1, MemberMoves
<1>5. Teams'
  <2> HIDE DEF stage
  <2> QED BY <1>1, <1>3, TeamsStay
<1>6. MasterRuns'
  <2>1. CASE t = Master
    BY <2>1
  <2>2. CASE t # Master
    <3>1. Same(Master) /\ MasterRuns /\ Size' = Size /\ bar'[Dock] = bar[Dock] /\ bar'[team] = bar[team]
      BY <1>1, <1>2, <2>2 DEF OthersStay, Run, Size
    <3> QED BY <3>1 DEF MasterRuns, Same, Here, At, LetGo, Full, Maximum
  <2> QED BY <2>1, <2>2
<1>7. \A i \in 1 .. c - 1 : WorkerRuns(who[i])'
  <2> SUFFICES ASSUME NEW i \in 1 .. c - 1
               PROVE  WorkerRuns(who[i])'
    OBVIOUS
  <2>1. CASE who[i] = t
    BY <1>2, <2>1
  <2>2. CASE who[i] # t
    <3>1. Same(who[i]) /\ who[i] \in Workers /\ WorkerRuns(who[i])
      BY <1>1, <1>2, <2>2 DEF OthersStay, Run
    <3>2. bar'[team].generation = bar[team].generation
      BY <1>2
    <3> QED BY <3>1, <3>2, RunnerStays
  <2> QED BY <2>1, <2>2
<1>8. Round(team, c, c, who)'
  <2>1. PICK b : b = team
    OBVIOUS
  <2>2. /\ Round(b, c, c, who) /\ bar'[b] = bar[b]
        /\ ~Arrived(t, b) /\ ~Opening(t, b) /\ ~Arrived(t, b)' /\ ~Opening(t, b)'
    BY <1>1, <1>2, <2>1 DEF Run
  <2>3. Round(b, c, c, who)'
    BY <1>2, <2>2, RoundBeside
  <2> QED BY <2>1, <2>3
<1>9. Run(c, who)'
  BY <1>1, <1>6, <1>7, <1>8 DEF Run, Several, Size, Used
<1> QED BY <1>4, <1>5, <1>9 DEF Inv, Staged

LEMMA ExitMoves ==
  ASSUME NEW c, NEW who, Inv("exit", c, who), TypeOK', NEW j \in 0 .. c - 1, NEW t, t = who[j], OthersStay(t),
         thr'[t].id = thr[t].id,
         region' = region, team' = team, pool' = pool, status' = status, ran' = ran, bar' = bar,
         IF t = Master THEN MasterExits' ELSE WorkerExits(t)',
         ~Arrived(t, Dock), ~Opening(t, Dock), ~Arrived(t, Dock)', ~Opening(t, Dock)'
  PROVE  Inv("exit", c, who)'
<1> DEFINE stage == "exit"
<1>1. stage \in Stages /\ Exit(c, who) /\ Inv(stage, c, who)
  BY DEF Inv, Staged, Stages
<1>2. /\ TypeOK /\ Members(c, who) /\ Apart(c, who) /\ c \in Nat /\ Counts(stage, who)
      /\ Master \in Threads /\ Workers \subseteq Threads /\ Master \notin Workers
      /\ t \in Threads /\ who[0] = Master /\ (\A i \in 1 .. c - 1 : who[i] \in Workers)
  <2> HIDE DEF stage
  <2>1. TypeOK /\ Members(c, who) /\ Apart(c, who) /\ c \in Nat /\ Counts(stage, who)
      /\ Master \in Threads /\ Workers \subseteq Threads /\ Master \notin Workers
      /\ who[0] = Master /\ (\A i \in 1 .. c - 1 : who[i] \in Workers)
    BY <1>1, Basics
  <2> QED BY <2>1 DEF Apart
<1>3. pc[Master] # "gone" /\ \A i \in 1 .. c - 1 : pc[who[i]] # "start"
  BY <1>1 DEF Exit, MasterExits, WorkerExits, Here, At, Barriers, LetGo
<1>4. Members(c, who)'
  <2>1. j # 0 => pool'.threads[j] = t
    BY <1>2, <1>3 DEF Members
  <2> QED BY <1>2, <2>1, MemberMoves
<1>5. Teams'
  <2> HIDE DEF stage
  <2> QED BY <1>1, <1>3, TeamsStay
<1>6. MasterExits'
  <2>1. CASE t = Master
    BY <2>1
  <2>2. CASE t # Master
    <3>1. Same(Master) /\ MasterExits
      BY <1>1, <1>2, <2>2 DEF OthersStay, Exit
    <3> QED BY <3>1 DEF MasterExits, Same, Here, At, LetGo
  <2> QED BY <2>1, <2>2
<1>7. \A i \in 1 .. c - 1 : WorkerExits(who[i])'
  <2> SUFFICES ASSUME NEW i \in 1 .. c - 1
               PROVE  WorkerExits(who[i])'
    OBVIOUS
  <2>1. CASE who[i] = t
    BY <1>2, <2>1
  <2>2. CASE who[i] # t
    <3>1. Same(who[i]) /\ who[i] \in Workers /\ WorkerExits(who[i])
      BY <1>1, <1>2, <2>2 DEF OthersStay, Exit
    <3> QED BY <3>1, ExiterStays
  <2> QED BY <2>1, <2>2
<1>8. Round(Dock, c, c, who)'
  <2>1. Round(Dock, c, c, who)
    BY <1>1 DEF Exit
  <2> QED BY <1>2, <2>1, RoundBeside
<1>9. Exit(c, who)'
  BY <1>1, <1>6, <1>7, <1>8 DEF Exit, Used
<1>10. Counts("exit", who)'
  BY <1>1, <1>2 DEF Counts, Exit
<1> QED BY <1>4, <1>5, <1>9, <1>10 DEF Inv, Staged

(* The master does not move, and all that it reads of a member is thr. *)
LEMMA MasterStays ==
  ASSUME NEW c, Same(Master), region' = region, team' = team, index' = index,
         old_threads_used' = old_threads_used,
         pool'.threads_used = pool.threads_used, pool'.last_team = pool.last_team, bar' = bar
  PROVE  /\ Size' = Size /\ Used' = Used /\ (Several' <=> Several) /\ (Alone' <=> Alone)
         /\ Known' = Known /\ Older' = Older /\ (Ending' <=> Ending) /\ Kept' = Kept
         /\ (Creating' <=> Creating) /\ (\A i : Given(i)' = Given(i))
         /\ (MasterGathers(c) => MasterGathers(c)') /\ Expected(c)' = Expected(c)
         /\ \A b : (At(Master, b)' <=> At(Master, b)) /\ (Opening(Master, b)' <=> Opening(Master, b))
<1>1. /\ pc'[Master] = pc[Master] /\ at'[Master] = at[Master] /\ ret'[Master] = ret[Master]
      /\ seen'[Master] = seen[Master] /\ local'[Master] = local[Master]
  BY DEF Same
<1>2. /\ Size' = Size /\ Used' = Used /\ (Several' <=> Several) /\ (Alone' <=> Alone)
      /\ Known' = Known /\ Older' = Older
  BY DEF Size, Used, Several, Alone, Known, Older
<1>3. \A b : /\ At(Master, b)' <=> At(Master, b)
             /\ Opening(Master, b)' <=> Opening(Master, b)
             /\ Here(Master, b)' <=> Here(Master, b)
  BY <1>1 DEF At, Opening, Here
<1>4. Ending' <=> Ending
  BY <1>1, <1>2 DEF Ending
<1>5. Kept' = Kept
  BY <1>4 DEF Kept
<1>6. (Creating' <=> Creating) /\ (\A i : Given(i)' = Given(i)) /\ Expected(c)' = Expected(c)
  BY <1>1, <1>2, <1>3 DEF Creating, Given, Expected, Maximum
<1>7. Here(Master, Dock)' <=> Here(Master, Dock)
  BY <1>3
<1>8. Here(Master, team)' <=> Here(Master, team)
  BY <1>1 DEF Here, At
<1>9. MasterGathers(c) => MasterGathers(c)'
  BY <1>1, <1>2, <1>4, <1>7, <1>8 DEF MasterGathers, Maximum
<1> QED BY <1>2, <1>3, <1>4, <1>5, <1>6, <1>9

(* A worker moves on its way to the dock; thr may be written for it.       *)
LEMMA GatherMoves ==
  ASSUME NEW c, NEW who, Inv("gather", c, who), TypeOK', NEW w \in Workers, OthersStay(w),
         region' = region, team' = team, index' = index, old_threads_used' = old_threads_used,
         pool'.threads_used = pool.threads_used, pool'.last_team = pool.last_team, pool'.freed = pool.freed,
         status' = status, ran' = ran, bar' = bar,
         Members(c, who)', pc[w] # "unborn",
         \A i \in 1 .. c - 1 : w = who[i] => WorkerGathers(i, w)',
         (\E i \in 0 .. c - 1 : w = who[i])
           => ~Arrived(w, Dock) /\ ~Opening(w, Dock) /\ ~Arrived(w, Dock)' /\ ~Opening(w, Dock)'
  PROVE  Inv("gather", c, who)'
<1> DEFINE stage == "gather"
<1>1. stage \in Stages /\ Gather(c, who) /\ Inv(stage, c, who)
  BY DEF Inv, Staged, Stages
<1>2. /\ TypeOK /\ Members(c, who) /\ Apart(c, who) /\ c \in Nat /\ Counts(stage, who)
      /\ Master \in Threads /\ Workers \subseteq Threads /\ Master \notin Workers
      /\ who[0] = Master /\ (\A i \in 1 .. c - 1 : who[i] \in Workers)
      /\ \A u \in Threads : at[u] \in TeamIds \cup {Dock}
  <2> HIDE DEF stage
  <2> QED BY <1>1, Basics
<1>3. Same(Master)
  BY <1>2 DEF OthersStay
<1>4. /\ Size' = Size /\ Used' = Used /\ (Several' <=> Several) /\ (Alone' <=> Alone)
      /\ Known' = Known /\ Older' = Older /\ (Ending' <=> Ending) /\ Kept' = Kept
      /\ (Creating' <=> Creating) /\ (\A i : Given(i)' = Given(i))
      /\ (MasterGathers(c) => MasterGathers(c)') /\ Expected(c)' = Expected(c)
      /\ \A b : (At(Master, b)' <=> At(Master, b)) /\ (Opening(Master, b)' <=> Opening(Master, b))
  BY <1>3, MasterStays
<1>5. MasterGathers(c)' /\ pc'[Master] = pc[Master] /\ pc[Master] # "gone"
  <2>1. MasterGathers(c)
    BY <1>1 DEF Gather
  <2> QED BY <1>3, <1>4, <2>1 DEF Same, MasterGathers, Ending, Here, At, Barriers
<1>6. \A i \in 1 .. c - 1 : WorkerGathers(i, who[i])'
  <2> SUFFICES ASSUME NEW i \in 1 .. c - 1
               PROVE  WorkerGathers(i, who[i])'
    OBVIOUS
  <2>1. CASE who[i] = w
    BY <2>1
  <2>2. CASE who[i] # w
    <3>1. Same(who[i]) /\ who[i] \in Workers /\ WorkerGathers(i, who[i])
      BY <1>1, <1>2, <2>2 DEF OthersStay, Gather
    <3>2. Stays(who[i])
      BY <3>1 DEF Same, Stays
    <3>3. (Told(i, who[i]) => Told(i, who[i])') /\ (FromKept(who[i]) => FromKept(who[i])')
      BY <1>4, <3>1 DEF Same, Told, FromKept
    <3>4. thr'[who[i]].fn = thr[who[i]].fn
      BY <3>1 DEF Same
    <3> QED BY <1>4, <3>1, <3>2, <3>3, <3>4, WorkerStays
  <2> QED BY <2>1, <2>2
<1>7. IF Used' = 0 THEN \A u \in Workers : pc'[u] = "unborn" ELSE Round(Dock, Expected(c), c, who)'
  <2>1. CASE Used = 0
    BY <1>1, <2>1 DEF Gather
  <2>2. CASE Used # 0
    <3>1. PICK n \in Nat : n = Expected(c) /\ Round(Dock, n, c, who)
      BY <2>2, DockRound
    <3>2. Round(Dock, n, c, who)'
      BY <1>2, <3>1, RoundBeside
    <3> QED BY <1>4, <2>2, <3>1, <3>2
  <2> QED BY <2>1, <2>2
<1>8. team' # NoTeam => IF Opening(Master, team)' /\ pc'[Master] = "reset"
                        THEN bar'[team].total = Size' /\ bar'[team].awaited = 0
                        ELSE Full(team, Size)'
  <2>1. Opening(Master, team)' <=> Opening(Master, team)
    BY <1>3 DEF Same, Opening
  <2> QED BY <1>1, <1>4, <1>5, <2>1 DEF Gather, Full
<1>9. Gather(c, who)'
  BY <1>5, <1>6, <1>7, <1>8 DEF Gather
<1>10. Teams'
  <2> HIDE DEF stage
  <2> QED BY <1>1, <1>5, TeamsStay
<1>11. Counts("gather", who)'
  <2>1. \A i : HasRun("gather", i, who)' <=> HasRun("gather", i, who)
    BY <1>3, <1>5 DEF HasRun, Same, At
  <2> QED BY <1>2, <2>1 DEF Counts
<1> QED BY <1>9, <1>10, <1>11 DEF Inv, Staged

(* A thread that was let go by a smaller region moves on its way out.      *)
LEMMA OutsideMoves ==
  ASSUME NEW stage \in Stages, NEW c, NEW who, Inv(stage, c, who), TypeOK', NEW w \in Workers, OthersStay(w),
         \A i \in 1 .. c - 1 : who[i] # w, pc[w] # "unborn", Outside(w)',
         UNCHANGED <<masterVars, pool, bar, status, ran>>
  PROVE  Inv(stage, c, who)'
<1>1. /\ TypeOK /\ Members(c, who) /\ Apart(c, who) /\ c \in Nat /\ Counts(stage, who) /\ Teams
      /\ Master \in Threads /\ Workers \subseteq Threads /\ Master \notin Workers
      /\ who[0] = Master /\ (\A i \in 1 .. c - 1 : who[i] \in Workers)
  BY Basics
<1>2. region' = region /\ team' = team /\ index' = index /\ old_threads_used' = old_threads_used /\ pool' = pool
      /\ bar' = bar /\ status' = status /\ ran' = ran /\ Size' = Size /\ Used' = Used /\ (Several' <=> Several)
  BY DEF masterVars, Size, Used, Several
<1>3. Same(Master) /\ \A i \in 0 .. c - 1 : Same(who[i]) /\ who[i] # w
  BY <1>1 DEF OthersStay
<1>4. Members(c, who)'
  <2>1. \A u \in Workers : (\E i \in 1 .. c - 1 : who[i] = u) \/ Outside(u)'
    <3> SUFFICES ASSUME NEW u \in Workers, ~(\E i \in 1 .. c - 1 : who[i] = u)
                 PROVE  Outside(u)'
      OBVIOUS
    <3>1. CASE u = w
      BY <3>1
    <3>2. CASE u # w
      <4>1. Outside(u) /\ Same(u)
        BY <1>1, <3>2 DEF Members, OthersStay
      <4> QED BY <1>2, <4>1, OutsideStays
    <3> QED BY <3>1, <3>2
  <2>2. \A i \in 1 .. c - 1 : thr'[who[i]] = thr[who[i]] /\ pc'[who[i]] = pc[who[i]]
    BY <1>3 DEF Same
  <2>3. thr'[Master] = thr[Master]
    BY <1>3 DEF Same
  <2> QED BY <1>1, <1>2, <2>1, <2>2, <2>3 DEF Members
<1>5. /\ pc'[Master] = pc[Master] /\ at'[Master] = at[Master] /\ ret'[Master] = ret[Master]
      /\ seen'[Master] = seen[Master] /\ local'[Master] = local[Master]
  BY <1>3 DEF Same
<1>6. Teams'
  BY <1>1, <1>2, <1>5 DEF Teams, Full
<1>7. Counts(stage, who)' \/ stage = "gather"
  <2>1. \A i \in 0 .. c - 1 : HasRun(stage, i, who)' <=> HasRun(stage, i, who)
    BY <1>2, <1>3, <1>5 DEF HasRun, Same, At
  <2>2. stage = "run" => \A r \in RegionIds : \A i \in Ids : r = region /\ i < Regions[r].threads => i \in 0 .. c - 1
    BY <1>1, RoomForAll, Sizes DEF Inv, Staged, Run, Size, Ids
  <2>3. stage \in {"exit", "over"} => region \notin RegionIds
    BY DEF Inv, Staged, Exit, Over
  <2> QED BY <1>1, <1>2, <2>1, <2>2, <2>3 DEF Counts, Stages
<1>8. CASE stage = "gather"
  <2>1. \A i \in 0 .. c - 1 : w # who[i]
    BY <1>3
  <2>2. Inv("gather", c, who)
    BY <1>8
  <2>3. Inv("gather", c, who)'
    <3>1. \A i \in 1 .. c - 1 : w # who[i]
      BY <2>1
    <3> QED BY <1>2, <1>4, <2>1, <2>2, <3>1, GatherMoves
  <2> QED BY <1>8, <2>3
<1>9. CASE stage = "run"
  <2>1. Run(c, who)
    BY <1>9 DEF Inv, Staged
  <2>2. MasterRuns'
    BY <1>2, <1>5, <2>1 DEF Run, MasterRuns, Here, At, LetGo, Full, Maximum
  <2>3. \A i \in 1 .. c - 1 : WorkerRuns(who[i])'
    BY <1>1, <1>2, <1>3, <2>1, RunnerStays DEF Run
  <2>4. Round(team, c, c, who)'
    <3>1. PICK b : b = team
      OBVIOUS
    <3>2. Round(b, c, c, who) /\ bar'[b] = bar[b] /\ ~(\E i \in 0 .. c - 1 : w = who[i])
      BY <1>2, <1>3, <2>1, <3>1 DEF Run
    <3>3. Round(b, c, c, who)'
      BY <1>1, <3>2, RoundBeside
    <3> QED BY <1>2, <3>1, <3>3
  <2>5. Run(c, who)'
    BY <1>2, <2>1, <2>2, <2>3, <2>4 DEF Run
  <2> QED BY <1>4, <1>6, <1>7, <1>9, <2>5 DEF Inv, Staged
<1>10. CASE stage = "exit"
  <2>1. Exit(c, who)
    BY <1>10 DEF Inv, Staged
  <2>2. MasterExits'
    BY <1>2, <1>5, <2>1 DEF Exit, MasterExits, Here, At, LetGo
  <2>3. \A i \in 1 .. c - 1 : WorkerExits(who[i])'
    BY <1>1, <1>2, <1>3, <2>1, ExiterStays DEF Exit
  <2>4. Round(Dock, c, c, who)'
    <3>1. Round(Dock, c, c, who) /\ ~(\E i \in 0 .. c - 1 : w = who[i])
      BY <1>3, <2>1 DEF Exit
    <3> QED BY <1>1, <1>2, <3>1, RoundBeside
  <2>5. Exit(c, who)'
    BY <1>2, <2>1, <2>2, <2>3, <2>4 DEF Exit
  <2> QED BY <1>4, <1>6, <1>7, <1>10, <2>5 DEF Inv, Staged
<1>11. CASE stage = "over"
  <2>1. Over(c)'
    BY <1>2, <1>5, <1>11 DEF Inv, Staged, Over, LetGo
  <2> QED BY <1>4, <1>6, <1>7, <1>11, <2>1 DEF Inv, Staged
<1> QED BY <1>8, <1>9, <1>10, <1>11 DEF Stages

(* A worker that has numbers to go by is a member, or is on its way out.   *)
LEMMA MemberOrOutside ==
  ASSUME NEW c, NEW who, Members(c, who), NEW w \in Workers
  PROVE  \/ \E j \in 1 .. c - 1 : w = who[j]
         \/ Outside(w) /\ \A i \in 1 .. c - 1 : who[i] # w
BY DEF Members

LEMMA PassFacts ==
  ASSUME TypeOK, NEW t \in Threads, Pass(t)
  PROVE  /\ pc[t] = "wait" /\ pc'[t] = ret[t]
         /\ \A u \in Threads \ {t} : pc'[u] = pc[u]
         /\ UNCHANGED <<masterVars, pool, bar, at, ret, seen, status, thr, local, ran>>
         /\ OthersStay(t)
         /\ IF at[t] = Dock THEN bar[Dock].generation # seen[t] ELSE bar[at[t]].generation = seen[t] + 1
         /\ ~Here(t, Dock)
         /\ team # Dock => ~Here(t, team)
<1>1. /\ pc[t] = "wait" /\ pc'[t] = ret[t]
      /\ \A u \in Threads \ {t} : pc'[u] = pc[u]
      /\ UNCHANGED <<masterVars, pool, bar, at, ret, seen, status, thr, local, ran>>
      /\ IF at[t] = Dock THEN bar[Dock].generation # seen[t] ELSE bar[at[t]].generation = seen[t] + 1
  BY DEF Pass, Goto, TypeOK, barrierVars
<1>2. seen[t] \in Nat
  BY DEF TypeOK
<1> QED BY <1>1, <1>2 DEF OthersStay, Same, Here, At

LEMMA PassStep ==
  ASSUME NEW stage \in Stages, NEW c, NEW who, Inv(stage, c, who), TypeOK', NEW t \in Threads, Pass(t)
  PROVE  Inv(stage, c, who)'
<1>1. /\ TypeOK /\ Members(c, who) /\ Apart(c, who) /\ c \in Nat \ {0} /\ Counts(stage, who) /\ Teams
      /\ Master \in Threads /\ Workers \subseteq Threads /\ Master \notin Workers
      /\ who[0] = Master /\ (\A i \in 1 .. c - 1 : who[i] \in Workers) /\ (t # Master => t \in Workers)
      /\ TeamIds = RegionIds /\ Dock \notin TeamIds /\ NoTeam \notin TeamIds /\ Dock # NoTeam
      /\ team \in TeamIds \cup {NoTeam} /\ team # Dock /\ Kept \in TeamIds \cup {NoTeam}
  BY Basics, KeptInTeams
<1>2. /\ pc[t] = "wait" /\ pc'[t] = ret[t]
      /\ \A u \in Threads \ {t} : pc'[u] = pc[u]
      /\ UNCHANGED <<masterVars, pool, bar, at, ret, seen, status, thr, local, ran>>
      /\ OthersStay(t)
      /\ IF at[t] = Dock THEN bar[Dock].generation # seen[t] ELSE bar[at[t]].generation = seen[t] + 1
      /\ ~Here(t, Dock) /\ ~Here(t, team)
  BY <1>1, PassFacts
<1>3. region' = region /\ team' = team /\ index' = index /\ old_threads_used' = old_threads_used /\ pool' = pool
      /\ thr' = thr /\ bar' = bar /\ status' = status /\ ran' = ran /\ local' = local
      /\ Size' = Size /\ Used' = Used /\ (Several' <=> Several) /\ (Alone' <=> Alone) /\ Older' = Older
      /\ Known' = Known
  BY <1>2 DEF masterVars, Size, Used, Several, Alone, Older, Known
<1>4. pc[t] # "gone" /\ ~Arrived(t, Dock) /\ ~Opening(t, Dock) /\ ~Arrived(t, team) /\ ~Opening(t, team)
  BY <1>2 DEF Arrived, Opening
<1>5. ASSUME t # Master, \A i \in 1 .. c - 1 : who[i] # t
      PROVE  Inv(stage, c, who)'
  <2>1. Outside(t)
    BY <1>1, <1>5, MemberOrOutside
  <2>2. Outside(t)'
    BY <1>2, <2>1 DEF Outside, LetGo
  <2> QED BY <1>1, <1>2, <1>5, <2>2, OutsideMoves
<1>6. ASSUME NEW j \in 0 .. c - 1, t = who[j], t = Master <=> j = 0
      PROVE  Inv(stage, c, who)'
  <2>1. CASE stage = "gather"
    <3>1. Gather(c, who)
      BY <2>1 DEF Inv, Staged
    <3>2. CASE t = Master
      <4>1. Ending /\ at[Master] = team /\ ret[Master] = "team_end" /\ team # NoTeam /\ Used = Size /\ c = Used
        <5>1. MasterGathers(c)
          BY <3>1 DEF Gather
        <5> QED BY <1>2, <3>2, <5>1 DEF MasterGathers, Ending
      <4>2. pc'[Master] = "team_end" /\ Ending' /\ Several
        BY <1>2, <1>3, <3>2, <4>1 DEF Ending
      <4>3. Quiet
        BY <1>1, <1>2, <3>2 DEF Quiet
      <4>4. Kept' = Kept
        BY <1>3, <4>1, <4>2 DEF Kept
      <4>5. ~Creating /\ \A i : Given(i) = NULL /\ Given(i)' = NULL
        BY <1>1, <1>2, <3>2, <4>1, <4>2 DEF Creating, Given, At
      <4>6. \A i \in 1 .. c - 1 : WorkerGathers(i, who[i])'
        <5>1. \A i \in 1 .. c - 1 : Told(i, who[i]) => Told(i, who[i])'
          BY <1>3, <4>5 DEF Told
        <5>2. Inv("gather", c, who)
          BY <2>1
        <5> QED BY <1>3, <4>3, <4>4, <4>5, <5>1, <5>2, WorkersStay
      <4>7. Members(c, who)'
        BY <1>1, <1>3, <4>3, MembersStay
      <4>8. Used # 0 /\ Size > 1
        BY <4>1, <4>2 DEF Several
      <4>9. Round(Dock, c, c, who)'
        <5>1. Round(Dock, c, c, who) /\ c \in Nat
          BY <1>1, <1>2, <2>1, <3>2, <4>8, DockRound
        <5>2. ~Arrived(Master, Dock)' /\ ~Opening(Master, Dock)'
          BY <4>2 DEF Arrived, Opening, Here, At, Barriers
        <5> QED BY <1>1, <1>3, <1>4, <3>2, <4>3, <5>1, <5>2, DockStays
      <4>10. Expected(c)' = c
        BY <4>2 DEF Expected
      <4>11. MasterGathers(c)'
        BY <1>3, <4>1, <4>2 DEF MasterGathers
      <4>12. Full(team, Size)'
        BY <1>2, <1>3, <3>1, <3>2, <4>1 DEF Gather, Full
      <4>13. Gather(c, who)'
        BY <1>3, <4>2, <4>6, <4>8, <4>9, <4>10, <4>11, <4>12 DEF Gather
      <4>14. Teams'
        BY <1>1, <1>3, <1>4, <2>1, <3>2, TeamsStay
      <4>15. Counts("gather", who)'
        <5>1. \A i : HasRun("gather", i, who) /\ HasRun("gather", i, who)'
          BY <1>2, <3>2, <4>1, <4>2 DEF HasRun, At, Barriers
        <5> QED BY <1>1, <1>3, <2>1, <5>1 DEF Counts
      <4> QED BY <2>1, <4>7, <4>13, <4>14, <4>15 DEF Inv, Staged
    <3>3. CASE t # Master
      <4>1. WorkerGathers(j, t) /\ t \in Workers
        BY <1>1, <1>6, <3>1, <3>3 DEF Gather
      <4>2. ret[t] = "finish_task" /\ FromKept(t) /\ Told(j, t)
        BY <1>2, <4>1 DEF WorkerGathers
      <4>3. Same(Master)
        BY <1>1, <1>2, <3>3 DEF OthersStay
      <4>4. WorkerGathers(j, t)'
        <5>1. Told(j, t)' /\ FromKept(t)'
          BY <1>3, <4>2, <4>3, MasterStays DEF Told, FromKept
        <5> QED BY <1>2, <4>2, <5>1 DEF WorkerGathers
      <4>5. Members(c, who)'
        <5>1. j # 0 => pool'.threads[j] = t
          BY <1>1, <1>2, <1>3, <1>6 DEF Members
        <5> QED BY <1>1, <1>2, <1>3, <1>6, <5>1, MemberMoves
      <4>6. ~Arrived(t, Dock)' /\ ~Opening(t, Dock)'
        BY <1>2, <4>2 DEF Arrived, Opening, Here, At, Barriers
      <4>7. \A i \in 1 .. c - 1 : t = who[i] => i = j
        <5>1. \A i \in 0 .. c - 1 : who[i] = who[j] => i = j
          BY <1>1 DEF Apart
        <5>2. \A i \in 1 .. c - 1 : i \in 0 .. c - 1
          BY <1>1
        <5> QED BY <1>6, <5>1, <5>2
      <4>8. Inv("gather", c, who)
        BY <2>1
      <4>9. Inv("gather", c, who)'
        <5>1. \A i \in 1 .. c - 1 : t = who[i] => WorkerGathers(i, t)'
          BY <4>4, <4>7
        <5> QED BY <1>2, <1>3, <1>4, <4>1, <4>5, <4>6, <4>8, <5>1, GatherMoves
      <4> QED BY <2>1, <4>9
    <3> QED BY <3>2, <3>3
  <2>2. CASE stage = "run"
    <3>1. Run(c, who)
      BY <2>2 DEF Inv, Staged
    <3>2. IF t = Master THEN MasterRuns' /\ ret[t] = "docked" ELSE WorkerRuns(t)' /\ ret[t] \in {"body", "undock"}
      <4>1. CASE t = Master
        BY <1>2, <1>3, <3>1, <4>1 DEF Run, MasterRuns, LetGo, Full, Maximum
      <4>2. CASE t # Master
        <5>1. WorkerRuns(t)
          BY <1>6, <3>1, <4>2 DEF Run
        <5> QED BY <1>2, <1>3, <4>2, <5>1 DEF WorkerRuns, LetGo
      <4> QED BY <4>1, <4>2
    <3>3. ~Arrived(t, team)' /\ ~Opening(t, team)' /\ pc'[t] # "team_end" /\ ~At(t, team)'
      BY <1>2, <3>2 DEF Arrived, Opening, Here, At, Barriers
    <3>4. ~At(t, team)
      <4>1. CASE t = Master
        BY <1>1, <1>2, <3>1, <3>2, <4>1 DEF Run, MasterRuns, At, LetGo
      <4>2. CASE t # Master
        <5>1. WorkerRuns(t)
          BY <1>6, <3>1, <4>2 DEF Run
        <5> QED BY <1>1, <1>2, <3>2, <4>2, <5>1 DEF WorkerRuns, At, LetGo
      <4> QED BY <4>1, <4>2
    <3>5. Counts("run", who)'
      <4>1. \A i \in 0 .. c - 1 : HasRun("run", i, who)' <=> HasRun("run", i, who)
        <5> SUFFICES ASSUME NEW i \in 0 .. c - 1
                     PROVE  HasRun("run", i, who)' <=> HasRun("run", i, who)
          OBVIOUS
        <5>1. pc'[Master] # "team_end" /\ pc[Master] # "team_end"
          BY <1>1, <1>2, <3>1, <3>3 DEF Run, MasterRuns, LetGo, Here, At, Barriers
        <5>2. At(who[i], team)' <=> At(who[i], team)
          <6>1. CASE who[i] = t
            BY <3>3, <3>4, <6>1
          <6>2. CASE who[i] # t
            <7>1. Same(who[i])
              BY <1>1, <1>2, <6>2 DEF OthersStay, Apart
            <7> QED BY <1>3, <7>1 DEF At, Same
          <6> QED BY <6>1, <6>2
        <5> QED BY <5>1, <5>2 DEF HasRun
      <4>2. \A r \in RegionIds : \A i \in Ids : r = region /\ i < Regions[r].threads => i \in 0 .. c - 1
        BY <1>1, <3>1, RoomForAll, Sizes DEF Run, Size, Ids
      <4> QED BY <1>1, <1>3, <2>2, <4>1, <4>2 DEF Counts
    <3>6. Inv("run", c, who)
      BY <2>2
    <3>7. Inv("run", c, who)'
      BY <1>2, <1>3, <1>4, <1>6, <3>2, <3>3, <3>5, <3>6, RunMoves
    <3> QED BY <2>2, <3>7
  <2>3. CASE stage = "exit"
    <3>1. Exit(c, who)
      BY <2>3 DEF Inv, Staged
    <3>2. IF t = Master THEN MasterExits' /\ ret[t] = "undocked" ELSE WorkerExits(t)' /\ ret[t] = "undock"
      <4>1. CASE t = Master
        BY <1>2, <1>3, <3>1, <4>1 DEF Exit, MasterExits, LetGo
      <4>2. CASE t # Master
        <5>1. WorkerExits(t)
          BY <1>6, <3>1, <4>2 DEF Exit
        <5> QED BY <1>2, <1>3, <4>2, <5>1 DEF WorkerExits, LetGo
      <4> QED BY <4>1, <4>2
    <3>3. ~Arrived(t, Dock)' /\ ~Opening(t, Dock)'
      BY <1>2, <3>2 DEF Arrived, Opening, Here, At, Barriers
    <3>4. Inv("exit", c, who)
      BY <2>3
    <3>5. Inv("exit", c, who)'
      BY <1>2, <1>3, <1>4, <1>6, <3>2, <3>3, <3>4, ExitMoves
    <3> QED BY <2>3, <3>5
  <2>4. CASE stage = "over"
    <3>1. Over(c) /\ c = 1 /\ t = Master
      BY <1>1, <1>6, <2>4 DEF Inv, Staged, Over
    <3>2. ret[Master] = "unmanage"
      BY <1>2, <3>1 DEF Over
    <3>3. Over(c)'
      BY <1>2, <1>3, <3>1, <3>2 DEF Over
    <3>4. Members(c, who)'
      <4>1. Quiet
        BY <1>1, <1>2, <3>1 DEF Quiet
      <4> QED BY <1>1, <1>3, <4>1, MembersStay
    <3>5. Teams'
      BY <1>1, <1>3, <1>4, <3>1, TeamsStay
    <3>6. Counts(stage, who)'
      BY <1>1, <1>3, <3>1 DEF Counts, Over
    <3> QED BY <2>4, <3>3, <3>4, <3>5, <3>6 DEF Inv, Staged
  <2> QED BY <2>1, <2>2, <2>3, <2>4 DEF Stages
<1>7. CASE t = Master
  <2>1. t = who[0] /\ 0 \in 0 .. c - 1
    BY <1>1, <1>7
  <2> QED BY <1>6, <1>7, <2>1
<1>8. CASE t # Master /\ \E i \in 1 .. c - 1 : who[i] = t
  <2>1. PICK i \in 1 .. c - 1 : who[i] = t
    BY <1>8
  <2>2. i \in 0 .. c - 1 /\ i # 0
    BY <1>1
  <2> QED BY <1>6, <1>8, <2>1, <2>2
<1> QED BY <1>5, <1>7, <1>8

LEMMA RunFnStep ==
  ASSUME NEW stage \in Stages, NEW c, NEW who, Inv(stage, c, who), TypeOK', NEW t \in Threads, RunFn(t)
  PROVE  Inv(stage, c, who)'
<1>1. /\ TypeOK /\ Members(c, who) /\ Apart(c, who) /\ c \in Nat \ {0} /\ Counts(stage, who) /\ Teams
      /\ Master \in Threads /\ Workers \subseteq Threads /\ Master \notin Workers
      /\ who[0] = Master /\ (\A i \in 1 .. c - 1 : who[i] \in Workers) /\ (t # Master => t \in Workers)
      /\ TeamIds = RegionIds /\ Dock \notin TeamIds /\ NoTeam \notin TeamIds /\ Dock # NoTeam
  BY Basics
<1>2. /\ pc[t] = "body" /\ region \in RegionIds /\ team \in TeamIds /\ local[t] = [fn |-> region, team |-> team]
  BY InRegion DEF RunFn
<1>3. /\ pc'[t] = "load" /\ at'[t] = team /\ ret'[t] = IF t = Master THEN "team_end" ELSE "finish_task"
      /\ OthersStay(t) /\ thr' = thr /\ local' = local /\ bar' = bar /\ status' = status /\ pool' = pool
      /\ ran' = [ran EXCEPT ![region][thr[t].id] = @ + 1]
      /\ region' = region /\ team' = team /\ index' = index /\ old_threads_used' = old_threads_used
      /\ Size' = Size /\ Used' = Used /\ (Several' <=> Several) /\ (Alone' <=> Alone) /\ Older' = Older
      /\ Known' = Known
  BY <1>1, <1>2 DEF RunFn, Enter, Goto, TypeOK, masterVars, OthersStay, Same, Size, Used, Several, Alone, Older,
                    Known
<1>4. stage \in {"gather", "run"}
  <2>1. stage # "exit" /\ stage # "over"
    BY <1>2 DEF Inv, Staged, Exit, Over
  <2> QED BY <2>1 DEF Stages
<1>5. PICK j \in 0 .. c - 1 : t = who[j] /\ (t = Master <=> j = 0)
  <2>1. CASE t = Master
    BY <1>1, <2>1
  <2>2. CASE t # Master
    <3>1. ~Outside(t)
      BY <1>2 DEF Outside, LetGo
    <3>2. PICK i \in 1 .. c - 1 : t = who[i]
      BY <1>1, <2>2, <3>1 DEF Members
    <3> QED BY <1>1, <2>2, <3>2
  <2> QED BY <2>1, <2>2
<1>6. thr[t].id = j
  BY <1>1, <1>5 DEF Members
<1>7. j \in Ids /\ \A r \in RegionIds : \A i \in Ids :
        ran'[r][i] = IF r = region /\ i = j THEN ran[r][i] + 1 ELSE ran[r][i]
  <2>1. j \in Ids
    <3>1. MaxThreads \in Nat /\ Regions[region].threads \in Nat \ {0} /\ Regions[region].threads <= MaxThreads
      BY <1>2, RoomForAll, Sizes
    <3> QED BY <1>1, <1>5, <3>1 DEF Members, Ids
  <2>2. ran \in [RegionIds -> [Ids -> Nat]] /\ ran' = [ran EXCEPT ![region][j] = ran[region][j] + 1]
    BY <1>1, <1>2, <1>3, <1>6 DEF TypeOK
  <2> QED BY <1>2, <2>1, <2>2
<1>8. /\ ~Arrived(t, Dock) /\ ~Opening(t, Dock) /\ ~Arrived(t, Dock)' /\ ~Opening(t, Dock)'
      /\ ~Arrived(t, team) /\ ~Opening(t, team) /\ ~Arrived(t, team)' /\ ~Opening(t, team)'
      /\ At(t, team)' /\ ~At(t, team) /\ Here(t, team)'
  BY <1>2, <1>3 DEF Arrived, Opening, Here, At, Barriers
<1>9. Members(c, who)'
  <2>1. j # 0 => pool'.threads[j] = t
    BY <1>1, <1>2, <1>3, <1>5 DEF Members
  <2> QED BY <1>1, <1>3, <1>5, <2>1, MemberMoves
<1>10. CASE stage = "run"
  <2>1. Run(c, who)
    BY <1>10 DEF Inv, Staged
  <2>2. IF t = Master THEN MasterRuns' ELSE WorkerRuns(t)'
    <3>1. CASE t = Master
      BY <1>2, <1>3, <1>8, <2>1, <3>1 DEF Run, MasterRuns, LetGo, Full, Here, At
    <3>2. CASE t # Master
      <4>1. WorkerRuns(t)
        BY <1>5, <2>1, <3>2 DEF Run
      <4> QED BY <1>2, <1>3, <1>8, <3>2, <4>1 DEF WorkerRuns, LetGo, Here, At, Barriers
    <3> QED BY <3>1, <3>2
  <2>3. Counts("run", who)'
    <3>1. \A i \in 0 .. c - 1 : /\ HasRun("run", i, who)' <=> (HasRun("run", i, who) \/ i = j)
                                /\ i = j => ~HasRun("run", i, who)
      <4> SUFFICES ASSUME NEW i \in 0 .. c - 1
                   PROVE  /\ HasRun("run", i, who)' <=> (HasRun("run", i, who) \/ i = j)
                          /\ i = j => ~HasRun("run", i, who)
        OBVIOUS
      <4>1. pc'[Master] # "team_end" /\ pc[Master] # "team_end"
        <5>1. pc[Master] # "team_end"
          BY <2>1 DEF Run, MasterRuns, LetGo, Here, At, Barriers
        <5> QED BY <1>1, <1>3, <5>1 DEF OthersStay, Same
      <4>2. CASE i = j
        BY <1>5, <1>8, <4>1, <4>2 DEF HasRun
      <4>3. CASE i # j
        <5>1. who[i] # t /\ Same(who[i])
          BY <1>1, <1>3, <1>5, <4>3 DEF Apart, OthersStay
        <5>2. At(who[i], team)' <=> At(who[i], team)
          BY <1>3, <5>1 DEF At, Same
        <5> QED BY <4>1, <4>3, <5>2 DEF HasRun
      <4> QED BY <4>2, <4>3
    <3>2. \A r \in RegionIds : \A i \in Ids : r = region /\ i < Regions[r].threads => i \in 0 .. c - 1
      BY <1>1, <2>1, RoomForAll, Sizes DEF Run, Size, Ids
    <3>3. j < Regions[region].threads
      BY <1>1, <2>1, Sizes DEF Run, Size
    <3>4. \A r \in RegionIds : \A i \in Ids :
            ran[r][i] = IF i < Regions[r].threads /\ (r < region \/ (r = region /\ HasRun("run", i, who)))
                        THEN 1 ELSE 0
      BY <1>1, <1>10 DEF Counts
    <3>5. region \in Nat /\ RegionIds \subseteq Nat
      BY <1>2, Sizes
    <3>6. \A r \in RegionIds : \A i \in Ids :
            ran'[r][i] = IF i < Regions[r].threads /\ (r < region \/ (r = region /\ HasRun("run", i, who)'))
                         THEN 1 ELSE 0
      BY <1>7, <3>1, <3>2, <3>3, <3>4, <3>5
    <3> QED BY <1>3, <3>6 DEF Counts
  <2>4. Inv("run", c, who)
    BY <1>10
  <2>5. Inv("run", c, who)'
    BY <1>3, <1>5, <1>8, <2>2, <2>3, <2>4, RunMoves
  <2> QED BY <1>10, <2>5
<1>11. CASE stage = "gather"
  <2>1. Gather(c, who)
    BY <1>11 DEF Inv, Staged
  <2>2. t = Master
    <3>1. ASSUME t # Master
          PROVE  FALSE
      <4>1. WorkerGathers(j, t)
        BY <1>5, <2>1, <3>1 DEF Gather
      <4> QED BY <1>2, <4>1 DEF WorkerGathers, Here, At, Barriers
    <3> QED BY <3>1
  <2>3. Alone /\ c = Known /\ j = 0 /\ Size = 1
    BY <1>2, <1>5, <2>1, <2>2 DEF Gather, MasterGathers, Ending, Here, At, Barriers, Alone
  <2>4. Quiet
    BY <1>1, <1>3, <2>2 DEF OthersStay, Same, Quiet
  <2>5. ~Ending /\ ~Ending' /\ Kept' = Kept
    <3>1. ~Ending /\ ~Ending'
      BY <1>3, <2>3 DEF Ending, Several
    <3> QED BY <1>3, <3>1 DEF Kept
  <2>6. ~Creating /\ \A i : Given(i) = NULL /\ Given(i)' = NULL
    BY <1>1, <1>2, <1>3, <2>2 DEF Creating, Given, At, Barriers
  <2>7. \A i \in 1 .. c - 1 : WorkerGathers(i, who[i])'
    <3>1. \A i \in 1 .. c - 1 : Told(i, who[i]) => Told(i, who[i])'
      BY <1>3, <2>6 DEF Told
    <3>2. Inv("gather", c, who)
      BY <1>11
    <3> QED BY <1>3, <2>4, <2>5, <2>6, <3>1, <3>2, WorkersStay
  <2>8. IF Used' = 0 THEN \A w \in Workers : pc'[w] = "unborn" ELSE Round(Dock, Expected(c), c, who)'
    <3>1. CASE Used = 0
      BY <1>3, <2>1, <2>4, <3>1 DEF Gather, Quiet
    <3>2. CASE Used # 0
      <4>1. Round(Dock, c, c, who) /\ Expected(c)' = c /\ c \in Nat
        BY <1>1, <1>2, <1>3, <1>11, <2>2, <3>2, DockRound DEF Expected
      <4>2. Round(Dock, c, c, who)'
        BY <1>1, <1>3, <1>8, <2>2, <2>4, <4>1, DockStays
      <4> QED BY <1>3, <3>2, <4>1, <4>2
    <3> QED BY <3>1, <3>2
  <2>9. MasterGathers(c)'
    BY <1>1, <1>2, <1>3, <1>8, <2>2, <2>3 DEF MasterGathers
  <2>10. Full(team, Size)'
    BY <1>1, <1>2, <1>3, <2>1, <2>2 DEF Gather, Full, Opening
  <2>11. Gather(c, who)'
    BY <1>3, <2>2, <2>7, <2>8, <2>9, <2>10 DEF Gather
  <2>12. Teams'
    BY <1>2, <1>3, <2>2, TeamsStay
  <2>13. Counts("gather", who)'
    <3>1. (\A i : HasRun("gather", i, who)') /\ (\A i : ~HasRun("gather", i, who))
      BY <1>2, <1>8, <2>2 DEF HasRun, At, Barriers
    <3>2. \A r \in RegionIds : \A i \in Ids : r = region /\ i < Regions[r].threads => i = 0
      BY <2>3, RoomForAll, Sizes DEF Size, Ids
    <3>3. \A r \in RegionIds : \A i \in Ids :
            ran[r][i] = IF i < Regions[r].threads /\ (r < region \/ (r = region /\ HasRun("gather", i, who)))
                        THEN 1 ELSE 0
      BY <1>1, <1>11 DEF Counts
    <3>4. region \in Nat /\ RegionIds \subseteq Nat /\ 0 < Regions[region].threads
      BY <1>2, Sizes
    <3>5. \A r \in RegionIds : \A i \in Ids :
            ran'[r][i] = IF i < Regions[r].threads /\ (r < region \/ (r = region /\ HasRun("gather", i, who)'))
                         THEN 1 ELSE 0
      BY <1>7, <2>3, <3>1, <3>2, <3>3, <3>4
    <3> QED BY <1>3, <3>5 DEF Counts
  <2> QED BY <1>9, <1>11, <2>11, <2>12, <2>13 DEF Inv, Staged
<1> QED BY <1>4, <1>10, <1>11

LEMMA ThreadStartStep ==
  ASSUME NEW stage \in Stages, NEW c, NEW who, Inv(stage, c, who), TypeOK', NEW w \in Workers, ThreadStart(w)
  PROVE  Inv(stage, c, who)'
<1>1. /\ TypeOK /\ Members(c, who) /\ Apart(c, who) /\ c \in Nat \ {0}
      /\ Master \in Threads /\ Workers \subseteq Threads /\ Master \notin Workers
      /\ who[0] = Master /\ (\A i \in 1 .. c - 1 : who[i] \in Workers)
  BY Basics
<1>2. PICK j \in 1 .. c - 1 : w = who[j]
  BY <1>1 DEF Members, Outside, LetGo, ThreadStart
<1>3. /\ pc[w] = "start" /\ pc'[w] = "load" /\ at'[w] = Dock /\ ret'[w] = "body"
      /\ OthersStay(w) /\ thr' = thr /\ local' = local /\ bar' = bar /\ status' = status /\ ran' = ran
      /\ region' = region /\ team' = team /\ index' = index /\ old_threads_used' = old_threads_used
      /\ pool' = [pool EXCEPT !.threads[thr[w].id] = w]
  BY <1>1 DEF ThreadStart, Enter, Goto, TypeOK, masterVars, OthersStay, Same
<1>4. thr[w].id = j /\ j \in Ids
  BY <1>1, <1>2 DEF Members
<1>5. /\ pool'.threads_used = pool.threads_used /\ pool'.last_team = pool.last_team /\ pool'.freed = pool.freed
      /\ pool'.threads[j] = w
      /\ \A i \in 1 .. c - 1 : i # j => pool'.threads[i] = pool.threads[i]
  <2>1. pool \in Pools /\ pool.threads \in [Ids -> Workers \cup {NoThread}]
    BY <1>1, PoolsChange DEF TypeOK
  <2>2. pool' = [pool EXCEPT !.threads = [pool.threads EXCEPT ![j] = w]]
    BY <1>3, <1>4, <2>1 DEF Pools
  <2>3. \A i \in 1 .. c - 1 : i \in Ids
    BY <1>1 DEF Members
  <2> QED BY <1>4, <2>1, <2>2, <2>3 DEF Pools
<1>6. stage = "gather"
  <2>1. CASE stage = "run"
    BY <1>2, <1>3, <2>1 DEF Inv, Staged, Run, WorkerRuns, LetGo, Here, At, Barriers
  <2>2. CASE stage = "exit"
    BY <1>2, <1>3, <2>2 DEF Inv, Staged, Exit, WorkerExits, LetGo, Here, At, Barriers
  <2>3. CASE stage = "over"
    BY <1>2, <2>3 DEF Inv, Staged, Over
  <2> QED BY <2>1, <2>2, <2>3 DEF Stages
<1>7. Members(c, who)'
  <2>1. j \in 0 .. c - 1 /\ j # 0
    BY <1>1
  <2> QED BY <1>1, <1>2, <1>3, <1>5, <2>1, MemberMoves
<1>8. Same(Master)
  BY <1>1, <1>3 DEF OthersStay
<1>9. WorkerGathers(j, w)'
  <2>1. WorkerGathers(j, w)
    BY <1>2, <1>6 DEF Inv, Staged, Gather
  <2>2. Creating /\ local[w] = [fn |-> region, team |-> team] /\ thr[w].fn = NULL /\ j >= Older
    BY <1>3, <2>1 DEF WorkerGathers, Here, At, Barriers
  <2>3. Creating' /\ Older' = Older
    BY <1>3, <1>5, <1>8, <2>2, MasterStays
  <2>4. Here(w, Dock)'
    BY <1>3 DEF Here, At, Barriers
  <2> QED BY <1>3, <2>2, <2>3, <2>4 DEF WorkerGathers
<1>10. ~Arrived(w, Dock) /\ ~Opening(w, Dock) /\ ~Arrived(w, Dock)' /\ ~Opening(w, Dock)'
  BY <1>3 DEF Arrived, Opening, Here, At, Barriers
<1>11. \A i \in 1 .. c - 1 : w = who[i] => WorkerGathers(i, w)'
  <2>1. \A i \in 1 .. c - 1 : w = who[i] => i = j
    BY <1>1, <1>2 DEF Members
  <2> QED BY <1>9, <2>1
<1>12. Inv("gather", c, who)
  BY <1>6
<1>13. Inv("gather", c, who)'
  BY <1>3, <1>5, <1>7, <1>10, <1>11, <1>12, GatherMoves
<1> QED BY <1>6, <1>13

LEMMA FinishTaskStep ==
  ASSUME NEW stage \in Stages, NEW c, NEW who, Inv(stage, c, who), TypeOK', NEW w \in Workers, FinishTask(w)
  PROVE  Inv(stage, c, who)'
<1>1. /\ TypeOK /\ Members(c, who) /\ Apart(c, who) /\ c \in Nat \ {0}
      /\ Master \in Threads /\ Workers \subseteq Threads /\ Master \notin Workers
      /\ who[0] = Master /\ (\A i \in 1 .. c - 1 : who[i] \in Workers)
  BY Basics
<1>2. PICK j \in 1 .. c - 1 : w = who[j]
  BY <1>1 DEF Members, Outside, LetGo, FinishTask
<1>3. /\ pc[w] = "finish_task" /\ pc'[w] = "load" /\ at'[w] = Dock /\ ret'[w] = "undock"
      /\ OthersStay(w) /\ thr' = thr /\ local' = local /\ bar' = bar /\ status' = status /\ ran' = ran
      /\ region' = region /\ team' = team /\ index' = index /\ old_threads_used' = old_threads_used
      /\ pool' = pool
  BY <1>1 DEF FinishTask, Enter, Goto, TypeOK, masterVars, OthersStay, Same
<1>4. stage = "gather"
  <2>1. CASE stage = "run"
    BY <1>2, <1>3, <2>1 DEF Inv, Staged, Run, WorkerRuns, LetGo, Here, At, Barriers
  <2>2. CASE stage = "exit"
    BY <1>2, <1>3, <2>2 DEF Inv, Staged, Exit, WorkerExits, LetGo, Here, At, Barriers
  <2>3. CASE stage = "over"
    BY <1>2, <2>3 DEF Inv, Staged, Over
  <2> QED BY <2>1, <2>2, <2>3 DEF Stages
<1>5. Members(c, who)'
  <2>1. j \in 0 .. c - 1 /\ j # 0 /\ pool'.threads[j] = w
    BY <1>1, <1>2, <1>3 DEF Members
  <2> QED BY <1>1, <1>2, <1>3, <2>1, MemberMoves
<1>6. Same(Master)
  BY <1>1, <1>3 DEF OthersStay
<1>7. WorkerGathers(j, w)'
  <2>1. WorkerGathers(j, w)
    BY <1>2, <1>4 DEF Inv, Staged, Gather
  <2>2. Told(j, w)
    BY <1>3, <2>1 DEF WorkerGathers, Here, At, Barriers
  <2>3. Told(j, w)'
    BY <1>3, <1>6, <2>2, MasterStays DEF Told
  <2>4. Here(w, Dock)'
    BY <1>3 DEF Here, At, Barriers
  <2> QED BY <1>3, <2>3, <2>4 DEF WorkerGathers
<1>8. ~Arrived(w, Dock) /\ ~Opening(w, Dock) /\ ~Arrived(w, Dock)' /\ ~Opening(w, Dock)'
  BY <1>3 DEF Arrived, Opening, Here, At, Barriers
<1>9. \A i \in 1 .. c - 1 : w = who[i] => WorkerGathers(i, w)'
  <2>1. \A i \in 1 .. c - 1 : w = who[i] => i = j
    BY <1>1, <1>2 DEF Members
  <2> QED BY <1>7, <2>1
<1>10. Inv("gather", c, who)
  BY <1>4
<1>11. Inv("gather", c, who)'
  BY <1>3, <1>5, <1>8, <1>9, <1>10, GatherMoves
<1> QED BY <1>4, <1>11

LEMMA UndockStep ==
  ASSUME NEW stage \in Stages, NEW c, NEW who, Inv(stage, c, who), TypeOK', NEW w \in Workers, Undock(w)
  PROVE  Inv(stage, c, who)'
<1>1. /\ TypeOK /\ Members(c, who) /\ Apart(c, who) /\ c \in Nat \ {0} /\ Counts(stage, who)
      /\ Master \in Threads /\ Workers \subseteq Threads /\ Master \notin Workers
      /\ who[0] = Master /\ (\A i \in 1 .. c - 1 : who[i] \in Workers)
      /\ TeamIds = RegionIds /\ NULL # Helper /\ NULL \notin RegionIds /\ Helper \notin RegionIds
      /\ Dock \notin TeamIds
  BY Basics, Sizes
<1>2. /\ pc[w] = "undock" /\ OthersStay(w) /\ bar' = bar /\ status' = status /\ ran' = ran
      /\ region' = region /\ team' = team /\ index' = index /\ old_threads_used' = old_threads_used
      /\ pool' = pool /\ UNCHANGED masterVars
      /\ local'[w] = [fn |-> thr[w].fn, team |-> thr[w].team]
      /\ thr'[w].id = thr[w].id /\ thr'[w].fn = NULL
      /\ thr[w].fn = NULL => pc'[w] = "gone"
      /\ thr[w].fn = Helper => pc'[w] = "load" /\ at'[w] = Dock /\ ret'[w] = "gone"
      /\ thr[w].fn \notin {NULL, Helper} => pc'[w] = "body"
  <2>1. /\ pc[w] = "undock" /\ bar' = bar /\ status' = status /\ ran' = ran
        /\ region' = region /\ team' = team /\ index' = index /\ old_threads_used' = old_threads_used
        /\ pool' = pool /\ UNCHANGED masterVars
    BY DEF Undock, masterVars
  <2>2. /\ \A u \in Threads \ {w} : local'[u] = local[u] /\ thr'[u] = thr[u]
        /\ local'[w] = [fn |-> thr[w].fn, team |-> thr[w].team]
        /\ thr'[w] = [thr[w] EXCEPT !.fn = NULL]
    BY <1>1 DEF Undock, TypeOK
  <2>3. thr'[w].id = thr[w].id /\ thr'[w].fn = NULL
    <3>1. thr[w] \in Records
      BY <1>1 DEF TypeOK
    <3> QED BY <2>2, <3>1 DEF Records
  <2>4. /\ \A u \in Threads \ {w} : pc'[u] = pc[u] /\ at'[u] = at[u] /\ ret'[u] = ret[u] /\ seen'[u] = seen[u]
        /\ thr[w].fn = NULL => pc'[w] = "gone"
        /\ thr[w].fn = Helper => pc'[w] = "load" /\ at'[w] = Dock /\ ret'[w] = "gone"
        /\ thr[w].fn \notin {NULL, Helper} => pc'[w] = "body"
    BY <1>1 DEF Undock, Enter, Goto, TypeOK
  <2> QED BY <2>1, <2>2, <2>3, <2>4 DEF OthersStay, Same
<1>3. CASE Outside(w) /\ \A i \in 1 .. c - 1 : who[i] # w
  <2>1. thr[w].fn = NULL
    BY <1>2, <1>3 DEF Outside, LetGo
  <2>2. Outside(w)'
    BY <1>2, <2>1 DEF Outside
  <2> QED BY <1>2, <1>3, <2>2, OutsideMoves
<1>4. CASE \E j \in 1 .. c - 1 : w = who[j]
  <2>1. PICK j \in 1 .. c - 1 : w = who[j]
    BY <1>4
  <2>2. j \in 0 .. c - 1 /\ w # Master
    BY <1>1, <2>1
  <2>3. CASE stage = "gather"
    BY <1>2, <2>1, <2>3 DEF Inv, Staged, Gather, WorkerGathers, Here, At, Barriers
  <2>4. CASE stage = "run"
    <3>1. WorkerRuns(w) /\ Run(c, who)
      BY <2>1, <2>4 DEF Inv, Staged, Run
    <3>2. thr[w].fn = region /\ thr[w].team = team /\ region \in RegionIds
      BY <1>2, <3>1 DEF WorkerRuns, LetGo, Here, At, Barriers, Run, Several
    <3>3. pc'[w] = "body" /\ local'[w] = [fn |-> region, team |-> team]
      BY <1>1, <1>2, <3>2
    <3>4. WorkerRuns(w)'
      BY <1>2, <3>3 DEF WorkerRuns
    <3>5. /\ ~Arrived(w, team) /\ ~Opening(w, team) /\ ~Arrived(w, team)' /\ ~Opening(w, team)'
          /\ ~At(w, team) /\ ~At(w, team)'
      BY <1>2, <3>3 DEF Arrived, Opening, Here, At, Barriers
    <3>6. Counts("run", who)'
      <4>1. \A i \in 0 .. c - 1 : HasRun("run", i, who)' <=> HasRun("run", i, who)
        <5> SUFFICES ASSUME NEW i \in 0 .. c - 1
                     PROVE  HasRun("run", i, who)' <=> HasRun("run", i, who)
          OBVIOUS
        <5>1. pc'[Master] = pc[Master]
          BY <1>1, <1>2 DEF OthersStay, Same
        <5>2. At(who[i], team)' <=> At(who[i], team)
          <6>1. CASE who[i] = w
            BY <3>5, <6>1
          <6>2. CASE who[i] # w
            <7>1. Same(who[i])
              BY <1>1, <1>2, <6>2 DEF OthersStay, Apart
            <7> QED BY <1>2, <7>1 DEF At, Same
          <6> QED BY <6>1, <6>2
        <5> QED BY <5>1, <5>2 DEF HasRun
      <4>2. \A r \in RegionIds : \A i \in Ids : r = region /\ i < Regions[r].threads => i \in 0 .. c - 1
        BY <1>1, <3>1, RoomForAll, Sizes DEF Run, Size, Ids
      <4> QED BY <1>1, <1>2, <2>4, <4>1, <4>2 DEF Counts
    <3>7. Inv("run", c, who)
      BY <2>4
    <3>8. Inv("run", c, who)'
      BY <1>2, <2>1, <2>2, <3>4, <3>5, <3>6, <3>7, RunMoves
    <3> QED BY <2>4, <3>8
  <2>5. CASE stage = "exit"
    <3>1. WorkerExits(w)
      BY <2>1, <2>5 DEF Inv, Staged, Exit
    <3>2. thr[w].fn = Helper
      BY <1>2, <3>1 DEF WorkerExits, LetGo, Here, At, Barriers
    <3>3. WorkerExits(w)'
      BY <1>2, <3>2 DEF WorkerExits, Here, At, Barriers
    <3>4. ~Arrived(w, Dock) /\ ~Opening(w, Dock) /\ ~Arrived(w, Dock)' /\ ~Opening(w, Dock)'
      BY <1>2, <3>2 DEF Arrived, Opening, Here, At, Barriers
    <3>5. Inv("exit", c, who)
      BY <2>5
    <3>6. Inv("exit", c, who)'
      BY <1>2, <2>1, <2>2, <3>3, <3>4, <3>5, ExitMoves
    <3> QED BY <2>5, <3>6
  <2>6. CASE stage = "over"
    BY <2>1, <2>6 DEF Inv, Staged, Over
  <2> QED BY <2>3, <2>4, <2>5, <2>6 DEF Stages
<1> QED BY <1>1, <1>3, <1>4, MemberOrOutside

-----------------------------------------------------------------------------
(* The master starts a team. *)

LEMMA MasterStage ==
  ASSUME NEW stage \in Stages, NEW c, NEW who, Inv(stage, c, who)
  PROVE  /\ pc[Master] \in {"idle", "free_threads", "team_start", "assign", "create", "team_end"}
              => stage = "gather" /\ Gather(c, who)
         /\ pc[Master] = "docked" => stage = "run" /\ Run(c, who)
         /\ pc[Master] = "undocked" => stage = "exit" /\ Exit(c, who)
         /\ pc[Master] \in {"unmanage", "free_pool", "gone"} => stage = "over" /\ Over(c)
<1>1. CASE stage = "gather"
  <2>1. Gather(c, who) /\ MasterGathers(c)
    BY <1>1 DEF Inv, Staged, Gather
  <2> QED BY <1>1, <2>1 DEF MasterGathers, Ending, Here, At, Barriers
<1>2. CASE stage = "run"
  <2>1. Run(c, who) /\ MasterRuns
    BY <1>2 DEF Inv, Staged, Run
  <2> QED BY <1>2, <2>1 DEF MasterRuns, LetGo, Here, At, Barriers
<1>3. CASE stage = "exit"
  <2>1. Exit(c, who) /\ MasterExits
    BY <1>3 DEF Inv, Staged, Exit
  <2> QED BY <1>3, <2>1 DEF MasterExits, LetGo, Here, At, Barriers
<1>4. CASE stage = "over"
  <2>1. Over(c)
    BY <1>4 DEF Inv, Staged
  <2> QED BY <1>4, <2>1 DEF Over, LetGo
<1> QED BY <1>1, <1>2, <1>3, <1>4 DEF Stages

(* What all of the master's steps here have in common. *)
LEMMA GatherBasics ==
  ASSUME NEW stage \in Stages, NEW c, NEW who, Inv(stage, c, who),
         pc[Master] \in {"idle", "free_threads", "team_start", "assign", "create", "team_end"}
  PROVE  /\ stage = "gather" /\ Inv("gather", c, who) /\ Gather(c, who) /\ MasterGathers(c)
         /\ Counts("gather", who)
         /\ team # NoTeam => Full(team, Size)
         /\ ~Arrived(Master, Dock) /\ ~Opening(Master, Dock)
         /\ Kept \in TeamIds \cup {NoTeam} /\ pool.last_team \in TeamIds \cup {NoTeam}
         /\ \A b : ~At(Master, b)
<1>1. stage = "gather" /\ Gather(c, who)
  BY MasterStage
<1>2. MasterGathers(c) /\ Inv("gather", c, who)
  BY <1>1 DEF Gather
<1>3. Counts("gather", who)
  BY <1>2 DEF Inv
<1>4. ~Arrived(Master, Dock) /\ ~Opening(Master, Dock) /\ ~Opening(Master, team) /\ \A b : ~At(Master, b)
  BY DEF Arrived, Opening, Here, At, Barriers
<1>5. team # NoTeam => Full(team, Size)
  BY <1>1, <1>4 DEF Gather
<1> QED BY <1>1, <1>2, <1>3, <1>4, <1>5, KeptInTeams

LEMMA NewTeamStep ==
  ASSUME WholeTeams, NEW stage \in Stages, NEW c, NEW who, Inv(stage, c, who), TypeOK', NewTeam
  PROVE  Inv("gather", c, who)'
<1>1. /\ TypeOK /\ Members(c, who) /\ Teams /\ c \in Nat \ {0}
      /\ Master \in Threads /\ Workers \subseteq Threads /\ Master \notin Workers
      /\ TeamIds = RegionIds /\ Dock \notin TeamIds /\ NoTeam \notin TeamIds /\ Dock # NoTeam
      /\ region \in Nat /\ (region \in RegionIds => Size \in Nat \ {0}) /\ RegionIds \subseteq Nat
  BY Basics, Sizes
<1>2. /\ stage = "gather" /\ Inv("gather", c, who) /\ Gather(c, who) /\ MasterGathers(c) /\ Counts("gather", who)
      /\ ~Arrived(Master, Dock) /\ ~Opening(Master, Dock)
      /\ Kept \in TeamIds \cup {NoTeam} /\ pool.last_team \in TeamIds \cup {NoTeam}
      /\ \A b : ~At(Master, b)
  BY GatherBasics DEF NewTeam
<1>3. /\ pc[Master] = "idle" /\ region \in RegionIds /\ pc'[Master] = "team_start"
      /\ \A w \in Workers : pc'[w] = pc[w]
      /\ region' = region /\ index' = index /\ old_threads_used' = old_threads_used
      /\ at' = at /\ ret' = ret /\ seen' = seen /\ thr' = thr /\ local' = local /\ ran' = ran
      /\ Size' = Size
  BY <1>1 DEF NewTeam, Goto, TypeOK, Size
<1>4. team = NoTeam /\ c = Known
  BY <1>2, <1>3 DEF MasterGathers, Here, At, Barriers, Ending, Alone
<1>5. Regions[region].team = Size
  BY <1>3 DEF WholeTeams, Size
<1>6. /\ pool'.threads_used = pool.threads_used /\ pool'.threads = pool.threads /\ pool'.freed = pool.freed
      /\ team' \in TeamIds
      /\ \/ /\ pool.last_team # NoTeam /\ bar[pool.last_team].total = Size
            /\ team' = pool.last_team /\ pool'.last_team = NoTeam /\ bar' = bar /\ status' = status
         \/ /\ team' = region /\ pool' = pool /\ bar'[region] = NewBarrier(Size)
            /\ \A b \in TeamIds \cup {Dock} : b # region => bar'[b] = bar[b]
            /\ status'[region] = "live" /\ \A k \in TeamIds : k # region => status'[k] = status[k]
  <2>1. pool \in Pools
    BY <1>1 DEF TypeOK
  <2>2. CASE pool.last_team # NoTeam /\ bar[pool.last_team].total = Regions[region].team
    <3>1. team' = pool.last_team /\ pool' = [pool EXCEPT !.last_team = NoTeam] /\ bar' = bar /\ status' = status
      BY <2>2 DEF NewTeam
    <3>2. /\ pool'.threads_used = pool.threads_used /\ pool'.threads = pool.threads /\ pool'.freed = pool.freed
          /\ pool'.last_team = NoTeam
      BY <2>1, <3>1 DEF Pools
    <3> QED BY <1>2, <1>5, <2>2, <3>1, <3>2
  <2>3. CASE ~(pool.last_team # NoTeam /\ bar[pool.last_team].total = Regions[region].team)
    <3>1. /\ team' = region /\ pool' = pool
          /\ bar' = [bar EXCEPT ![region] = NewBarrier(Size)]
          /\ status' = [status EXCEPT ![region] = "live"]
      BY <1>5, <2>3 DEF NewTeam
    <3> QED BY <1>1, <1>3, <3>1 DEF TypeOK
  <2> QED BY <2>2, <2>3
<1>7. bar'[Dock] = bar[Dock] /\ Quiet
  BY <1>1, <1>3, <1>6 DEF Quiet
<1>8. Used' = Used /\ Known' = Known /\ Older' = Older
  BY <1>3, <1>6 DEF Used, Known, Older
<1>9. Members(c, who)'
  BY <1>1, <1>3, <1>6, <1>7, MembersStay
<1>10. /\ ~Ending /\ ~Ending' /\ Kept = pool.last_team
       /\ Kept # NoTeam => Kept' = Kept /\ (Alone' => Kept' # team') /\ bar'[Kept] = bar[Kept]
  <2>1. ~Ending /\ ~Ending'
    BY <1>3 DEF Ending
  <2>2. Kept = pool.last_team
    BY <1>4, <2>1 DEF Kept
  <2>3. ASSUME Kept # NoTeam
        PROVE  Kept' = Kept /\ (Alone' => Kept' # team') /\ bar'[Kept] = bar[Kept]
    <3>1. pool.last_team < region /\ bar[pool.last_team].total > 1
      BY <1>1, <2>2, <2>3 DEF Teams
    <3>2. Kept \in Nat /\ Kept # region
      BY <1>1, <1>2, <2>2, <2>3, <3>1
    <3>3. bar'[Kept] = bar[Kept]
      <4>1. Kept \in TeamIds \cup {Dock}
        BY <1>2, <2>3
      <4>2. bar' = bar \/ \A b \in TeamIds \cup {Dock} : b # region => bar'[b] = bar[b]
        BY <1>6
      <4> QED BY <3>2, <4>1, <4>2
    <3>4. CASE team' = pool.last_team /\ bar[pool.last_team].total = Size /\ pool'.last_team = NoTeam
      <4>1. ~Alone'
        BY <1>3, <3>1, <3>4 DEF Alone
      <4> QED BY <2>1, <2>2, <3>3, <3>4, <4>1 DEF Kept
    <3>5. CASE team' = region /\ pool' = pool
      BY <2>1, <2>2, <2>3, <3>2, <3>3, <3>5 DEF Kept
    <3> QED BY <1>6, <3>4, <3>5
  <2> QED BY <2>1, <2>2, <2>3
<1>11. ~Creating /\ \A i : Given(i) = NULL /\ Given(i)' = NULL
  BY <1>2, <1>3 DEF Creating, Given, At, Barriers
<1>12. \A i \in 1 .. c - 1 : WorkerGathers(i, who[i])'
  <2>1. \A i \in 1 .. c - 1 : Told(i, who[i]) => Told(i, who[i])'
    BY <1>3, <1>11, Sizes DEF Told
  <2> QED BY <1>2, <1>7, <1>10, <1>11, <2>1, WorkersStay
<1>13. ~Arrived(Master, Dock)' /\ ~Opening(Master, Dock)'
  BY <1>3 DEF Arrived, Opening, Here, At, Barriers
<1>14. IF Used' = 0 THEN \A w \in Workers : pc'[w] = "unborn" ELSE Round(Dock, Expected(c), c, who)'
  <2>1. CASE Used = 0
    BY <1>2, <1>3, <1>8, <2>1 DEF Gather
  <2>2. CASE Used # 0
    <3>1. Round(Dock, c, c, who) /\ c \in Nat /\ Expected(c)' = c
      BY <1>1, <1>2, <1>3, <2>2, DockRound DEF Expected
    <3>2. Round(Dock, c, c, who)'
      BY <1>1, <1>2, <1>7, <1>13, <3>1, DockStays
    <3> QED BY <1>8, <2>2, <3>1, <3>2
  <2> QED BY <2>1, <2>2
<1>15. Full(team, Size)'
  <2>1. CASE team' = region /\ bar'[region] = NewBarrier(Size)
    BY <1>3, <2>1 DEF Full, NewBarrier
  <2>2. CASE pool.last_team # NoTeam /\ bar[pool.last_team].total = Size /\ team' = pool.last_team /\ bar' = bar
    BY <1>1, <1>3, <2>2 DEF Full, Teams
  <2> QED BY <1>6, <2>1, <2>2
<1>16. MasterGathers(c)'
  BY <1>1, <1>3, <1>4, <1>6, <1>8 DEF MasterGathers
<1>17. Gather(c, who)'
  BY <1>3, <1>12, <1>14, <1>15, <1>16 DEF Gather
<1>18. Teams'
  <2>1. pool.last_team # NoTeam => /\ pool.last_team < region /\ pool.last_team \in Nat
                                   /\ status[pool.last_team] = "live"
                                   /\ bar[pool.last_team].total > 1
                                   /\ Full(pool.last_team, bar[pool.last_team].total)
    BY <1>1, <1>2, <1>3 DEF Teams
  <2>2. pool'.freed = FALSE /\ Used' # 1
    <3>1. pool.freed \in BOOLEAN
      BY <1>1, PoolsChange DEF TypeOK
    <3> QED BY <1>1, <1>3, <1>6, <1>8, <3>1 DEF Teams
  <2>3. CASE team' = pool.last_team /\ pool'.last_team = NoTeam /\ status' = status /\ pool.last_team # NoTeam
    BY <1>1, <1>3, <2>1, <2>2, <2>3 DEF Teams
  <2>4. CASE /\ team' = region /\ pool' = pool
             /\ \A b \in TeamIds \cup {Dock} : b # region => bar'[b] = bar[b]
             /\ status'[region] = "live" /\ \A k \in TeamIds : k # region => status'[k] = status[k]
    <3>1. pool.last_team # NoTeam => /\ bar'[pool.last_team] = bar[pool.last_team]
                                     /\ status'[pool.last_team] = "live" /\ pool.last_team # region
      BY <1>1, <1>2, <2>1, <2>4
    <3> QED BY <1>1, <1>3, <2>1, <2>2, <2>4, <3>1 DEF Teams, Full
  <2> QED BY <1>6, <2>3, <2>4
<1>19. Counts("gather", who)'
  <2>1. \A i : ~HasRun("gather", i, who) /\ ~HasRun("gather", i, who)'
    BY <1>2, <1>3 DEF HasRun, At, Barriers
  <2> QED BY <1>2, <1>3, <2>1 DEF Counts
<1> QED BY <1>9, <1>17, <1>18, <1>19 DEF Inv, Staged

LEMMA GapSize ==
  ASSUME NEW n \in Nat, NEW m \in Nat, n <= m
  PROVE  IsFiniteSet(n .. m - 1) /\ Cardinality(n .. m - 1) = m - n
<1>1. m - 1 \in Int /\ n \in Int
  OBVIOUS
<1>2. IsFiniteSet(n .. m - 1)
  BY <1>1, FS_Interval
<1>3. Cardinality(n .. m - 1) = IF n > m - 1 THEN 0 ELSE m - 1 - n + 1
  BY <1>1, FS_Interval
<1> QED BY <1>2, <1>3

(* The threads that are missing, and those beyond number n. *)
LEMMA MissingAndGap ==
  ASSUME NEW b, NEW n \in Nat, NEW m \in Nat, n <= m, NEW c, NEW who
  PROVE  Cardinality(Missing(b, n, c, who) \cup (n .. m - 1)) = Cardinality(Missing(b, n, c, who)) + m - n
<1>1. PICK M : M = Missing(b, n, c, who)
  OBVIOUS
<1>2. IsFiniteSet(M) /\ Cardinality(M) \in Nat
  BY <1>1, MissingFinite
<1>3. PICK N : N = n .. m - 1
  OBVIOUS
<1>4. IsFiniteSet(N) /\ Cardinality(N) = m - n
  BY <1>3, GapSize
<1>5. M \cap N = {}
  BY <1>1, <1>3 DEF Missing
<1>6. Cardinality(M \cup N) = Cardinality(M) + Cardinality(N) - Cardinality(M \cap N)
  BY <1>2, <1>4, FS_Union
<1>7. Cardinality(M \cap N) = 0
  BY <1>5, FS_EmptySet
<1>8. Cardinality(M \cup N) = Cardinality(M) + m - n
  BY <1>2, <1>4, <1>6, <1>7
<1> QED BY <1>1, <1>3, <1>8

(* The dock is made ready for more threads than it was.                    *)
LEMMA RoundGrows ==
  ASSUME NEW b, NEW n \in Nat, NEW m \in Nat, n <= m, NEW c \in Nat \ {0}, c <= n, NEW who,
         Round(b, n, c, who), ~Arrived(who[0], b),
         bar'[b].total = m, bar'[b].awaited = bar[b].awaited + m - n,
         \A i \in 0 .. c - 1 : /\ Arrived(who[i], b)' <=> Arrived(who[i], b)
                               /\ Opening(who[i], b)' <=> Opening(who[i], b)
  PROVE  Round(b, m, c, who)'
<1> DEFINE M == Missing(b, n, c, who)
           N == n .. m - 1
<1>1. 0 \in M /\ 0 \in 0 .. c - 1 /\ 0 \in 0 .. n - 1
  BY DEF Missing
<1>2. M # {} /\ \A i \in 0 .. c - 1 : ~Opening(who[i], b) /\ ~Opening(who[i], b)'
  BY <1>1 DEF Round
<1>3. bar[b].awaited = Cardinality(M)
  BY <1>2 DEF Round, Opening
<1>4. ~(\E i \in 0 .. c - 1 : at'[who[i]] = b /\ pc'[who[i]] = "open")
  BY <1>2 DEF Opening
<1>5. Missing(b, m, c, who)' = M \cup N
  BY DEF Missing
<1>6. Cardinality(M \cup N) = Cardinality(M) + m - n
  BY MissingAndGap
<1>7. bar'[b].awaited = Cardinality(Missing(b, m, c, who)')
  BY <1>3, <1>5, <1>6
<1> QED BY <1>2, <1>4, <1>7 DEF Round

(* A thread is created that the dock already waits for. *)
LEMMA RoundCreates ==
  ASSUME NEW b, NEW n \in Nat, NEW c \in Nat \ {0}, c < n, NEW who, NEW crew,
         Round(b, n, c, who), bar'[b] = bar[b],
         \A i \in 0 .. c - 1 : /\ crew[i] = who[i]
                               /\ Arrived(who[i], b)' <=> Arrived(who[i], b)
                               /\ Opening(who[i], b)' <=> Opening(who[i], b)
                               /\ (at'[who[i]] = b /\ pc'[who[i]] = "open")
                                    <=> (at[who[i]] = b /\ pc[who[i]] = "open"),
         ~Arrived(crew[c], b)', ~Opening(crew[c], b)'
  PROVE  Round(b, n, c + 1, crew)'
<1>1. Missing(b, n, c + 1, crew)' = Missing(b, n, c, who)
  BY DEF Missing
<1>2. 0 .. (c + 1) - 1 = 0 .. c - 1 \cup {c}
  OBVIOUS
<1>3. bar[b].total = n
  BY DEF Round
<1>4. \A i \in 0 .. (c + 1) - 1 : Opening(crew[i], b)' => Missing(b, n, c + 1, crew)' = {}
  BY <1>1, <1>2 DEF Round
<1>5. \A i, j \in 0 .. (c + 1) - 1 : Opening(crew[i], b)' /\ Opening(crew[j], b)' => i = j
  BY <1>2 DEF Round
<1>6. (\E i \in 0 .. (c + 1) - 1 : at'[crew[i]] = b /\ pc'[crew[i]] = "open")
        <=> (\E i \in 0 .. c - 1 : at[who[i]] = b /\ pc[who[i]] = "open")
  <2>1. ~(at'[crew[c]] = b /\ pc'[crew[c]] = "open")
    BY DEF Opening
  <2> QED BY <1>2, <2>1
<1>7. IF \E i \in 0 .. (c + 1) - 1 : at'[crew[i]] = b /\ pc'[crew[i]] = "open"
      THEN bar'[b].awaited = n
      ELSE bar'[b].awaited = Cardinality(Missing(b, n, c + 1, crew)')
  <2>1. IF \E i \in 0 .. c - 1 : at[who[i]] = b /\ pc[who[i]] = "open"
        THEN bar[b].awaited = n
        ELSE bar[b].awaited = Cardinality(Missing(b, n, c, who))
    BY DEF Round
  <2> QED BY <1>1, <1>6, <2>1
<1> QED BY <1>3, <1>4, <1>5, <1>7 DEF Round

LEMMA TeamStartStep ==
  ASSUME NEW stage \in Stages, NEW c, NEW who, Inv(stage, c, who), TypeOK', TeamStart
  PROVE  Inv("gather", c, who)'
<1>1. /\ TypeOK /\ Members(c, who) /\ Teams /\ c \in Nat \ {0}
      /\ Master \in Threads /\ Workers \subseteq Threads /\ Master \notin Workers
      /\ TeamIds = RegionIds /\ Dock \notin TeamIds /\ NoTeam \notin TeamIds /\ Dock # NoTeam
      /\ (region \in RegionIds => Size \in Nat \ {0}) /\ Used \in Nat
      /\ bar[Dock].awaited \in Int
  BY Basics
<1>2. /\ stage = "gather" /\ Inv("gather", c, who) /\ Gather(c, who) /\ MasterGathers(c) /\ Counts("gather", who)
      /\ team # NoTeam => Full(team, Size)
      /\ ~Arrived(Master, Dock) /\ ~Opening(Master, Dock)
      /\ Kept \in TeamIds \cup {NoTeam} /\ pool.last_team \in TeamIds \cup {NoTeam}
      /\ \A b : ~At(Master, b)
  BY GatherBasics DEF TeamStart
<1>3. /\ pc[Master] = "team_start" /\ pc'[Master] = "assign" /\ Size > 1
      /\ \A w \in Workers : pc'[w] = pc[w] /\ thr'[w] = thr[w]
      /\ thr'[Master].id = 0
      /\ region' = region /\ team' = team /\ index' = 1 /\ old_threads_used' = Used
      /\ at' = at /\ ret' = ret /\ seen' = seen /\ local' = local /\ ran' = ran /\ status' = status
      /\ Size' = Size
      /\ \A b \in TeamIds : bar'[b] = bar[b]
  BY <1>1 DEF TeamStart, Goto, TypeOK, Size, Used
<1>4. region \in RegionIds /\ team # NoTeam /\ c = Known
  BY <1>2, <1>3 DEF MasterGathers, Here, At, Barriers, Ending, Alone
<1>5. /\ Used' = Size /\ pool'.last_team = pool.last_team /\ pool'.threads = pool.threads /\ pool'.freed = pool.freed
  <2>1. pool \in Pools /\ pool' = [pool EXCEPT !.threads_used = Size]
    BY <1>1 DEF TypeOK, TeamStart
  <2> QED BY <2>1 DEF Pools, Used
<1>6. bar'[Dock] = IF Used = 0 THEN NewBarrier(Size)
                   ELSE IF Used >= Size THEN bar[Dock] ELSE Reinit(bar[Dock], Size)
  <2>1. bar \in [TeamIds \cup {Dock} -> Counters] /\ Dock \in TeamIds \cup {Dock}
    BY <1>1 DEF TypeOK
  <2>2. CASE Used = 0
    <3>1. bar' = [bar EXCEPT ![Dock] = NewBarrier(Size)]
      BY <1>1, <1>4, <2>2 DEF TeamStart, Used
    <3> QED BY <2>1, <2>2, <3>1
  <2>3. CASE Used # 0 /\ Used >= Size
    <3>1. bar' = bar
      BY <1>1, <1>4, <2>3 DEF TeamStart, Used
    <3> QED BY <2>1, <2>3, <3>1
  <2>4. CASE Used # 0 /\ ~(Used >= Size)
    <3>1. bar' = [bar EXCEPT ![Dock] = Reinit(bar[Dock], Size)]
      BY <1>1, <1>4, <2>4 DEF TeamStart, Used
    <3> QED BY <2>1, <2>4, <3>1
  <2> QED BY <2>2, <2>3, <2>4
<1>7. Used # 0 => Round(Dock, c, c, who) /\ c = Used /\ bar[Dock].total = c
  <2>1. Used # 0 => Expected(c) = c /\ Round(Dock, Expected(c), c, who)
    BY <1>2, <1>3, DockRound
  <2>2. Used # 0 => Round(Dock, c, c, who)
    BY <2>1
  <2> QED BY <1>4, <2>2 DEF Known, Round
<1>8. bar'[Dock].total = Maximum(c, Size)
  BY <1>1, <1>3, <1>4, <1>6, <1>7 DEF NewBarrier, Reinit, Maximum, Known
<1>9. ~Arrived(Master, Dock)' /\ ~Opening(Master, Dock)'
  BY <1>3 DEF Arrived, Opening, Here, At, Barriers
<1>10. Used = 0 => c = 1 /\ \A w \in Workers : pc[w] = "unborn"
  BY <1>2, <1>4 DEF Gather, Known
<1>11. Used # 0 => Quiet
  <2>1. bar[Dock] \in Counters
    BY <1>1 DEF TypeOK
  <2>2. Used # 0 => bar'[Dock].generation = bar[Dock].generation
    BY <1>6, <2>1 DEF Reinit, Counters
  <2> QED BY <1>3, <2>2 DEF Quiet
<1>12. Members(c, who)'
  <2>1. CASE Used = 0
    <3>1. \A w \in Workers : pc'[w] = "unborn"
      BY <1>3, <1>10, <2>1
    <3>2. \A w \in Workers : Outside(w)'
      BY <3>1 DEF Outside
    <3>3. c = 1
      BY <1>10, <2>1
    <3> QED BY <1>1, <1>3, <3>2, <3>3 DEF Members
  <2>2. CASE Used # 0
    <3>1. \A t \in Threads : thr'[t].id = thr[t].id
      BY <1>1, <1>3 DEF Members, Threads
    <3> QED BY <1>1, <1>3, <1>5, <1>11, <2>2, <3>1, MembersStay
  <2> QED BY <2>1, <2>2
<1>13. ~Ending /\ ~Ending' /\ Kept' = Kept /\ (Alone' <=> Alone)
  <2>1. ~Ending /\ ~Ending'
    BY <1>3 DEF Ending
  <2> QED BY <1>3, <1>5, <2>1 DEF Kept, Alone
<1>14. ~Creating /\ \A i \in 1 .. c - 1 : Given(i) = NULL /\ Given(i)' = NULL
  <2>1. ~Creating /\ \A i : Given(i) = NULL
    BY <1>2, <1>3 DEF Creating, Given
  <2>2. \A i \in 1 .. c - 1 : ~(i < index')
    BY <1>1, <1>3
  <2>3. \A i \in 1 .. c - 1 : Given(i)' = NULL
    BY <1>3, <2>2 DEF Given, At, Barriers
  <2> QED BY <2>1, <2>3
<1>15. \A i \in 1 .. c - 1 : WorkerGathers(i, who[i])'
  <2>1. CASE Used = 0
    BY <1>10, <2>1
  <2>2. CASE Used # 0
    <3>1. \A i \in 1 .. c - 1 : Told(i, who[i]) => Told(i, who[i])'
      BY <1>1, <1>3, <1>14 DEF Told, Members
    <3>2. Kept # NoTeam => bar'[Kept] = bar[Kept]
      BY <1>2, <1>3
    <3> QED BY <1>2, <1>3, <1>11, <1>13, <1>14, <2>2, <3>1, <3>2, WorkersStay
  <2> QED BY <2>1, <2>2
<1>16. Expected(c)' = Maximum(c, Size)
  BY <1>3 DEF Expected, Maximum
<1>17. Round(Dock, Maximum(c, Size), c, who)'
  <2>1. PICK n : n = Maximum(c, Size)
    OBVIOUS
  <2>2. n \in Nat /\ c <= n /\ bar'[Dock].total = n /\ c \in Nat
    BY <1>1, <1>4, <1>8, <2>1 DEF Maximum
  <2>3. CASE Used = 0
    <3>1. bar'[Dock].awaited = n
      <4>1. c = 1 /\ Size > 1 /\ Size \in Nat
        BY <1>1, <1>3, <1>4, <1>10, <2>3
      <4>2. n = Size
        BY <2>1, <4>1 DEF Maximum
      <4> QED BY <1>6, <2>3, <4>2 DEF NewBarrier
    <3>2. \A i \in 0 .. c - 1 : ~Arrived(who[i], Dock)' /\ ~Opening(who[i], Dock)'
      BY <1>1, <1>9, <1>10, <2>3 DEF Members
    <3>3. Round(Dock, n, c, who)'
      BY <2>2, <3>1, <3>2, NoneArrived
    <3> QED BY <1>3, <2>1, <3>3 DEF Maximum
  <2>4. CASE Used # 0 /\ Used >= Size
    <3>1. n = c /\ bar'[Dock] = bar[Dock]
      BY <1>1, <1>4, <1>6, <1>7, <2>1, <2>4 DEF Maximum
    <3>2. Round(Dock, c, c, who)'
      BY <1>1, <1>2, <1>7, <1>9, <1>11, <2>2, <2>4, <3>1, DockStays
    <3> QED BY <1>3, <2>1, <3>1, <3>2 DEF Maximum
  <2>5. CASE Used # 0 /\ ~(Used >= Size)
    <3>1. n = Size /\ bar'[Dock].awaited = bar[Dock].awaited + n - c
      BY <1>1, <1>4, <1>6, <1>7, <2>1, <2>5 DEF Maximum, Reinit
    <3>2. \A i \in 0 .. c - 1 : /\ Arrived(who[i], Dock)' <=> Arrived(who[i], Dock)
                                /\ Opening(who[i], Dock)' <=> Opening(who[i], Dock)
      <4> SUFFICES ASSUME NEW i \in 0 .. c - 1
                   PROVE  /\ Arrived(who[i], Dock)' <=> Arrived(who[i], Dock)
                          /\ Opening(who[i], Dock)' <=> Opening(who[i], Dock)
        OBVIOUS
      <4>1. CASE i = 0
        BY <1>1, <1>2, <1>9, <4>1 DEF Members
      <4>2. CASE i # 0
        <5>1. who[i] \in Workers
          BY <1>1, <4>2 DEF Members
        <5> QED BY <1>11, <2>5, <5>1 DEF Quiet, Arrived, Opening, Here, At
      <4> QED BY <4>1, <4>2
    <3>3. ~Arrived(who[0], Dock) /\ Round(Dock, c, c, who) /\ c \in Nat \ {0} /\ c <= c
      BY <1>1, <1>2, <1>7, <2>5 DEF Members
    <3>4. Round(Dock, n, c, who)'
      BY <2>2, <3>1, <3>2, <3>3, RoundGrows
    <3> QED BY <1>3, <2>1, <3>4 DEF Maximum
  <2> QED BY <2>3, <2>4, <2>5
<1>18. MasterGathers(c)'
  <2>1. c = Older' /\ 1 <= c
    BY <1>1, <1>3, <1>4 DEF Older, Known
  <2> QED BY <1>1, <1>3, <1>4, <1>5, <2>1 DEF MasterGathers, Several
<1>19. Gather(c, who)'
  <2>1. Full(team, Size)'
    BY <1>1, <1>2, <1>3, <1>4 DEF Full, TypeOK
  <2>2. Used' # 0
    BY <1>1, <1>3, <1>4, <1>5
  <2>3. Round(Dock, Expected(c), c, who)'
    BY <1>3, <1>16, <1>17 DEF Maximum
  <2> QED BY <1>3, <1>15, <1>18, <2>1, <2>2, <2>3 DEF Gather
<1>20. Teams'
  <2>1. pool.last_team # NoTeam => bar'[pool.last_team] = bar[pool.last_team]
    BY <1>2, <1>3
  <2>2. team \in TeamIds /\ pc[Master] # "gone"
    BY <1>1, <1>3, <1>4 DEF TypeOK
  <2> QED BY <1>1, <1>3, <1>5, <2>1, <2>2 DEF Teams, Full
<1>21. Counts("gather", who)'
  <2>1. \A i : ~HasRun("gather", i, who) /\ ~HasRun("gather", i, who)'
    BY <1>2, <1>3 DEF HasRun, At, Barriers
  <2> QED BY <1>2, <1>3, <2>1 DEF Counts
<1> QED BY <1>12, <1>19, <1>20, <1>21 DEF Inv, Staged

(* The master goes on while the threads of the pool gather.                *)
LEMMA GatherGoesOn ==
  ASSUME NEW stage \in Stages, NEW c, NEW who, Inv(stage, c, who), TypeOK',
         pc[Master] \in {"idle", "free_threads", "team_start", "assign", "create"},
         pc'[Master] \notin {"team_end", "wait", "gone"},
         ~Arrived(Master, Dock)', ~Opening(Master, Dock)', ~At(Master, team)',
         Quiet, region' = region, team' = team, pool' = pool, bar' = bar, status' = status, ran' = ran,
         Creating => Creating' /\ old_threads_used' = old_threads_used /\ \A w \in Workers : thr'[w].fn = thr[w].fn,
         \A t \in Threads : thr'[t].id = thr[t].id,
         \A w \in Workers : (\A i \in 1 .. c - 1 : who[i] # w) => thr'[w].fn = thr[w].fn,
         MasterGathers(c)', Expected(c)' = Expected(c),
         \A i \in 1 .. c - 1 : Told(i, who[i]) => Told(i, who[i])'
  PROVE  Inv("gather", c, who)'
<1>1. /\ TypeOK /\ Members(c, who) /\ Teams /\ c \in Nat \ {0} /\ Used \in Nat
      /\ Master \in Threads /\ Workers \subseteq Threads /\ Master \notin Workers
  BY Basics
<1>2. /\ stage = "gather" /\ Inv("gather", c, who) /\ Gather(c, who) /\ Counts("gather", who)
      /\ team # NoTeam => Full(team, Size)
      /\ ~Arrived(Master, Dock) /\ ~Opening(Master, Dock)
      /\ \A b : ~At(Master, b)
  BY GatherBasics
<1>3. Size' = Size /\ Used' = Used /\ (Alone' <=> Alone) /\ (Creating => Older' = Older)
  BY DEF Size, Used, Alone, Older
<1>4. ~Ending /\ ~Ending' /\ Kept' = Kept
  <2>1. ~Ending /\ ~Ending'
    BY DEF Ending
  <2> QED BY <2>1 DEF Kept
<1>5. Members(c, who)'
  BY <1>1, MembersStay
<1>6. \A i \in 1 .. c - 1 : WorkerGathers(i, who[i])'
  BY <1>2, <1>3, <1>4, WorkersStay
<1>7. IF Used' = 0 THEN \A w \in Workers : pc'[w] = "unborn" ELSE Round(Dock, Expected(c), c, who)'
  <2>1. CASE Used = 0
    BY <1>2, <1>3, <2>1 DEF Gather, Quiet
  <2>2. CASE Used # 0
    <3>1. PICK n : n = Expected(c)
      OBVIOUS
    <3>2. n \in Nat /\ Round(Dock, n, c, who)
      BY <1>2, <2>2, <3>1, DockRound
    <3>3. Round(Dock, n, c, who)'
      BY <1>1, <1>2, <3>2, DockStays
    <3> QED BY <1>3, <2>2, <3>1, <3>3
  <2> QED BY <2>1, <2>2
<1>8. team' # NoTeam => Full(team, Size)'
  BY <1>2, <1>3 DEF Full
<1>9. ~Opening(Master, team)'
  BY DEF Opening, At, Barriers
<1>10. Gather(c, who)'
  BY <1>6, <1>7, <1>8, <1>9 DEF Gather
<1>11. Teams'
  BY <1>2, TeamsStay
<1>12. Counts("gather", who)'
  <2>1. \A i : ~HasRun("gather", i, who) /\ ~HasRun("gather", i, who)'
    BY <1>2 DEF HasRun
  <2> QED BY <1>2, <2>1 DEF Counts
<1> QED BY <1>5, <1>10, <1>11, <1>12 DEF Inv, Staged

LEMMA TeamStartAloneStep ==
  ASSUME NEW stage \in Stages, NEW c, NEW who, Inv(stage, c, who), TypeOK', TeamStartAlone
  PROVE  Inv("gather", c, who)'
<1>1. /\ TypeOK /\ Members(c, who) /\ c \in Nat \ {0} /\ thr[Master].id = 0
      /\ Master \in Threads /\ Workers \subseteq Threads /\ Master \notin Workers
  BY Basics DEF Members
<1>2. MasterGathers(c) /\ \A b : ~At(Master, b)
  BY GatherBasics DEF TeamStartAlone
<1>3. /\ pc[Master] = "team_start" /\ pc'[Master] = "body" /\ Size = 1
      /\ \A w \in Workers : pc'[w] = pc[w] /\ thr'[w] = thr[w] /\ local'[w] = local[w]
      /\ thr'[Master].id = 0 /\ local'[Master] = [fn |-> region, team |-> team]
      /\ region' = region /\ team' = team /\ index' = index /\ old_threads_used' = old_threads_used
      /\ at' = at /\ ret' = ret /\ seen' = seen /\ ran' = ran /\ status' = status
      /\ bar' = bar /\ pool' = pool
  BY <1>1 DEF TeamStartAlone, Goto, TypeOK, masterVars, barrierVars
<1>4. region \in RegionIds /\ team # NoTeam /\ c = Known
  BY <1>2, <1>3 DEF MasterGathers, Here, At, Barriers, Ending, Alone
<1>5. Quiet
  BY <1>3 DEF Quiet
<1>6. ~Arrived(Master, Dock)' /\ ~Opening(Master, Dock)' /\ ~At(Master, team)'
  BY <1>3 DEF Arrived, Opening, Here, At, Barriers
<1>7. \A t \in Threads : thr'[t].id = thr[t].id
  BY <1>1, <1>3 DEF Threads
<1>8. ~Creating /\ \A i : Given(i) = NULL /\ Given(i)' = NULL
  <2>1. ~At(Master, Dock) /\ ~At(Master, Dock)'
    BY <1>3 DEF At, Barriers
  <2> QED BY <1>3, <2>1 DEF Creating, Given
<1>9. \A i \in 1 .. c - 1 : Told(i, who[i]) => Told(i, who[i])'
  <2>1. \A i \in 1 .. c - 1 : thr'[who[i]] = thr[who[i]]
    BY <1>1, <1>3 DEF Members
  <2> QED BY <1>3, <1>8, <2>1 DEF Told
<1>10. MasterGathers(c)' /\ Expected(c)' = Expected(c)
  BY <1>3, <1>4 DEF MasterGathers, Alone, Known, Used, Size, Expected
<1>11. pc[Master] \in {"idle", "free_threads", "team_start", "assign", "create"} /\ pc'[Master] \notin {"team_end", "wait", "gone"}
  BY <1>3
<1> QED BY <1>3, <1>5, <1>6, <1>7, <1>8, <1>9, <1>10, <1>11, GatherGoesOn

(* The thread with the next number is found where it has put itself.       *)
LEMMA ThreadFound ==
  ASSUME NEW stage \in Stages, NEW c, NEW who, Inv(stage, c, who),
         pc[Master] \in {"assign", "free_threads"}, NEW i \in 1 .. c - 1
  PROVE  pool.threads[i] = who[i] /\ who[i] \in Workers /\ thr[who[i]].id = i
<1>1. Gather(c, who) /\ \A b : ~At(Master, b)
  BY GatherBasics
<1>2. ~Creating
  BY <1>1 DEF Creating
<1>3. pc[who[i]] # "start"
  BY <1>1, <1>2 DEF Gather, WorkerGathers, Here, At, Barriers
<1> QED BY <1>3 DEF Inv, Members

LEMMA AssignIdleStep ==
  ASSUME NEW stage \in Stages, NEW c, NEW who, Inv(stage, c, who), TypeOK', AssignIdle
  PROVE  Inv("gather", c, who)'
<1>1. /\ TypeOK /\ Members(c, who) /\ Apart(c, who) /\ c \in Nat \ {0} /\ index \in Nat \ {0} /\ old_threads_used \in Nat
      /\ Master \in Threads /\ Workers \subseteq Threads /\ Master \notin Workers
      /\ (region \in RegionIds => Size \in Nat \ {0})
  BY Basics
<1>2. MasterGathers(c) /\ \A b : ~At(Master, b)
  BY GatherBasics DEF AssignIdle
<1>3. /\ pc[Master] = "assign" /\ index < Size /\ index < old_threads_used
      /\ pc' = pc /\ local' = local
      /\ region' = region /\ team' = team /\ index' = index + 1 /\ old_threads_used' = old_threads_used
      /\ at' = at /\ ret' = ret /\ seen' = seen /\ ran' = ran /\ status' = status
      /\ bar' = bar /\ pool' = pool /\ Size' = Size
      /\ thr' = [thr EXCEPT ![pool.threads[index]] = [team |-> team, id |-> index, fn |-> region]]
  BY DEF AssignIdle, masterVars, barrierVars, Size
<1>4. Several /\ team # NoTeam /\ Used = Size /\ c = Older /\ index <= c /\ index <= Size
  BY <1>2, <1>3 DEF MasterGathers, Here, Ending, Alone, At, Barriers
<1>5. c = old_threads_used /\ index \in 1 .. c - 1
  BY <1>1, <1>3, <1>4 DEF Older
<1>6. /\ thr[who[index]].id = index /\ who[index] \in Workers
      /\ thr' = [thr EXCEPT ![who[index]] = [team |-> team, id |-> index, fn |-> region]]
  <2>1. pool.threads[index] = who[index] /\ thr[who[index]].id = index /\ who[index] \in Workers
    BY <1>3, <1>5, ThreadFound
  <2> QED BY <1>3, <2>1
<1>7. /\ thr'[who[index]] = [team |-> team, id |-> index, fn |-> region]
      /\ \A t \in Threads : t # who[index] => thr'[t] = thr[t]
  BY <1>1, <1>6 DEF TypeOK
<1>8. \A t \in Threads : thr'[t].id = thr[t].id
  BY <1>6, <1>7
<1>9. Quiet
  BY <1>3 DEF Quiet
<1>10. ~Arrived(Master, Dock)' /\ ~Opening(Master, Dock)' /\ ~At(Master, team)'
  BY <1>3 DEF Arrived, Opening, Here, At, Barriers
<1>11. ~Creating
  BY <1>2, <1>3 DEF Creating
<1>12. \A i \in 1 .. c - 1 : Told(i, who[i]) => Told(i, who[i])'
  <2> SUFFICES ASSUME NEW i \in 1 .. c - 1, Told(i, who[i])
               PROVE  Told(i, who[i])'
    OBVIOUS
  <2>1. CASE i = index
    <3>1. Given(i)' = region
      BY <1>1, <1>3, <2>1 DEF Given, At, Barriers
    <3> QED BY <1>3, <1>7, <2>1, <3>1 DEF Told
  <2>2. CASE i # index
    <3>1. who[i] # who[index] /\ who[i] \in Threads
      BY <1>1, <1>5, <2>2 DEF Apart, Members
    <3>2. Given(i)' = Given(i)
      BY <1>1, <1>3, <2>2 DEF Given, At, Barriers
    <3> QED BY <1>3, <1>7, <3>1, <3>2 DEF Told
  <2> QED BY <2>1, <2>2
<1>13. \A w \in Workers : (\A i \in 1 .. c - 1 : who[i] # w) => thr'[w].fn = thr[w].fn
  BY <1>1, <1>5, <1>7
<1>14. Expected(c)' = Expected(c)
  BY <1>3 DEF Expected, Maximum
<1>15. MasterGathers(c)'
  <2>1. Several' /\ Used' = Size' /\ c = Older'
    BY <1>3, <1>4 DEF Several, Used, Older
  <2>2. index' <= c /\ index' <= Size'
    BY <1>1, <1>3, <1>4, <1>5 DEF Several
  <2> QED BY <1>3, <1>4, <2>1, <2>2 DEF MasterGathers
<1>16. pc[Master] \in {"idle", "free_threads", "team_start", "assign", "create"} /\ pc'[Master] \notin {"team_end", "wait", "gone"}
  BY <1>3
<1> QED BY <1>3, <1>8, <1>9, <1>10, <1>11, <1>12, <1>13, <1>14, <1>15, <1>16, GatherGoesOn

(* The master comes to the dock, as the last it does while others gather.  *)
LEMMA MasterEnters ==
  ASSUME TypeOK, Master \in Threads, NEW next \in {"docked", "undocked"}, Enter(Master, Dock, next), Dock # team
  PROVE  /\ pc'[Master] = "load" /\ at'[Master] = Dock /\ ret'[Master] = next /\ seen' = seen
         /\ \A w \in Threads \ {Master} : pc'[w] = pc[w] /\ at'[w] = at[w] /\ ret'[w] = ret[w]
         /\ pc'[Master] \notin {"team_end", "wait", "gone"} /\ Here(Master, Dock)' /\ At(Master, Dock)'
         /\ ~Arrived(Master, Dock)' /\ ~Opening(Master, Dock)' /\ (team' = team => ~At(Master, team)')
<1>1. /\ pc'[Master] = "load" /\ at'[Master] = Dock /\ ret'[Master] = next /\ seen' = seen
      /\ \A w \in Threads \ {Master} : pc'[w] = pc[w] /\ at'[w] = at[w] /\ ret'[w] = ret[w]
  BY DEF Enter, Goto, TypeOK
<1> QED BY <1>1 DEF Arrived, Opening, Here, At, Barriers

LEMMA AssignDoneStep ==
  ASSUME NEW stage \in Stages, NEW c, NEW who, Inv(stage, c, who), TypeOK', AssignDone
  PROVE  Inv("gather", c, who)'
<1>1. /\ TypeOK /\ Members(c, who) /\ c \in Nat \ {0} /\ index \in Nat \ {0} /\ old_threads_used \in Nat
      /\ Master \in Threads /\ Workers \subseteq Threads /\ Master \notin Workers
      /\ (region \in RegionIds => Size \in Nat \ {0})
      /\ team \in TeamIds \cup {NoTeam} /\ Dock \notin TeamIds /\ Dock # NoTeam
  BY Basics
<1>2. MasterGathers(c) /\ \A b : ~At(Master, b)
  BY GatherBasics DEF AssignDone
<1>3. /\ pc[Master] = "assign" /\ (index = Size \/ index >= old_threads_used)
      /\ local' = local /\ thr' = thr /\ region' = region /\ team' = team /\ index' = index
      /\ old_threads_used' = old_threads_used /\ ran' = ran /\ status' = status
      /\ bar' = bar /\ pool' = pool /\ Size' = Size /\ seen' = seen
  BY DEF AssignDone, Enter, masterVars, Size
<1>4. Several /\ team # NoTeam /\ Used = Size /\ c = Older /\ index <= c /\ index <= Size /\ Size > 1 /\ Size \in Nat
  <2>1. Several /\ team # NoTeam /\ Used = Size /\ c = Older /\ index <= c /\ index <= Size
    BY <1>2, <1>3 DEF MasterGathers, Here, Ending, Alone, At, Barriers
  <2> QED BY <1>1, <2>1 DEF Several
<1>5. Several' /\ Used' = Size' /\ c = Older' /\ Dock # team
  BY <1>1, <1>3, <1>4 DEF Several, Used, Older
<1>6. ~Creating
  BY <1>2, <1>3 DEF Creating
<1>7. pc[Master] \in {"idle", "free_threads", "team_start", "assign", "create"}
  BY <1>3
<1>8. CASE index = Size
  <2>1. Enter(Master, Dock, "docked")
    BY <1>8 DEF AssignDone
  <2>2. /\ pc'[Master] = "load" /\ at'[Master] = Dock /\ ret'[Master] = "docked"
        /\ \A w \in Threads \ {Master} : pc'[w] = pc[w] /\ at'[w] = at[w] /\ ret'[w] = ret[w]
        /\ pc'[Master] \notin {"team_end", "wait", "gone"} /\ Here(Master, Dock)' /\ At(Master, Dock)'
        /\ ~Arrived(Master, Dock)' /\ ~Opening(Master, Dock)' /\ ~At(Master, team)'
    BY <1>1, <1>3, <1>5, <2>1, MasterEnters
  <2>3. Quiet
    BY <1>1, <1>3, <2>2 DEF Quiet
  <2>4. c = Maximum(old_threads_used, Size) /\ c = Maximum(c, Size)
    BY <1>1, <1>4, <1>8 DEF Older, Maximum
  <2>5. MasterGathers(c)'
    BY <1>3, <1>4, <1>5, <2>2, <2>4 DEF MasterGathers, Maximum
  <2>6. Expected(c)' = Expected(c)
    BY <1>3, <2>2, <2>4 DEF Expected
  <2>7. \A i \in 1 .. c - 1 : Told(i, who[i]) => Told(i, who[i])'
    <3>1. \A i \in 1 .. c - 1 : Given(i)' = Given(i)
      BY <1>3, <1>8, <2>2 DEF Given, At, Barriers
    <3> QED BY <1>3, <3>1 DEF Told
  <2> QED BY <1>3, <1>6, <1>7, <2>2, <2>3, <2>5, <2>6, <2>7, GatherGoesOn
<1>9. CASE index # Size
  <2>1. /\ pc'[Master] = "create" /\ at' = at /\ ret' = ret
        /\ \A w \in Threads \ {Master} : pc'[w] = pc[w]
    BY <1>1, <1>9 DEF AssignDone, Goto, TypeOK
  <2>2. Quiet
    BY <1>1, <1>3, <2>1 DEF Quiet
  <2>3. ~Arrived(Master, Dock)' /\ ~Opening(Master, Dock)' /\ ~At(Master, team)'
    BY <2>1 DEF Arrived, Opening, Here, At, Barriers
  <2>4. old_threads_used < Size /\ Older <= index /\ c = index
    BY <1>1, <1>3, <1>4, <1>9 DEF Older
  <2>5. MasterGathers(c)'
    BY <1>1, <1>3, <1>4, <1>5, <2>1, <2>4 DEF MasterGathers
  <2>6. Expected(c)' = Expected(c)
    BY <1>3, <2>1 DEF Expected, Maximum
  <2>7. \A i \in 1 .. c - 1 : Told(i, who[i]) => Told(i, who[i])'
    <3>1. \A i \in 1 .. c - 1 : Given(i)' = Given(i)
      BY <1>3, <2>1 DEF Given, At, Barriers
    <3> QED BY <1>3, <3>1 DEF Told
  <2>8. pc'[Master] \notin {"team_end", "wait", "gone"}
    BY <2>1
  <2> QED BY <1>3, <1>6, <1>7, <2>2, <2>3, <2>5, <2>6, <2>7, <2>8, GatherGoesOn
<1> QED BY <1>8, <1>9

LEMMA CreateDoneStep ==
  ASSUME NEW stage \in Stages, NEW c, NEW who, Inv(stage, c, who), TypeOK', CreateDone
  PROVE  Inv("gather", c, who)'
<1>1. /\ TypeOK /\ Members(c, who) /\ c \in Nat \ {0} /\ index \in Nat \ {0} /\ old_threads_used \in Nat
      /\ Master \in Threads /\ Workers \subseteq Threads /\ Master \notin Workers
      /\ team \in TeamIds \cup {NoTeam} /\ Dock \notin TeamIds /\ Dock # NoTeam
      /\ (region \in RegionIds => Size \in Nat \ {0})
  BY Basics
<1>2. MasterGathers(c)
  BY GatherBasics DEF CreateDone
<1>3. /\ pc[Master] = "create" /\ index = Size
      /\ local' = local /\ thr' = thr /\ region' = region /\ team' = team /\ index' = index
      /\ old_threads_used' = old_threads_used /\ ran' = ran /\ status' = status
      /\ bar' = bar /\ pool' = pool /\ Size' = Size /\ seen' = seen
      /\ Enter(Master, Dock, "docked")
  BY DEF CreateDone, Enter, masterVars, Size
<1>4. Several /\ team # NoTeam /\ Used = Size /\ old_threads_used < Size /\ c = Size
  BY <1>2, <1>3 DEF MasterGathers, Here, Ending, Alone, At, Barriers
<1>5. Several' /\ Used' = Size' /\ Dock # team /\ Size \in Nat
  BY <1>1, <1>3, <1>4 DEF Several, Used
<1>6. /\ pc'[Master] = "load" /\ at'[Master] = Dock /\ ret'[Master] = "docked"
      /\ \A w \in Threads \ {Master} : pc'[w] = pc[w] /\ at'[w] = at[w] /\ ret'[w] = ret[w]
      /\ pc'[Master] \notin {"team_end", "wait", "gone"} /\ Here(Master, Dock)' /\ At(Master, Dock)'
      /\ ~Arrived(Master, Dock)' /\ ~Opening(Master, Dock)' /\ ~At(Master, team)'
  BY <1>1, <1>3, <1>5, MasterEnters
<1>7. Quiet
  BY <1>1, <1>3, <1>6 DEF Quiet
<1>8. c = Maximum(old_threads_used, Size) /\ c = Maximum(c, Size)
  BY <1>1, <1>4, <1>5 DEF Maximum
<1>9. MasterGathers(c)'
  BY <1>3, <1>4, <1>5, <1>6, <1>8 DEF MasterGathers, Maximum
<1>10. Expected(c)' = Expected(c)
  BY <1>3, <1>6, <1>8 DEF Expected
<1>11. \A i \in 1 .. c - 1 : Told(i, who[i]) => Told(i, who[i])'
  <2>1. \A i \in 1 .. c - 1 : Given(i)' = Given(i)
    BY <1>3, <1>6 DEF Given, At, Barriers
  <2> QED BY <1>3, <2>1 DEF Told
<1>12. Creating' /\ pc[Master] \in {"idle", "free_threads", "team_start", "assign", "create"}
  BY <1>3, <1>6 DEF Creating
<1> QED BY <1>3, <1>6, <1>7, <1>9, <1>10, <1>11, <1>12, GatherGoesOn

LEMMA AssignHelperStep ==
  ASSUME NEW stage \in Stages, NEW c, NEW who, Inv(stage, c, who), TypeOK', AssignHelper
  PROVE  Inv("gather", c, who)'
<1>1. /\ TypeOK /\ Members(c, who) /\ Apart(c, who) /\ c \in Nat \ {0} /\ index \in Nat \ {0} /\ Used \in Nat
      /\ Master \in Threads /\ Workers \subseteq Threads /\ Master \notin Workers
      /\ region \in Nat
  BY Basics
<1>2. MasterGathers(c) /\ \A b : ~At(Master, b)
  BY GatherBasics DEF AssignHelper
<1>3. /\ pc[Master] = "free_threads" /\ index < Used
      /\ pc' = pc /\ local' = local
      /\ region' = region /\ team' = team /\ index' = index + 1 /\ old_threads_used' = old_threads_used
      /\ at' = at /\ ret' = ret /\ seen' = seen /\ ran' = ran /\ status' = status
      /\ bar' = bar /\ pool' = pool
      /\ thr' = [thr EXCEPT ![pool.threads[index]].fn = Helper]
  BY DEF AssignHelper, barrierVars, Used
<1>4. team = NoTeam /\ region \notin RegionIds /\ Used > 1 /\ c = Used
  BY <1>2, <1>3 DEF MasterGathers, Here, Ending, Alone, Several, At, Barriers
<1>5. index \in 1 .. c - 1
  BY <1>1, <1>3, <1>4
<1>6. thr' = [thr EXCEPT ![who[index]].fn = Helper] /\ who[index] \in Workers
  <2>1. pool.threads[index] = who[index] /\ who[index] \in Workers
    BY <1>3, <1>5, ThreadFound
  <2> QED BY <1>3, <2>1
<1>7. /\ thr'[who[index]].fn = Helper /\ thr'[who[index]].id = thr[who[index]].id
      /\ \A t \in Threads : t # who[index] => thr'[t] = thr[t]
  <2>1. who[index] \in Threads /\ thr[who[index]] \in Records
    BY <1>1, <1>6 DEF TypeOK
  <2>2. thr'[who[index]] = [thr[who[index]] EXCEPT !.fn = Helper]
    BY <1>1, <1>6, <2>1 DEF TypeOK
  <2>3. thr'[who[index]].fn = Helper /\ thr'[who[index]].id = thr[who[index]].id
    BY <2>1, <2>2 DEF Records
  <2>4. \A t \in Threads : t # who[index] => thr'[t] = thr[t]
    BY <1>1, <1>6 DEF TypeOK
  <2> QED BY <2>3, <2>4
<1>8. \A t \in Threads : thr'[t].id = thr[t].id
  BY <1>7
<1>9. Quiet
  BY <1>3 DEF Quiet
<1>10. ~Arrived(Master, Dock)' /\ ~Opening(Master, Dock)' /\ ~At(Master, team)'
  BY <1>3 DEF Arrived, Opening, Here, At, Barriers
<1>11. ~Creating
  BY <1>2, <1>3 DEF Creating
<1>12. \A i \in 1 .. c - 1 : Told(i, who[i]) => Told(i, who[i])'
  <2> SUFFICES ASSUME NEW i \in 1 .. c - 1, Told(i, who[i])
               PROVE  Told(i, who[i])'
    OBVIOUS
  <2>1. CASE i = index
    <3>1. Given(i)' = Helper /\ Helper # region
      BY <1>1, <1>3, <2>1 DEF Given, At, Barriers, Helper
    <3> QED BY <1>3, <1>7, <2>1, <3>1 DEF Told
  <2>2. CASE i # index
    <3>1. who[i] # who[index] /\ who[i] \in Threads
      BY <1>1, <1>5, <2>2 DEF Apart, Members
    <3>2. Given(i)' = Given(i)
      BY <1>1, <1>3, <2>2 DEF Given, At, Barriers
    <3> QED BY <1>3, <1>7, <3>1, <3>2 DEF Told
  <2> QED BY <2>1, <2>2
<1>13. \A w \in Workers : (\A i \in 1 .. c - 1 : who[i] # w) => thr'[w].fn = thr[w].fn
  BY <1>1, <1>5, <1>7
<1>14. Expected(c)' = Expected(c)
  BY <1>3 DEF Expected
<1>15. MasterGathers(c)'
  BY <1>1, <1>3, <1>4 DEF MasterGathers, Used
<1>16. pc[Master] \in {"idle", "free_threads", "team_start", "assign", "create"} /\ pc'[Master] \notin {"team_end", "wait", "gone"}
  BY <1>3
<1> QED BY <1>3, <1>8, <1>9, <1>10, <1>11, <1>12, <1>13, <1>14, <1>15, <1>16, GatherGoesOn

LEMMA ThreadExitStep ==
  ASSUME NEW stage \in Stages, NEW c, NEW who, Inv(stage, c, who), TypeOK', ThreadExit
  PROVE  IInv'
<1>1. /\ TypeOK /\ Members(c, who) /\ Teams /\ c \in Nat \ {0} /\ Used \in Nat /\ Used # 1
      /\ Master \in Threads /\ Workers \subseteq Threads /\ Master \notin Workers
  BY Basics DEF Teams
<1>2. /\ stage = "gather" /\ Gather(c, who) /\ MasterGathers(c) /\ Counts("gather", who)
      /\ \A b : ~At(Master, b)
  BY GatherBasics DEF ThreadExit
<1>3. /\ pc[Master] = "idle" /\ region \notin RegionIds
      /\ pc'[Master] = IF Used > 0 THEN "free_threads" ELSE "free_pool"
      /\ \A w \in Threads \ {Master} : pc'[w] = pc[w]
      /\ thr' = thr /\ local' = local
      /\ region' = region /\ team' = team /\ index' = 1 /\ old_threads_used' = old_threads_used
      /\ at' = at /\ ret' = ret /\ seen' = seen /\ ran' = ran /\ status' = status
      /\ bar' = bar /\ pool' = pool /\ Used' = Used
  BY <1>1 DEF ThreadExit, Goto, TypeOK, barrierVars, Used
<1>4. team = NoTeam /\ c = Known
  BY <1>2, <1>3 DEF MasterGathers, Here, Ending, Alone, Several, At, Barriers
<1>5. Quiet
  BY <1>1, <1>3 DEF Quiet
<1>6. CASE Used > 0
  <2>1. pc'[Master] = "free_threads" /\ c = Used /\ Used > 1
    BY <1>1, <1>3, <1>4, <1>6 DEF Known
  <2>2. ~Arrived(Master, Dock)' /\ ~Opening(Master, Dock)' /\ ~At(Master, team)'
    BY <2>1 DEF Arrived, Opening, Here, At, Barriers
  <2>3. MasterGathers(c)'
    BY <1>1, <1>3, <1>4, <2>1 DEF MasterGathers
  <2>4. Expected(c)' = Expected(c)
    BY <1>3, <2>1 DEF Expected
  <2>5. ~Creating
    BY <1>2, <1>3 DEF Creating
  <2>6. \A i \in 1 .. c - 1 : Told(i, who[i]) => Told(i, who[i])'
    <3>1. \A i \in 1 .. c - 1 : Given(i) = NULL
      BY <1>2, <1>3 DEF Given
    <3>2. \A i \in 1 .. c - 1 : Given(i)' = NULL
      BY <1>1, <1>3, <2>1 DEF Given, At, Barriers
    <3> QED BY <1>3, <3>1, <3>2 DEF Told
  <2>7. /\ pc[Master] \in {"idle", "free_threads", "team_start", "assign", "create"}
        /\ pc'[Master] \notin {"team_end", "wait", "gone"}
    BY <1>3, <2>1
  <2>8. Inv("gather", c, who)'
    BY <1>3, <1>5, <2>2, <2>3, <2>4, <2>5, <2>6, <2>7, GatherGoesOn
  <2> QED BY <2>8 DEF IInv, Stages
<1>7. CASE Used = 0
  <2>1. pc'[Master] = "free_pool" /\ c = 1
    BY <1>3, <1>4, <1>7 DEF Known
  <2>2. Over(c)'
    BY <1>3, <1>4, <2>1 DEF Over
  <2>3. Members(c, who)'
    BY <1>1, <1>3, <1>5, MembersStay
  <2>4. Teams'
    BY <1>2, <1>3, TeamsStay
  <2>5. Counts("over", who)'
    BY <1>2, <1>3 DEF Counts
  <2>6. Inv("over", c, who)'
    BY <2>2, <2>3, <2>4, <2>5 DEF Inv, Staged
  <2> QED BY <2>6 DEF IInv, Stages
<1> QED BY <1>1, <1>6, <1>7

(* The thread that is created is the next member. *)
LEMMA CreateStep ==
  ASSUME NEW stage \in Stages, NEW c, NEW who, Inv(stage, c, who), TypeOK', Create
  PROVE  \E crew : Inv("gather", c + 1, crew)'
<1>1. /\ TypeOK /\ Members(c, who) /\ c \in Nat \ {0} /\ index \in Nat \ {0} /\ Used \in Nat
      /\ Master \in Threads /\ Workers \subseteq Threads /\ Master \notin Workers
      /\ (region \in RegionIds => Size \in Nat \ {0})
      /\ who \in [0 .. c - 1 -> Threads] /\ who[0] = Master /\ thr[Master].id = 0
  BY Basics DEF Members
<1>2. /\ Gather(c, who) /\ MasterGathers(c) /\ stage = "gather" /\ Inv("gather", c, who) /\ Counts("gather", who)
      /\ team # NoTeam => Full(team, Size)
      /\ ~Arrived(Master, Dock) /\ ~Opening(Master, Dock) /\ \A b : ~At(Master, b)
  BY GatherBasics DEF Create
<1>3. PICK w \in Workers :
        /\ pc[w] = "unborn"
        /\ thr' = [thr EXCEPT ![w] = [team |-> team, id |-> index, fn |-> NULL]]
        /\ local' = [local EXCEPT ![w] = [fn |-> region, team |-> team]]
        /\ Goto(w, "start")
  BY DEF Create
<1>4. /\ pc[Master] = "create" /\ index < Size
      /\ region' = region /\ team' = team /\ index' = index + 1 /\ old_threads_used' = old_threads_used
      /\ at' = at /\ ret' = ret /\ seen' = seen /\ ran' = ran /\ status' = status
      /\ bar' = bar /\ pool' = pool /\ Size' = Size /\ Used' = Used /\ Older' = Older
  BY DEF Create, barrierVars, Size, Used, Older
<1>5. Several /\ team # NoTeam /\ Used = Size /\ old_threads_used < Size /\ Older <= index /\ c = index
  BY <1>2, <1>4 DEF MasterGathers, Here, Ending, Alone, At, Barriers
<1>6. /\ pc'[w] = "start" /\ thr'[w].id = index /\ thr'[w].fn = NULL /\ local'[w] = [fn |-> region, team |-> team]
      /\ OthersStay(w)
  BY <1>1, <1>3, <1>4 DEF Goto, TypeOK, OthersStay, Same
<1>7. Same(Master) /\ pc'[Master] = "create" /\ thr'[Master].id = 0 /\ w # Master
  <2>1. Same(Master) /\ w # Master
    BY <1>1, <1>6 DEF OthersStay
  <2> QED BY <1>1, <1>4, <2>1 DEF Same
<1>8. \A i \in 1 .. c - 1 : who[i] \in Workers /\ who[i] # w /\ Same(who[i]) /\ WorkerGathers(i, who[i])
  <2> SUFFICES ASSUME NEW i \in 1 .. c - 1
               PROVE  who[i] \in Workers /\ who[i] # w /\ Same(who[i]) /\ WorkerGathers(i, who[i])
    OBVIOUS
  <2>1. who[i] \in Workers /\ WorkerGathers(i, who[i])
    BY <1>1, <1>2 DEF Members, Gather
  <2>2. who[i] # w
    BY <1>3, <2>1 DEF WorkerGathers, Here, At, Barriers
  <2> QED BY <1>1, <1>6, <2>1, <2>2 DEF OthersStay
<1>9. PICK crew : /\ crew \in [0 .. (c + 1) - 1 -> Threads]
                  /\ \A i \in 0 .. c - 1 : crew[i] = who[i]
                  /\ crew[c] = w
  <2>1. PICK f : f = [i \in 0 .. (c + 1) - 1 |-> IF i < c THEN who[i] ELSE w]
    OBVIOUS
  <2>2. c \in 0 .. (c + 1) - 1 /\ \A i \in 0 .. c - 1 : i \in 0 .. (c + 1) - 1 /\ i < c
    BY <1>1
  <2>3. \A i \in 0 .. (c + 1) - 1 : i < c => i \in 0 .. c - 1
    BY <1>1
  <2>4. f \in [0 .. (c + 1) - 1 -> Threads]
    BY <1>1, <2>1, <2>3
  <2>5. f[c] = w /\ \A i \in 0 .. c - 1 : f[i] = who[i]
    BY <1>1, <2>1, <2>2
  <2> QED BY <2>4, <2>5
<1>10. \A i \in 1 .. (c + 1) - 1 : i = c \/ (i \in 1 .. c - 1 /\ crew[i] = who[i])
  <2>1. \A i \in 1 .. (c + 1) - 1 : i = c \/ (i \in 1 .. c - 1 /\ i \in 0 .. c - 1)
    BY <1>1
  <2> QED BY <1>9, <2>1
<1>11. Creating /\ Creating'
  BY <1>4, <1>7 DEF Creating
<1>12. ~Ending /\ ~Ending' /\ Kept' = Kept /\ (Alone' <=> Alone)
  <2>1. ~Ending /\ ~Ending'
    BY <1>4, <1>7 DEF Ending
  <2> QED BY <1>4, <2>1 DEF Kept, Alone
<1>13. \A i \in 1 .. (c + 1) - 1 : WorkerGathers(i, crew[i])'
  <2>1. ASSUME NEW i \in 1 .. c - 1
        PROVE  WorkerGathers(i, who[i])'
    <3>1. Given(i) = region /\ Given(i)' = region
      <4>1. i < index /\ i < index'
        BY <1>1, <1>4, <1>5
      <4> QED BY <1>4, <1>7, <4>1 DEF Given, At, Barriers
    <3>2. thr'[who[i]] = thr[who[i]] /\ local'[who[i]] = local[who[i]]
      BY <1>8 DEF Same
    <3>3. Told(i, who[i]) => Told(i, who[i])'
      BY <1>4, <3>1, <3>2 DEF Told
    <3>4. FromKept(who[i]) => FromKept(who[i])'
      BY <1>4, <1>12, <3>2 DEF FromKept
    <3>5. Stays(who[i])
      BY <1>4, <1>8 DEF Stays, Same
    <3> QED BY <1>4, <1>8, <1>11, <3>2, <3>3, <3>4, <3>5, WorkerStays
  <2>2. WorkerGathers(c, w)'
    BY <1>1, <1>4, <1>5, <1>6, <1>11 DEF WorkerGathers
  <2> QED BY <1>9, <1>10, <2>1, <2>2
<1>14. Members(c + 1, crew)'
  <2>1. \A u \in Workers : (\E i \in 1 .. (c + 1) - 1 : crew[i] = u) \/ Outside(u)'
    <3> SUFFICES ASSUME NEW u \in Workers, ~(\E i \in 1 .. (c + 1) - 1 : crew[i] = u)
                 PROVE  Outside(u)'
      OBVIOUS
    <3>1. u # w
      BY <1>1, <1>9
    <3>2. ~(\E i \in 1 .. c - 1 : who[i] = u)
      BY <1>1, <1>9
    <3>3. Outside(u) /\ Same(u)
      BY <1>1, <1>6, <3>1, <3>2 DEF Members, OthersStay
    <3> QED BY <1>4, <3>3, OutsideStays
  <2>2. c \in Ids
    <3>1. Size <= MaxThreads /\ MaxThreads \in Nat
      BY <1>5, RoomForAll DEF Several, Size
    <3> QED BY <1>1, <1>4, <1>5, <3>1 DEF Ids, Several
  <2>3. \A i \in 1 .. c - 1 : /\ i \in Ids /\ thr'[who[i]].id = i
                              /\ pc'[who[i]] # "start" => pool'.threads[i] = who[i]
    BY <1>1, <1>4, <1>8 DEF Members, Same
  <2>4. crew[0] = Master /\ c + 1 \in Nat \ {0}
    BY <1>1, <1>9
  <2>5. \A i \in 1 .. (c + 1) - 1 : /\ crew[i] \in Workers /\ i \in Ids /\ thr'[crew[i]].id = i
                                    /\ pc'[crew[i]] # "start" => pool'.threads[i] = crew[i]
    BY <1>5, <1>6, <1>8, <1>9, <1>10, <2>2, <2>3
  <2> QED BY <1>7, <1>9, <2>1, <2>4, <2>5 DEF Members
<1>15. Round(Dock, Size, c + 1, crew)'
  <2>1. PICK n : n = Size
    OBVIOUS
  <2>2. n \in Nat /\ c < n /\ Expected(c) = n
    BY <1>1, <1>4, <1>5, <2>1 DEF Several, Expected, Maximum
  <2>3. Round(Dock, n, c, who)
    <3>1. Used # 0
      BY <1>1, <1>5 DEF Several
    <3> QED BY <1>2, <2>2, <3>1, DockRound
  <2>4. \A i \in 0 .. c - 1 : Same(who[i])
    BY <1>1, <1>7, <1>8
  <2>5. \A i \in 0 .. c - 1 : /\ crew[i] = who[i]
                              /\ Arrived(who[i], Dock)' <=> Arrived(who[i], Dock)
                              /\ Opening(who[i], Dock)' <=> Opening(who[i], Dock)
                              /\ (at'[who[i]] = Dock /\ pc'[who[i]] = "open")
                                   <=> (at[who[i]] = Dock /\ pc[who[i]] = "open")
    BY <1>4, <1>9, <2>4 DEF Same, Arrived, Opening, Here, At
  <2>6. ~Arrived(crew[c], Dock)' /\ ~Opening(crew[c], Dock)'
    BY <1>6, <1>9 DEF Arrived, Opening, Here, At, Barriers
  <2>7. bar'[Dock] = bar[Dock]
    BY <1>4
  <2>8. Round(Dock, n, c + 1, crew)'
    BY <1>1, <2>2, <2>3, <2>5, <2>6, <2>7, RoundCreates
  <2> QED BY <1>4, <2>1, <2>8
<1>16. Expected(c + 1)' = Size' /\ Used' # 0
  BY <1>1, <1>4, <1>5, <1>7 DEF Expected, Maximum, Several
<1>17. MasterGathers(c + 1)'
  <2>1. Several'
    BY <1>4, <1>5 DEF Several
  <2>2. Older' <= index' /\ index' <= Size' /\ c + 1 = index'
    <3>1. Older \in Nat
      BY <1>1 DEF Older, TypeOK
    <3> QED BY <1>1, <1>4, <1>5, <3>1 DEF Several
  <2> QED BY <1>4, <1>5, <1>7, <2>1, <2>2 DEF MasterGathers
<1>18. Gather(c + 1, crew)'
  <2>1. Full(team, Size)'
    BY <1>2, <1>4, <1>5 DEF Full
  <2>2. Round(Dock, Expected(c + 1), c + 1, crew)'
    BY <1>15, <1>16
  <2> QED BY <1>7, <1>13, <1>16, <1>17, <2>1, <2>2 DEF Gather
<1>19. Teams'
  BY <1>4, <1>2, TeamsStay
<1>20. Counts("gather", crew)'
  <2>1. \A i : ~HasRun("gather", i, who) /\ ~HasRun("gather", i, crew)'
    BY <1>2, <1>4, <1>7 DEF HasRun, At, Barriers
  <2> QED BY <1>2, <1>4, <2>1 DEF Counts
<1> QED BY <1>14, <1>18, <1>19, <1>20 DEF Inv, Staged

LEMMA ReleasedStep ==
  ASSUME NEW stage \in Stages, NEW c, NEW who, Inv(stage, c, who), TypeOK', Released
  PROVE  Inv("run", c, who)'
<1>1. /\ TypeOK /\ Members(c, who) /\ Apart(c, who) /\ c \in Nat \ {0} /\ who[0] = Master
      /\ Master \in Threads /\ Workers \subseteq Threads /\ Master \notin Workers
      /\ TeamIds = RegionIds /\ Dock \notin TeamIds /\ old_threads_used \in Nat
      /\ (region \in RegionIds => Size \in Nat \ {0})
  BY Basics
<1>2. stage = "run" /\ Run(c, who)
  BY MasterStage DEF Released
<1>3. /\ pc[Master] = "docked" /\ pc'[Master] = "body"
      /\ \A t \in Threads \ {Master} : pc'[t] = pc[t] /\ local'[t] = local[t]
      /\ local'[Master] = [fn |-> region, team |-> team]
      /\ region' = region /\ team' = team /\ index' = index /\ old_threads_used' = old_threads_used
      /\ at' = at /\ ret' = ret /\ seen' = seen /\ thr' = thr /\ ran' = ran /\ status' = status
      /\ pool' = pool /\ Size' = Size
  BY <1>1 DEF Released, Goto, TypeOK, masterVars, Size
<1>4. bar' = IF Size < old_threads_used THEN [bar EXCEPT ![Dock] = Reinit(bar[Dock], Size)] ELSE bar
  BY DEF Released
<1>5. bar[Dock] \in Counters /\ Full(Dock, Maximum(old_threads_used, Size)) /\ Size \in Nat
  <2>1. MasterRuns /\ Several
    BY <1>2 DEF Run
  <2>2. Full(Dock, Maximum(old_threads_used, Size))
    BY <1>3, <2>1 DEF MasterRuns, Here, At, Barriers
  <2> QED BY <1>1, <2>1, <2>2 DEF Several, TypeOK
<1>6. /\ \A b \in TeamIds : bar'[b] = bar[b]
      /\ bar'[Dock].generation = bar[Dock].generation /\ Full(Dock, Size)'
  <2>1. bar \in [TeamIds \cup {Dock} -> Counters]
    BY <1>1 DEF TypeOK
  <2>2. CASE Size < old_threads_used
    <3>1. /\ bar'[Dock] = Reinit(bar[Dock], Size)
          /\ \A b \in TeamIds : bar'[b] = bar[b]
      BY <1>1, <1>4, <2>1, <2>2
    <3>2. bar[Dock].awaited = old_threads_used /\ bar[Dock].total = old_threads_used
      BY <1>1, <1>5, <2>2 DEF Full, Maximum
    <3>3. /\ Reinit(bar[Dock], Size).total = Size
          /\ Reinit(bar[Dock], Size).awaited = bar[Dock].awaited + Size - bar[Dock].total
          /\ Reinit(bar[Dock], Size).generation = bar[Dock].generation
      BY <1>5 DEF Reinit, Counters
    <3>4. bar[Dock].awaited + Size - bar[Dock].total = Size
      BY <1>1, <1>5, <3>2
    <3> QED BY <1>3, <3>1, <3>3, <3>4 DEF Full
  <2>3. CASE ~(Size < old_threads_used)
    <3>1. bar' = bar /\ Maximum(old_threads_used, Size) = Size
      BY <1>1, <1>4, <1>5, <2>3 DEF Maximum
    <3> QED BY <1>3, <1>5, <3>1 DEF Full
  <2> QED BY <2>2, <2>3
<1>7. OthersStay(Master)
  BY <1>3 DEF OthersStay, Same
<1>8. MasterRuns'
  BY <1>3, <1>6 DEF MasterRuns
<1>9. /\ ~Arrived(Master, team) /\ ~Opening(Master, team) /\ ~At(Master, team)
      /\ ~Arrived(Master, team)' /\ ~Opening(Master, team)' /\ ~At(Master, team)'
  BY <1>3 DEF Arrived, Opening, Here, At, Barriers
<1>10. Counts("run", who)'
  <2>1. \A i \in 0 .. c - 1 : HasRun("run", i, who)' <=> HasRun("run", i, who)
    <3> SUFFICES ASSUME NEW i \in 0 .. c - 1
                 PROVE  HasRun("run", i, who)' <=> HasRun("run", i, who)
      OBVIOUS
    <3>1. At(who[i], team)' <=> At(who[i], team)
      <4>1. CASE who[i] = Master
        BY <1>9, <4>1
      <4>2. CASE who[i] # Master
        <5>1. Same(who[i])
          BY <1>1, <1>7, <4>2 DEF OthersStay, Apart
        <5> QED BY <1>3, <5>1 DEF At, Same
      <4> QED BY <4>1, <4>2
    <3> QED BY <1>3, <3>1 DEF HasRun
  <2>2. \A r \in RegionIds : \A i \in Ids : r = region /\ i < Regions[r].threads => i \in 0 .. c - 1
    BY <1>1, <1>2, RoomForAll, Sizes DEF Run, Size, Ids
  <2>3. Counts("run", who)
    BY <1>2, Basics
  <2> QED BY <1>3, <2>1, <2>2, <2>3 DEF Counts
<1>11. Inv("run", c, who) /\ 0 \in 0 .. c - 1
  BY <1>1, <1>2
<1> QED BY <1>1, <1>3, <1>6, <1>7, <1>8, <1>9, <1>10, <1>11, RunMoves

-----------------------------------------------------------------------------
(* The master ends a team, and exits. *)

(* The region is over: its team goes, or becomes the one that is kept.     *)
LEMMA TeamEndStep ==
  ASSUME NEW stage \in Stages, NEW c, NEW who, Inv(stage, c, who), TypeOK', TeamEnd
  PROVE  Inv("gather", c, who)'
<1>1. /\ TypeOK /\ Members(c, who) /\ Teams /\ c \in Nat \ {0} /\ Used \in Nat
      /\ Master \in Threads /\ Workers \subseteq Threads /\ Master \notin Workers
      /\ (region \in RegionIds => Size \in Nat \ {0}) /\ region \in Nat
      /\ TeamIds = RegionIds /\ team \in TeamIds \cup {NoTeam} /\ RegionIds \subseteq Nat
      /\ thr[Master].id = 0 /\ NULL \notin RegionIds
  BY Basics, Sizes DEF Members
<1>2. /\ stage = "gather" /\ Inv("gather", c, who) /\ Gather(c, who) /\ MasterGathers(c) /\ Counts("gather", who)
      /\ team # NoTeam => Full(team, Size)
      /\ ~Arrived(Master, Dock) /\ ~Opening(Master, Dock) /\ \A b : ~At(Master, b)
      /\ pool.last_team \in TeamIds \cup {NoTeam}
  BY GatherBasics DEF TeamEnd
<1>3. /\ pc[Master] = "team_end" /\ pc'[Master] = "idle" /\ region' = region + 1 /\ team' = NoTeam
      /\ \A w \in Workers : pc'[w] = pc[w] /\ thr'[w] = thr[w]
      /\ index' = index /\ old_threads_used' = old_threads_used
      /\ at' = at /\ ret' = ret /\ seen' = seen /\ local' = local /\ ran' = ran /\ bar' = bar
  BY <1>1 DEF TeamEnd, Goto, TypeOK, barrierVars
<1>4. thr'[Master].id = 0
  <2>1. thr'[Master] = [thr[Master] EXCEPT !.team = NoTeam] /\ thr[Master] \in Records
    BY <1>1 DEF TeamEnd, TypeOK
  <2> QED BY <1>1, <2>1 DEF Records
<1>5. /\ region \in RegionIds /\ team \in TeamIds /\ team # NoTeam /\ bar[team].total = Size /\ bar[team].awaited = Size
      /\ Size \in Nat \ {0}
      /\ (Alone /\ c = Known) \/ (Ending /\ Used = Size /\ c = Used)
  <2>1. (Alone /\ team # NoTeam /\ c = Known) \/ (Ending /\ team # NoTeam /\ Used = Size /\ c = Used)
    BY <1>2, <1>3 DEF MasterGathers, Here, At, Barriers
  <2>2. region \in RegionIds
    BY <2>1 DEF Alone, Ending, Several
  <2> QED BY <1>1, <1>2, <2>1, <2>2 DEF Full
<1>6. /\ pool'.threads_used = pool.threads_used /\ pool'.threads = pool.threads /\ pool'.freed = pool.freed
      /\ \/ /\ Size = 1 /\ pool'.last_team = pool.last_team /\ status'[team] = "freed"
            /\ \A k \in TeamIds : k # team => status'[k] = status[k]
         \/ /\ Size > 1 /\ pool'.last_team = team
            /\ status' = [k \in TeamIds |-> IF k = pool.last_team THEN "freed" ELSE status[k]]
  <2>1. pool \in Pools /\ status \in [TeamIds -> {"none", "live", "freed"}]
    BY <1>1 DEF TypeOK
  <2>2. CASE Size = 1
    BY <1>5, <2>1, <2>2 DEF TeamEnd
  <2>3. CASE Size > 1
    <3>1. /\ status' = [k \in TeamIds |-> IF k = pool.last_team THEN "freed" ELSE status[k]]
          /\ pool' = [pool EXCEPT !.last_team = team]
      BY <1>5, <2>3 DEF TeamEnd
    <3> QED BY <2>1, <2>3, <3>1 DEF Pools
  <2> QED BY <1>5, <2>2, <2>3
<1>7. Used' = Used /\ Known' = Known /\ c = Known
  <2>1. Used' = Used /\ Known' = Known
    BY <1>6 DEF Used, Known
  <2> QED BY <1>5, <2>1 DEF Known
<1>8. Quiet
  BY <1>3 DEF Quiet
<1>9. Members(c, who)'
  <2>1. \A t \in Threads : thr'[t].id = thr[t].id
    BY <1>1, <1>3, <1>4 DEF Threads
  <2> QED BY <1>1, <1>3, <1>6, <1>8, <2>1, MembersStay
<1>10. /\ Kept # NoTeam /\ (Alone => Kept # team) => Kept' = Kept
       /\ Size > 1 => Ending
       /\ ~Creating
  <2>1. ~Ending' /\ ~Creating
    BY <1>2, <1>3 DEF Ending, Creating
  <2>2. CASE Size = 1
    <3>1. ~Ending /\ Alone
      BY <1>5, <2>2 DEF Ending, Several, Alone
    <3> QED BY <1>3, <1>6, <2>1, <2>2, <3>1 DEF Kept
  <2>3. CASE Size > 1
    <3>1. Ending
      BY <1>3, <1>5, <2>3 DEF Ending, Several
    <3> QED BY <1>3, <1>5, <1>6, <2>1, <2>3, <3>1 DEF Kept
  <2> QED BY <1>5, <2>2, <2>3
<1>11. \A i : Given(i) = NULL /\ Given(i)' = NULL
  BY <1>2, <1>3 DEF Given, At, Barriers
<1>12. \A i \in 1 .. c - 1 : WorkerGathers(i, who[i])'
  <2>1. \A i \in 1 .. c - 1 : Told(i, who[i]) => Told(i, who[i])'
    <3>1. region' # NULL
      BY <1>1, <1>3 DEF NULL
    <3>2. \A i \in 1 .. c - 1 : thr'[who[i]] = thr[who[i]]
      BY <1>1, <1>3 DEF Members
    <3> QED BY <1>11, <3>1, <3>2 DEF Told
  <2> QED BY <1>2, <1>3, <1>8, <1>10, <2>1, WorkersStay
<1>13. ~Arrived(Master, Dock)' /\ ~Opening(Master, Dock)'
  BY <1>3 DEF Arrived, Opening, Here, At, Barriers
<1>14. IF Used' = 0 THEN \A w \in Workers : pc'[w] = "unborn" ELSE Round(Dock, Expected(c), c, who)'
  <2>1. CASE Used = 0
    BY <1>2, <1>3, <1>7, <2>1 DEF Gather
  <2>2. CASE Used # 0
    <3>1. Round(Dock, c, c, who) /\ c \in Nat /\ Expected(c)' = c
      BY <1>1, <1>2, <1>3, <2>2, DockRound DEF Expected
    <3>2. Round(Dock, c, c, who)'
      BY <1>1, <1>2, <1>3, <1>8, <1>13, <3>1, DockStays
    <3> QED BY <1>7, <2>2, <3>1, <3>2
  <2> QED BY <2>1, <2>2
<1>15. MasterGathers(c)'
  BY <1>3, <1>7 DEF MasterGathers
<1>16. Gather(c, who)'
  BY <1>3, <1>12, <1>14, <1>15 DEF Gather
<1>17. Teams'
  <2>1. /\ team <= region /\ status[team] = "live" /\ team # pool.last_team
        /\ pool.last_team # NoTeam => /\ pool.last_team < region /\ status[pool.last_team] = "live"
                                      /\ bar[pool.last_team].total > 1
                                      /\ Full(pool.last_team, bar[pool.last_team].total)
        /\ Used # 1 /\ ~pool.freed
    BY <1>1, <1>3, <1>5 DEF Teams
  <2>2. CASE /\ Size = 1 /\ pool'.last_team = pool.last_team /\ status'[team] = "freed"
             /\ \A k \in TeamIds : k # team => status'[k] = status[k]
    <3>1. pool.last_team # NoTeam => pool.last_team \in TeamIds /\ pool.last_team \in Nat /\ status'[pool.last_team] = "live"
      BY <1>1, <1>2, <2>1, <2>2
    <3> QED BY <1>1, <1>3, <1>6, <1>7, <2>1, <2>2, <3>1 DEF Teams, Full
  <2>3. CASE /\ Size > 1 /\ pool'.last_team = team
             /\ status' = [k \in TeamIds |-> IF k = pool.last_team THEN "freed" ELSE status[k]]
    <3>1. status'[team] = "live"
      BY <1>5, <2>1, <2>3
    <3>2. team \in Nat /\ team < region + 1
      BY <1>1, <1>5, <2>1
    <3>3. bar'[pool'.last_team].total = Size /\ bar'[pool'.last_team].awaited = Size
      BY <1>3, <1>5, <2>3
    <3> QED BY <1>1, <1>3, <1>5, <1>6, <1>7, <2>1, <2>3, <3>1, <3>2, <3>3 DEF Teams, Full
  <2> QED BY <1>6, <2>2, <2>3
<1>18. Counts("gather", who)'
  <2>1. \A i : HasRun("gather", i, who)
    BY <1>3 DEF HasRun
  <2>2. \A i : ~HasRun("gather", i, who)'
    BY <1>3 DEF HasRun, At, Barriers
  <2>3. \A r \in RegionIds : (r < region \/ r = region) <=> r < region'
    BY <1>1, <1>3
  <2> QED BY <1>2, <1>3, <2>1, <2>2, <2>3 DEF Counts
<1> QED BY <1>9, <1>16, <1>17, <1>18 DEF Inv, Staged

LEMMA UndockingStep ==
  ASSUME NEW stage \in Stages, NEW c, NEW who, Inv(stage, c, who), TypeOK', Undocking
  PROVE  IInv'
<1>1. /\ TypeOK /\ Members(c, who) /\ Apart(c, who) /\ c \in Nat \ {0} /\ index \in Nat \ {0} /\ Used \in Nat
      /\ Master \in Threads /\ Workers \subseteq Threads /\ Master \notin Workers /\ who[0] = Master
      /\ team \in TeamIds \cup {NoTeam} /\ Dock \notin TeamIds /\ Dock # NoTeam
  BY Basics
<1>2. /\ region' = region /\ team' = team /\ index' = index /\ old_threads_used' = old_threads_used
      /\ ran' = ran /\ status' = status /\ bar' = bar /\ pool' = pool /\ thr' = thr /\ local' = local
      /\ Used' = Used
  BY DEF Undocking, masterVars, Used
<1>3. CASE pc[Master] = "free_threads" /\ index >= Used /\ Enter(Master, Dock, "undocked")
  <2>1. MasterGathers(c) /\ \A b : ~At(Master, b)
    BY <1>3, GatherBasics
  <2>2. team = NoTeam /\ region \notin RegionIds /\ Used > 1 /\ c = Used
    BY <1>3, <2>1 DEF MasterGathers, Here, Ending, Alone, Several, At, Barriers
  <2>3. /\ pc'[Master] = "load" /\ at'[Master] = Dock /\ ret'[Master] = "undocked" /\ seen' = seen
        /\ \A w \in Threads \ {Master} : pc'[w] = pc[w] /\ at'[w] = at[w] /\ ret'[w] = ret[w]
        /\ pc'[Master] \notin {"team_end", "wait", "gone"} /\ Here(Master, Dock)' /\ At(Master, Dock)'
        /\ ~Arrived(Master, Dock)' /\ ~Opening(Master, Dock)' /\ ~At(Master, team)'
    BY <1>1, <1>2, <1>3, MasterEnters
  <2>4. Quiet
    BY <1>1, <1>2, <2>3 DEF Quiet
  <2>5. MasterGathers(c)'
    BY <1>2, <2>2, <2>3 DEF MasterGathers
  <2>6. Expected(c)' = Expected(c) /\ ~Creating
    BY <1>3, <2>1, <2>3 DEF Expected, Creating
  <2>7. \A i \in 1 .. c - 1 : Told(i, who[i]) => Told(i, who[i])'
    <3>1. \A i \in 1 .. c - 1 : Given(i) = Helper /\ Given(i)' = Helper
      <4>1. \A i \in 1 .. c - 1 : i < index
        BY <1>1, <1>3, <2>2
      <4> QED BY <1>3, <2>1, <2>3, <4>1 DEF Given, At, Barriers
    <3> QED BY <1>2, <3>1 DEF Told
  <2>8. pc[Master] \in {"idle", "free_threads", "team_start", "assign", "create"}
    BY <1>3
  <2>9. Inv("gather", c, who)'
    BY <1>2, <2>3, <2>4, <2>5, <2>6, <2>7, <2>8, GatherGoesOn
  <2> QED BY <2>9 DEF IInv, Stages
<1>4. CASE pc[Master] = "undocked" /\ Enter(Master, Dock, "unmanage")
  <2>1. stage = "exit" /\ Exit(c, who)
    BY <1>4, MasterStage
  <2>2. /\ pc'[Master] = "load" /\ at'[Master] = Dock /\ ret'[Master] = "unmanage" /\ seen' = seen
        /\ \A w \in Threads \ {Master} : pc'[w] = pc[w] /\ at'[w] = at[w] /\ ret'[w] = ret[w]
    BY <1>1, <1>4 DEF Enter, Goto, TypeOK
  <2>3. MasterExits' /\ OthersStay(Master)
    BY <1>2, <2>2 DEF MasterExits, Here, At, Barriers, OthersStay, Same
  <2>4. ~Arrived(Master, Dock) /\ ~Opening(Master, Dock) /\ ~Arrived(Master, Dock)' /\ ~Opening(Master, Dock)'
    BY <1>4, <2>2 DEF Arrived, Opening, Here, At, Barriers
  <2>5. Inv("exit", c, who) /\ 0 \in 0 .. c - 1
    BY <1>1, <2>1
  <2>6. Inv("exit", c, who)'
    BY <1>1, <1>2, <2>3, <2>4, <2>5, ExitMoves
  <2> QED BY <2>6 DEF IInv, Stages
<1> QED BY <1>3, <1>4 DEF Undocking, Used

(* Nobody is left to wait for. *)
LEMMA OverSteps ==
  ASSUME NEW stage \in Stages, NEW c, NEW who, Inv(stage, c, who), TypeOK', Unmanage \/ FreePool
  PROVE  Inv("over", c, who)'
<1>1. /\ TypeOK /\ Members(c, who) /\ Teams /\ c \in Nat \ {0} /\ Counts(stage, who)
      /\ Master \in Threads /\ Workers \subseteq Threads /\ Master \notin Workers
      /\ TeamIds = RegionIds
  BY Basics
<1>2. stage = "over" /\ Over(c)
  BY MasterStage DEF Unmanage, FreePool
<1>3. /\ region' = region /\ team' = team /\ index' = index /\ old_threads_used' = old_threads_used
      /\ ran' = ran /\ bar' = bar /\ thr' = thr /\ local' = local
      /\ at' = at /\ ret' = ret /\ seen' = seen
      /\ \A w \in Threads \ {Master} : pc'[w] = pc[w]
      /\ pc'[Master] \in {"free_pool", "gone"}
  BY <1>1 DEF Unmanage, FreePool, masterVars, barrierVars, Goto, TypeOK
<1>4. /\ pool'.threads_used = pool.threads_used /\ pool'.threads = pool.threads
      /\ pool'.last_team = pool.last_team
      /\ \/ pc[Master] # "gone" /\ pool' = pool /\ status' = status
         \/ pc'[Master] = "gone"
  <2>1. pool \in Pools
    BY <1>1 DEF TypeOK
  <2>2. CASE Unmanage
    BY <2>2 DEF Unmanage
  <2>3. CASE FreePool
    <3>1. pool' = [pool EXCEPT !.freed = TRUE] /\ pc'[Master] = "gone"
      BY <1>1, <2>3 DEF FreePool, Goto, TypeOK
    <3> QED BY <2>1, <3>1 DEF Pools
  <2> QED BY <2>2, <2>3
<1>5. Over(c)'
  BY <1>2, <1>3 DEF Over
<1>6. Members(c, who)'
  <2>1. Quiet
    BY <1>1, <1>3 DEF Quiet
  <2> QED BY <1>1, <1>3, <1>4, <2>1, MembersStay
<1>7. Teams'
  <2>1. team = NoTeam
    BY <1>2 DEF Over
  <2> QED BY <1>1, <1>3, <1>4, <2>1 DEF Teams, Full, Used
<1>8. Counts("over", who)'
  <2>1. region \notin RegionIds
    BY <1>2 DEF Over
  <2> QED BY <1>1, <1>2, <1>3, <2>1 DEF Counts
<1> QED BY <1>5, <1>6, <1>7, <1>8 DEF Inv, Staged

LEMMA Stutter ==
  ASSUME NEW stage \in Stages, NEW c, NEW who, Inv(stage, c, who), TypeOK', UNCHANGED vars
  PROVE  Inv(stage, c, who)'
<1>1. /\ region' = region /\ team' = team /\ index' = index /\ old_threads_used' = old_threads_used
      /\ pool' = pool /\ bar' = bar /\ at' = at /\ ret' = ret /\ seen' = seen /\ status' = status
      /\ thr' = thr /\ local' = local /\ ran' = ran /\ pc' = pc
  BY DEF vars, masterVars, barrierVars
<1>2. Size' = Size /\ Used' = Used /\ Known' = Known /\ Older' = Older
      /\ (Several' <=> Several) /\ (Alone' <=> Alone)
  BY <1>1 DEF Size, Used, Known, Older, Several, Alone
<1>3. /\ \A t \in Threads : Same(t)
      /\ (Ending' <=> Ending) /\ Kept' = Kept /\ (Creating' <=> Creating) /\ \A i : Given(i)' = Given(i)
      /\ MasterGathers(c) => MasterGathers(c)'
      /\ Expected(c)' = Expected(c) /\ (Opening(Master, team)' <=> Opening(Master, team))
  <2>1. \A t : Same(t)
    BY <1>1 DEF Same
  <2> QED BY <1>1, <2>1, MasterStays
<1>4. /\ TypeOK /\ Members(c, who) /\ Teams /\ Counts(stage, who) /\ Apart(c, who) /\ c \in Nat
      /\ Staged(stage, c, who)
      /\ \A i \in 1 .. c - 1 : who[i] \in Workers
  BY Basics DEF Inv
<1>5. Members(c, who)'
  <2>1. Quiet
    BY <1>1 DEF Quiet
  <2> QED BY <1>1, <1>4, <2>1, MembersStay
<1>6. Teams'
  BY <1>1, <1>2, <1>4 DEF Teams, Full
<1>7. Counts(stage, who)'
  <2>1. \A i : HasRun(stage, i, who)' <=> HasRun(stage, i, who)
    BY <1>1 DEF HasRun, At
  <2> QED BY <1>1, <1>4, <2>1 DEF Counts
<1>8. ASSUME NEW b, NEW n, Round(b, n, c, who)
      PROVE  Round(b, n, c, who)'
  BY <1>1, <1>8 DEF Round, Missing, Arrived, Opening, Here, At
<1>9. CASE stage = "gather"
  <2>1. Gather(c, who)
    BY <1>4, <1>9 DEF Staged
  <2>2. \A i \in 1 .. c - 1 : WorkerGathers(i, who[i])'
    <3>1. \A i \in 1 .. c - 1 : Stays(who[i])
      BY <1>1 DEF Stays
    <3>2. \A i : Told(i, who[i]) => Told(i, who[i])'
      BY <1>1, <1>3 DEF Told
    <3>3. \A i : FromKept(who[i]) => FromKept(who[i])'
      BY <1>1, <1>2, <1>3 DEF FromKept
    <3> QED BY <1>1, <1>2, <1>3, <1>4, <2>1, <3>1, <3>2, <3>3, WorkerStays DEF Gather
  <2>3. Gather(c, who)'
    BY <1>1, <1>2, <1>3, <1>8, <2>1, <2>2 DEF Gather, Full
  <2> QED BY <1>5, <1>6, <1>7, <1>9, <2>3 DEF Inv, Staged
<1>10. CASE stage = "run"
  <2>1. Run(c, who)
    BY <1>4, <1>10 DEF Staged
  <2>2. MasterRuns'
    BY <1>1, <1>2, <2>1 DEF Run, MasterRuns, LetGo, Here, At, Full
  <2>3. \A i \in 1 .. c - 1 : WorkerRuns(who[i])'
    BY <1>1, <2>1 DEF Run, WorkerRuns, LetGo, Here, At
  <2>4. Run(c, who)'
    BY <1>1, <1>2, <1>8, <2>1, <2>2, <2>3 DEF Run
  <2> QED BY <1>5, <1>6, <1>7, <1>10, <2>4 DEF Inv, Staged
<1>11. CASE stage = "exit"
  <2>1. Exit(c, who)
    BY <1>4, <1>11 DEF Staged
  <2>2. MasterExits'
    BY <1>1, <2>1 DEF Exit, MasterExits, LetGo, Here, At
  <2>3. \A i \in 1 .. c - 1 : WorkerExits(who[i])'
    BY <1>1, <2>1 DEF Exit, WorkerExits, LetGo, Here, At
  <2>4. Exit(c, who)'
    BY <1>1, <1>2, <1>8, <2>1, <2>2, <2>3 DEF Exit
  <2> QED BY <1>5, <1>6, <1>7, <1>11, <2>4 DEF Inv, Staged
<1>12. CASE stage = "over"
  <2>1. Over(c)'
    BY <1>1, <1>4, <1>12 DEF Staged, Over, LetGo
  <2> QED BY <1>5, <1>6, <1>7, <1>12, <2>1 DEF Inv, Staged
<1> QED BY <1>9, <1>10, <1>11, <1>12 DEF Stages

LEMMA InitHolds == Init => IInv
<1> SUFFICES ASSUME Init
             PROVE  IInv
  OBVIOUS
<1>1. PICK who : who = [i \in 0 .. 1 - 1 |-> Master]
  OBVIOUS
<1>2. /\ region = 1 /\ team = NoTeam /\ index = 1 /\ old_threads_used = 0
      /\ pool = [threads_used |-> 0, last_team |-> NoTeam, freed |-> FALSE,
                 threads |-> [i \in Ids |-> NoThread]]
      /\ bar = [b \in TeamIds \cup {Dock} |-> [awaited |-> 0, total |-> 0, generation |-> 0]]
      /\ status = [k \in TeamIds |-> "none"]
      /\ thr = [t \in Threads |-> [team |-> NoTeam, id |-> 0, fn |-> NULL]]
      /\ local = [t \in Threads |-> [fn |-> NULL, team |-> NoTeam]]
      /\ at = [t \in Threads |-> Dock]
      /\ ret = [t \in Threads |-> "idle"]
      /\ seen = [t \in Threads |-> 0]
      /\ ran = [r \in RegionIds |-> [i \in Ids |-> 0]]
      /\ pc = [t \in Threads |-> IF t = Master THEN "idle" ELSE "unborn"]
  BY DEF Init
<1>3. Master \in Threads /\ Master \notin Workers /\ Workers \subseteq Threads
  BY MasterAssumption DEF Threads
<1>4. TypeOK
  <2>1. region \in 1 .. Len(Regions) + 1
    BY <1>2, Sizes
  <2>2. pool \in Pools
    BY <1>2 DEF Pools
  <2>3. bar \in [TeamIds \cup {Dock} -> Counters]
    BY <1>2 DEF Counters
  <2>4. thr \in [Threads -> Records]
    BY <1>2 DEF Records, Functions
  <2>5. local \in [Threads -> Locals]
    BY <1>2 DEF Locals, Functions
  <2>6. "idle" \in Places /\ "unborn" \in Places
    BY DEF Places
  <2> QED BY <1>2, <2>1, <2>2, <2>3, <2>4, <2>5, <2>6 DEF TypeOK
<1>5. Used = 0 /\ pc[Master] = "idle" /\ thr[Master].id = 0 /\ \A w \in Workers : pc[w] = "unborn"
  BY <1>2, <1>3 DEF Used
<1>6. Members(1, who)
  <2>1. \A w \in Workers : Outside(w)
    BY <1>5 DEF Outside
  <2> QED BY <1>1, <1>3, <1>5, <2>1 DEF Members
<1>7. Gather(1, who)
  BY <1>2, <1>5 DEF Gather, MasterGathers, Known
<1>8. Teams
  BY <1>2, <1>5 DEF Teams, Used
<1>9. Counts("gather", who)
  <2>1. \A i : ~HasRun("gather", i, who)
    BY <1>5 DEF HasRun, At, Barriers
  <2>2. \A r \in RegionIds : r \in Nat /\ ~(r < region)
    BY <1>2, Sizes DEF RegionIds
  <2> QED BY <1>2, <2>1, <2>2 DEF Counts
<1> QED BY <1>4, <1>6, <1>7, <1>8, <1>9 DEF Inv, Staged, IInv, Stages

LEMMA NextStep ==
  ASSUME WholeTeams, IInv, [Next]_vars
  PROVE  IInv'
<1>1. PICK stage \in Stages : \E c, who : Inv(stage, c, who)
  BY DEF IInv
<1>2. PICK c, who : Inv(stage, c, who)
  BY <1>1
<1>3. TypeOK'
  BY <1>2, TypeStep
<1>4. ASSUME NEW s \in Stages, NEW d, NEW crew, Inv(s, d, crew)'
      PROVE  IInv'
  BY <1>4 DEF IInv
<1>5. "gather" \in Stages /\ "run" \in Stages /\ "over" \in Stages /\ Master \in Threads /\ Workers \subseteq Threads
  BY <1>2, Basics DEF Stages
<1>6. ASSUME NEW t \in Threads, Step(t)
      PROVE  IInv'
  <2>1. CASE LoadGeneration(t)
    BY <1>2, <1>3, <1>4, <2>1, LoadStep
  <2>2. CASE Arrive(t)
    BY <1>2, <1>3, <1>4, <2>2, ArriveStep
  <2>3. CASE Reset(t)
    BY <1>2, <1>3, <1>4, <2>3, ResetStep
  <2>4. CASE Open(t)
    BY <1>2, <1>3, <2>4, OpenStep
  <2>5. CASE Pass(t)
    BY <1>2, <1>3, <1>4, <2>5, PassStep
  <2>6. CASE RunFn(t)
    BY <1>2, <1>3, <1>4, <2>6, RunFnStep
  <2> QED BY <1>6, <2>1, <2>2, <2>3, <2>4, <2>5, <2>6 DEF Step
<1>7. CASE MasterStep
  <2>1. CASE Step(Master)
    BY <1>5, <1>6, <2>1
  <2>2. CASE NewTeam
    BY <1>2, <1>3, <1>4, <1>5, <2>2, NewTeamStep
  <2>3. CASE TeamStart
    BY <1>2, <1>3, <1>4, <1>5, <2>3, TeamStartStep
  <2>4. CASE TeamStartAlone
    BY <1>2, <1>3, <1>4, <1>5, <2>4, TeamStartAloneStep
  <2>5. CASE AssignIdle
    BY <1>2, <1>3, <1>4, <1>5, <2>5, AssignIdleStep
  <2>6. CASE AssignDone
    BY <1>2, <1>3, <1>4, <1>5, <2>6, AssignDoneStep
  <2>7. CASE Create
    <3>1. PICK crew : Inv("gather", c + 1, crew)'
      BY <1>2, <1>3, <2>7, CreateStep
    <3> QED BY <1>4, <1>5, <3>1
  <2>8. CASE CreateDone
    BY <1>2, <1>3, <1>4, <1>5, <2>8, CreateDoneStep
  <2>9. CASE Released
    BY <1>2, <1>3, <1>4, <1>5, <2>9, ReleasedStep
  <2>10. CASE TeamEnd
    BY <1>2, <1>3, <1>4, <1>5, <2>10, TeamEndStep
  <2>11. CASE ThreadExit
    BY <1>2, <1>3, <2>11, ThreadExitStep
  <2>12. CASE AssignHelper
    BY <1>2, <1>3, <1>4, <1>5, <2>12, AssignHelperStep
  <2>13. CASE Undocking
    BY <1>2, <1>3, <2>13, UndockingStep
  <2>14. CASE Unmanage \/ FreePool
    BY <1>2, <1>3, <1>4, <1>5, <2>14, OverSteps
  <2> QED BY <1>7, <2>1, <2>2, <2>3, <2>4, <2>5, <2>6, <2>7, <2>8, <2>9, <2>10, <2>11, <2>12, <2>13,
             <2>14 DEF MasterStep
<1>8. ASSUME NEW w \in Workers, WorkerStep(w)
      PROVE  IInv'
  <2>1. CASE Step(w)
    BY <1>5, <1>6, <2>1
  <2>2. CASE ThreadStart(w)
    BY <1>2, <1>3, <1>4, <2>2, ThreadStartStep
  <2>3. CASE FinishTask(w)
    BY <1>2, <1>3, <1>4, <2>3, FinishTaskStep
  <2>4. CASE Undock(w)
    BY <1>2, <1>3, <1>4, <2>4, UndockStep
  <2> QED BY <1>8, <2>1, <2>2, <2>3, <2>4 DEF WorkerStep
<1>9. CASE UNCHANGED vars
  BY <1>2, <1>3, <1>4, <1>9, Stutter
<1> QED BY <1>7, <1>8, <1>9 DEF Next

THEOREM Invariance == WholeTeams => (Spec => []IInv)
<1> SUFFICES ASSUME WholeTeams
             PROVE  Spec => []IInv
  OBVIOUS
<1>1. IInv /\ [Next]_vars => IInv'
  BY NextStep
<1> QED BY <1>1, InitHolds, PTL DEF Spec

-----------------------------------------------------------------------------

(* gomp_team_end waits: when the master is past a region, every thread of  *)
(* its team has run the region's function once, however the pool has grown *)
(* or shrunk since, and whichever team has been used again.                *)
THEOREM TeamsAreWaitedFor == WholeTeams => (Spec => []TeamEndWaits)
<1>1. IInv => TeamEndWaits
  <2> SUFFICES ASSUME NEW stage \in Stages, NEW c, NEW who, Inv(stage, c, who)
               PROVE  TeamEndWaits
    BY DEF IInv
  <2> SUFFICES ASSUME NEW r \in RegionIds, r < region, NEW i \in 0 .. Regions[r].threads - 1
               PROVE  ran[r][i] = 1
    BY DEF TeamEndWaits
  <2>1. i \in Ids /\ i < Regions[r].threads
    BY RoomForAll, Sizes DEF Ids
  <2> QED BY <2>1 DEF Inv, Counts
<1> QED BY <1>1, Invariance, PTL

(* gomp_team_start and gomp_thread_start hand each thread of the pool the  *)
(* function and the number of the present region, or none: no function of  *)
(* an earlier region is run again, nor one under a number twice.           *)
THEOREM NobodyIsStale == WholeTeams => (Spec => []NoStaleFunction)
<1>1. IInv => NoStaleFunction
  <2> SUFFICES ASSUME NEW stage \in Stages, NEW c, NEW who, Inv(stage, c, who)
               PROVE  NoStaleFunction
    BY DEF IInv
  <2>1. \A r \in RegionIds : \A i \in Ids : ran[r][i] <= IF i < Regions[r].threads THEN 1 ELSE 0
    <3> SUFFICES ASSUME NEW r \in RegionIds, NEW i \in Ids
                 PROVE  ran[r][i] <= IF i < Regions[r].threads THEN 1 ELSE 0
      OBVIOUS
    <3>1. \/ ran[r][i] = 1 /\ i < Regions[r].threads
          \/ ran[r][i] = 0
      BY DEF Inv, Counts
    <3> QED BY <3>1
  <2>2. ASSUME NEW t \in Threads, pc[t] = "body"
        PROVE  \E i \in 0 .. c - 1 : t = who[i] /\ thr[t].id = i
    <3>1. Members(c, who) /\ c \in Nat \ {0} /\ (t # Master => t \in Workers)
      BY Basics
    <3>2. CASE t = Master
      BY <3>1, <3>2 DEF Members
    <3>3. CASE t # Master
      <4>1. PICK i \in 1 .. c - 1 : t = who[i]
        BY <2>2, <3>1, <3>3 DEF Members, Outside, LetGo
      <4>2. i \in 0 .. c - 1
        BY <3>1
      <4> QED BY <3>1, <4>1, <4>2 DEF Members
    <3> QED BY <3>2, <3>3
  <2>3. ASSUME NEW t \in Threads, NEW u \in Threads, t # u, pc[t] = "body", pc[u] = "body"
        PROVE  local[t] = local[u] /\ thr[t].id # thr[u].id
    <3>1. local[t] = [fn |-> region, team |-> team] /\ local[u] = [fn |-> region, team |-> team]
      BY <2>3, InRegion
    <3> QED BY <2>2, <2>3, <3>1
  <2> QED BY <2>1, <2>3 DEF NoStaleFunction
<1> QED BY <1>1, Invariance, PTL

(* Where the invariant puts a thread, what it looks at has not been freed; *)
(* only one that has been let go may still be at the dock.                 *)
LEMMA FreedIsLeft == IInv => TeamOutlivesUse /\ OnlyLetGoAtFreedDock
<1> SUFFICES ASSUME NEW stage \in Stages, NEW c, NEW who, Inv(stage, c, who), NEW t \in Threads
             PROVE  /\ ~UsesTeam(t)
                    /\ pc[t] = "start" => pc[Master] \in {"create", "load", "arrive", "wait"}
                    /\ pool.freed /\ AtDock(t) => pc[t] = "wait" /\ thr[t].fn = NULL
  BY DEF IInv, TeamOutlivesUse, OnlyLetGoAtFreedDock
<1>1. /\ Members(c, who) /\ Teams /\ Staged(stage, c, who) /\ c \in Nat \ {0}
      /\ who[0] = Master /\ (\A i \in 1 .. c - 1 : who[i] \in Workers) /\ (t # Master => t \in Workers)
      /\ TeamIds = RegionIds /\ Dock \notin TeamIds /\ NoTeam \notin TeamIds
      /\ team \in TeamIds \cup {NoTeam} /\ Kept \in TeamIds \cup {NoTeam}
      /\ (Kept = pool.last_team \/ Kept = team)
  BY Basics, KeptInTeams DEF Inv
<1>2. /\ team # NoTeam => status[team] # "freed"
      /\ Kept # NoTeam /\ pc[Master] # "gone" => status[Kept] # "freed"
  BY <1>1 DEF Teams
<1>3. CASE t # Master /\ Outside(t)
  <2>1. pc[t] \notin Barriers \/ (at[t] = Dock /\ pc[t] = "wait" /\ thr[t].fn = NULL)
    BY <1>3 DEF Outside, LetGo, Barriers
  <2>2. pc[t] \notin {"start", "body", "finish_task"}
    BY <1>3 DEF Outside, LetGo
  <2> QED BY <2>1, <2>2 DEF UsesTeam, AtDock, Barriers
<1>4. CASE t # Master /\ \E i \in 1 .. c - 1 : t = who[i]
  <2>1. PICK i \in 1 .. c - 1 : t = who[i]
    BY <1>4
  <2>2. CASE stage = "gather"
    <3>1. Gather(c, who) /\ MasterGathers(c) /\ WorkerGathers(i, t)
      BY <1>1, <2>1, <2>2 DEF Staged, Gather
    <3>2. pc[Master] # "gone"
      BY <3>1 DEF MasterGathers, Here, At, Barriers, Ending
    <3>3. Creating => Several /\ team # NoTeam /\ Used = Size
      BY <3>1 DEF MasterGathers, Creating, Here, At, Barriers, Ending, Alone, Several
    <3>4. ~UsesTeam(t)
      BY <1>2, <3>1, <3>2, <3>3 DEF WorkerGathers, FromKept, UsesTeam, Here, At, Barriers
    <3>5. pc[t] = "start" => pc[Master] \in {"create", "load", "arrive", "wait"}
      <4> SUFFICES ASSUME pc[t] = "start"
                   PROVE  pc[Master] \in {"create", "load", "arrive", "wait"}
        OBVIOUS
      <4>1. Creating /\ Used # 0
        <5>1. Creating
          BY <3>1 DEF WorkerGathers, Here, At, Barriers
        <5> QED BY <3>3, <5>1, Basics DEF Several
      <4>2. Round(Dock, Expected(c), c, who) /\ Expected(c) \in Nat /\ c <= Expected(c)
        BY <2>2, <4>1, DockRound
      <4>3. i \in Missing(Dock, Expected(c), c, who)
        <5>1. ~Arrived(who[i], Dock)
          BY <2>1 DEF Arrived, Here, At, Barriers
        <5>2. i \in 0 .. Expected(c) - 1
          BY <1>1, <4>2
        <5> QED BY <5>1, <5>2 DEF Missing
      <4>4. ~Opening(Master, Dock)
        BY <1>1, <4>2, <4>3 DEF Round
      <4> QED BY <4>1, <4>4 DEF Creating, At, Opening, Barriers
    <3>6. ~pool.freed
      BY <1>1, <3>2 DEF Teams
    <3> QED BY <3>4, <3>5, <3>6
  <2>3. CASE stage = "run"
    <3>1. Run(c, who) /\ MasterRuns /\ WorkerRuns(t)
      BY <1>1, <2>1, <2>3 DEF Staged, Run
    <3>2. pc[Master] # "gone" /\ team # NoTeam
      BY <3>1 DEF Run, MasterRuns, LetGo, Here, At, Barriers
    <3>3. ~UsesTeam(t) /\ pc[t] # "start"
      BY <1>2, <3>1, <3>2 DEF WorkerRuns, UsesTeam, LetGo, Here, At, Barriers
    <3> QED BY <1>1, <3>2, <3>3 DEF Teams
  <2>4. CASE stage = "exit"
    <3>1. Exit(c, who) /\ MasterExits /\ WorkerExits(t)
      BY <1>1, <2>1, <2>4 DEF Staged, Exit
    <3>2. pc[Master] # "gone"
      BY <3>1 DEF MasterExits, LetGo, Here, At, Barriers
    <3>3. ~UsesTeam(t) /\ pc[t] # "start"
      BY <3>1 DEF WorkerExits, UsesTeam, LetGo, Here, At, Barriers
    <3> QED BY <1>1, <3>2, <3>3 DEF Teams
  <2>5. CASE stage = "over"
    BY <1>1, <2>1, <2>5 DEF Staged, Over
  <2> QED BY <2>2, <2>3, <2>4, <2>5 DEF Stages
<1>5. CASE t = Master
  <2>1. CASE stage = "gather"
    <3>1. Gather(c, who) /\ MasterGathers(c)
      BY <1>1, <2>1 DEF Staged, Gather
    <3>2. /\ pc[Master] \notin {"gone", "start", "finish_task"}
          /\ pc[Master] = "body" => local[Master].team = team /\ team # NoTeam
          /\ pc[Master] \in Barriers => at[Master] = Dock \/ (at[Master] = team /\ team # NoTeam)
      BY <3>1 DEF MasterGathers, Here, At, Barriers, Ending
    <3> QED BY <1>1, <1>2, <1>5, <3>2 DEF UsesTeam, Teams, Barriers
  <2>2. CASE stage = "run"
    <3>1. Run(c, who) /\ MasterRuns /\ team # NoTeam
      BY <1>1, <2>2 DEF Staged, Run
    <3>2. /\ pc[Master] \notin {"gone", "start", "finish_task"}
          /\ pc[Master] = "body" => local[Master].team = team
          /\ pc[Master] \in Barriers => at[Master] = Dock \/ at[Master] = team
      BY <3>1 DEF MasterRuns, LetGo, Here, At, Barriers
    <3> QED BY <1>1, <1>2, <1>5, <3>1, <3>2 DEF UsesTeam, Teams, Barriers
  <2>3. CASE stage = "exit"
    <3>1. MasterExits
      BY <1>1, <2>3 DEF Staged, Exit
    <3>2. /\ pc[Master] \notin {"gone", "start", "body", "finish_task"}
          /\ pc[Master] \in Barriers => at[Master] = Dock
      BY <3>1 DEF MasterExits, LetGo, Here, At, Barriers
    <3> QED BY <1>1, <1>5, <3>2 DEF UsesTeam, Teams, Barriers
  <2>4. CASE stage = "over"
    <3>1. Over(c)
      BY <1>1, <2>4 DEF Staged
    <3>2. /\ pc[Master] \notin {"start", "body", "finish_task"}
          /\ pc[Master] \in Barriers => at[Master] = Dock /\ pc[Master] = "wait"
      BY <3>1 DEF Over, LetGo, Barriers
    <3> QED BY <1>1, <1>5, <3>2 DEF UsesTeam, AtDock, Teams, Barriers
  <2> QED BY <2>1, <2>2, <2>3, <2>4 DEF Stages
<1> QED BY <1>1, <1>3, <1>4, <1>5, MemberOrOutside

(* The team outlives the threads that leave its barrier or finish a task   *)
(* of it, whatever follows (gomp_team_end, gomp_free_thread), and          *)
(* start_data the threads that are created (gomp_team_start), when each    *)
(* team is made for as many threads as it is started with.                 *)
THEOREM NobodyUsesAFreedTeam == WholeTeams => (Spec => []TeamOutlivesUse)
  BY FreedIsLeft, Invariance, PTL

(* The pool, with the dock in it, does not outlive every use: those who    *)
(* still look at the dock of a freed pool (gomp_free_thread) are threads   *)
(* that a smaller region has let go, and no others.                        *)
THEOREM FreedDockLeftToLetGo == WholeTeams => (Spec => []OnlyLetGoAtFreedDock)
  BY FreedIsLeft, Invariance, PTL
=============================================================================
