-------------------------- MODULE ThreadLimitProofs --------------------------
(***************************************************************************)
(* The number of threads of a contention group stays within the limit as   *)
(* long as GOMP_parallel raises no number, which it does not when the      *)
(* initial threads agree on the first one; and no GOMP_parallel makes a    *)
(* larger team than the first ones.  All of it for any number of groups,   *)
(* programs, limit and team size.                                          *)
(***************************************************************************)
EXTENDS ThreadLimit, FiniteSetTheorems, TLAPS

Indices == 0 .. MaxTeam - 1

(* What a member has reserved for, itself included.                        *)
Limiting == {"first", "clear_first", "set_max", "compare", "lower"}
Starting == Limiting \cup {"start"}
Holding  == Starting \cup {"region", "release"}
Reserved(c) == IF ~Outside(c) /\ pc[c] \in Holding /\ num_threads[c] > 0 THEN num_threads[c] ELSE 1

(* The threads that the members of a team add to it, if member i has one   *)
(* of f[i].                                                                *)
Slots(f) == {s \in Indices \X (1 .. MaxTeam) : s[2] < f[s[1]]}

Reservations(g) == [i \in Indices |-> Reserved(<<g, i>>)]

-----------------------------------------------------------------------------

TypeOK ==
  /\ program \in Programs
  /\ FIRST \in {0, 1} /\ ARINC_MAX_THREADS \in 0 .. MaxTeam
  /\ threads_busy \in [Initials -> Int]
  /\ pool \in [Initials -> BOOLEAN]
  /\ size \in [Initials -> 0 .. MaxTeam]
  /\ nested \in [Members -> 0 .. MaxTeam]
  /\ step \in [Initials -> Nat \ {0}]
  /\ calls \in [Members -> Nat]
  /\ request \in [Members -> Requests]
  /\ num_threads \in [Members -> 0 .. MaxTeam]
  /\ busy \in [Members -> Int]
  /\ pc \in [Members -> {"absent", "run", "stuck", "load_busy", "cas_busy"} \cup Holding]

(* A team has the members 0 to size - 1; outside of it there is only the   *)
(* initial thread, which may be on the way into the next one.              *)
TeamFits(c) ==
  /\ ~pool[Group(c)] => size[Group(c)] = 0
  /\ pc[c] = "absent" <=> c[2] > 0 /\ c[2] >= size[Group(c)]
  /\ Outside(c) /\ c[2] = 0 => pc[c] \in {"run", "stuck"} \cup Starting
  /\ pc[c] \in {"region", "release"} => num_threads[c] >= 1
  /\ nested[c] = IF pc[c] = "region" THEN num_threads[c] ELSE 0

(* Until the first team of g has started, its number is one of the first   *)
(* numbers; from then on ARINC_MAX_THREADS always is one.                  *)
FirstRegion(g) ==
  LET c == Leader(g) IN
  /\ pool[g] => FIRST = 0 /\ ARINC_MAX_THREADS \in FirstNumbers
  /\ ~pool[g] =>
       /\ pc[c] \in {"run", "stuck"} \cup Starting
       /\ pc[c] = "run" => step[g] = 1
       /\ pc[c] \in Limiting => num_threads[c] \in FirstNumbers
       /\ pc[c] \in {"set_max", "compare", "lower", "start"} => FIRST = 0
       /\ pc[c] = "start" /\ num_threads[c] > 0 => ARINC_MAX_THREADS \in FirstNumbers

(* Later ones find FIRST cleared, and are lowered from above a first one.  *)
LaterRegion(c) ==
  /\ pc[c] \in Limiting => request[c].construct = "parallel"
  /\ pool[Group(c)] => /\ pc[c] \notin {"clear_first", "set_max"}
                       /\ pc[c] = "lower" => \E k \in FirstNumbers : num_threads[c] > k

(* The region that the initial thread is about to start.                   *)
RequestIs(g) ==
  LET c == Leader(g) IN
  Outside(c) /\ pc[c] \in Starting => request[c] = program.outer[g][step[g] - 1]

TeamWithin(c) ==
  request[c].construct = "parallel" /\ pc[c] \in {"start", "region"} => Bounded(num_threads[c])
SizeWithin(g) ==
  size[g] > 0 /\ program.outer[g][step[g] - 1].construct = "parallel" => Bounded(size[g])

Firsts == /\ \A g \in Initials : FirstRegion(g) /\ RequestIs(g) /\ SizeWithin(g)
          /\ \A c \in Members : LaterRegion(c) /\ TeamWithin(c)
          /\ ARINC_MAX_THREADS \in {0} \cup FirstNumbers

(* What holds whether or not a number has been raised.                     *)
Base == /\ TypeOK
        /\ \A c \in Members : TeamFits(c)
        /\ BeginsParallel => Firsts

(* What a member is about to reserve, or an initial thread to start, does  *)
(* not exceed the limit.                                                   *)
ReservationFits(c) ==
  /\ pc[c] = "cas_busy" => num_threads[c] >= 1 /\ busy[c] + num_threads[c] - 1 <= Limit
  /\ Outside(c) /\ pc[c] \in Starting =>
       num_threads[c] <= IF pool[Group(c)] THEN threads_busy[Group(c)] ELSE Limit

(* All that is reserved is counted, and within the limit.                  *)
Team(g) == IF size[g] = 0 THEN 1 ELSE size[g]
Counted(g) == /\ Team(g) + Cardinality(Slots(Reservations(g))) <= threads_busy[g]
              /\ threads_busy[g] <= Limit

(* What holds as long as none has.                                         *)
Fits == /\ \A c \in Members : ReservationFits(c)
        /\ \A g \in Initials : Counted(g)

(* Every step keeps the one, and the other unless it raises a number.      *)
Kept == Base' /\ (Fits /\ NeverRaised => Fits')

-----------------------------------------------------------------------------

(* Only what member i has changes.                                         *)
LEMMA SlotsChange ==
  ASSUME MaxTeam \in Nat, NEW f \in [Indices -> 1 .. MaxTeam],
         NEW i \in Indices, NEW v \in 1 .. MaxTeam
  PROVE  /\ IsFiniteSet(Slots(f)) /\ Cardinality(Slots(f)) \in Nat
         /\ Cardinality(Slots([f EXCEPT ![i] = v])) = Cardinality(Slots(f)) - f[i] + v
<1> DEFINE Row(n) == {i} \X (1 .. n - 1)
           Rest   == {s \in Slots(f) : s[1] # i}
<1>1. ASSUME NEW n \in 1 .. MaxTeam
      PROVE  IsFiniteSet(Row(n)) /\ Cardinality(Row(n)) = n - 1
  <2>1. IsFiniteSet({i}) /\ Cardinality({i}) = 1
    BY FS_Singleton
  <2>2. n - 1 \in Int /\ 1 \in Int
    OBVIOUS
  <2>3. IsFiniteSet(1 .. n - 1) /\ Cardinality(1 .. n - 1) = IF 1 > n - 1 THEN 0 ELSE n - 1 - 1 + 1
    BY ONLY <2>2, FS_Interval
  <2>4. Cardinality(1 .. n - 1) = n - 1
    BY <2>3
  <2>5. IsFiniteSet({i} \X (1 .. n - 1))
        /\ Cardinality({i} \X (1 .. n - 1)) = Cardinality({i}) * Cardinality(1 .. n - 1)
    BY ONLY <2>1, <2>3, FS_Product
  <2>6. 1 * (n - 1) = n - 1
    OBVIOUS
  <2> QED
    BY <2>1, <2>4, <2>5, <2>6
<1>2. IsFiniteSet(Slots(f)) /\ IsFiniteSet(Rest)
  <2>1. IsFiniteSet(Indices) /\ IsFiniteSet(1 .. MaxTeam)
    BY FS_Interval DEF Indices
  <2>2. IsFiniteSet(Indices \X (1 .. MaxTeam))
    BY <2>1, FS_Product
  <2> QED
    BY <2>2, FS_Subset DEF Slots
<1>3. Cardinality(Slots(f)) \in Nat /\ Cardinality(Rest) \in Nat
  BY <1>2, FS_CardinalityType
<1>4. ASSUME NEW n \in 1 .. MaxTeam
      PROVE  Cardinality(Rest \cup Row(n)) = Cardinality(Rest) + n - 1
  <2>1. Rest \cap Row(n) = {}
    OBVIOUS
  <2>2. Cardinality(Rest \cap Row(n)) = 0
    BY <2>1, FS_EmptySet
  <2>3. IsFiniteSet(Row(n)) /\ Cardinality(Row(n)) = n - 1
    BY <1>1
  <2> HIDE DEF Rest, Row
  <2>4. Cardinality(Rest \cup Row(n))
          = Cardinality(Rest) + Cardinality(Row(n)) - Cardinality(Rest \cap Row(n))
    BY ONLY <1>2, <2>3, FS_Union
  <2> QED
    BY <1>3, <2>2, <2>3, <2>4
<1>5. Slots(f) = Rest \cup Row(f[i])
  BY DEF Slots
<1>6. Slots([f EXCEPT ![i] = v]) = Rest \cup Row(v)
  BY DEF Slots
<1>7. f[i] \in 1 .. MaxTeam
  OBVIOUS
<1> HIDE DEF Rest, Row
<1>8. Cardinality(Slots(f)) = Cardinality(Rest) + f[i] - 1
  BY <1>4, <1>5, <1>7
<1>9. Cardinality(Slots([f EXCEPT ![i] = v])) = Cardinality(Rest) + v - 1
  BY <1>4, <1>6
<1> QED
  BY <1>2, <1>3, <1>7, <1>8, <1>9

-----------------------------------------------------------------------------

LEMMA MemberFacts ==
  ASSUME LimitAssumption
  PROVE  /\ \A c \in Members : /\ Group(c) \in Initials /\ c[2] \in Indices
                               /\ c = <<Group(c), c[2]>>
         /\ \A g \in Initials : \A i \in Indices :
              /\ <<g, i>> \in Members
              /\ Group(<<g, i>>) = g /\ <<g, i>>[2] = i
         /\ \A g \in Initials : /\ Leader(g) = <<g, 0>> /\ Leader(g) \in Members
                                /\ Group(Leader(g)) = g /\ Leader(g)[2] = 0
BY DEF LimitAssumption, Members, Group, Leader, Indices

LEMMA OuterThreadsFacts ==
  ASSUME LimitAssumption, NEW r \in Requests
  PROVE  /\ OuterThreads(r) \in 1 .. MaxTeam /\ OuterThreads(r) <= Limit
         /\ OuterThreads(r) <= r.threads /\ r.threads \in 1 .. MaxTeam
         /\ r.construct \in {"parallel", "workshare"}
BY DEF OuterThreads, Min2, Requests, LimitAssumption

LEMMA FirstNumbersType ==
  ASSUME LimitAssumption, ProgramsAssumption, program \in Programs
  PROVE  FirstNumbers \subseteq 1 .. MaxTeam
<1>1. ASSUME NEW g \in Initials, Len(program.outer[g]) > 0
      PROVE  OuterThreads(program.outer[g][1]) \in 1 .. MaxTeam
  <2>1. program.outer[g] \in Seq(Requests)
    BY DEF ProgramsAssumption
  <2>2. program.outer[g][1] \in Requests
    BY <1>1, <2>1
  <2> QED
    BY <2>2, OuterThreadsFacts
<1> QED
  BY <1>1 DEF FirstNumbers

(* The program, and so what its regions begin with, stays.                 *)
LEMMA ProgramKept ==
  ASSUME program' = program
  PROVE  FirstNumbers' = FirstNumbers /\ (BeginsParallel' <=> BeginsParallel)
BY DEF FirstNumbers, BeginsParallel

LEMMA ReservedType ==
  ASSUME LimitAssumption, TypeOK, NEW g \in Initials
  PROVE  Reservations(g) \in [Indices -> 1 .. MaxTeam]
<1>1. ASSUME NEW i \in Indices PROVE Reserved(<<g, i>>) \in 1 .. MaxTeam
  BY <1>1, MemberFacts DEF LimitAssumption, TypeOK, Reserved
<1> QED
  BY <1>1 DEF Reservations

(* Outside of a team nothing is reserved.                                  *)
LEMMA NothingReserved ==
  ASSUME MaxTeam \in Nat, NEW f, \A i \in Indices : f[i] = 1
  PROVE  Cardinality(Slots(f)) = 0
<1>1. Slots(f) = {}
  BY DEF Slots
<1> QED
  BY <1>1, FS_EmptySet

-----------------------------------------------------------------------------
(* Steps of one member, in or out of a team. *)

Moves(c) ==
  /\ UNCHANGED <<program, pool, size>> /\ FIRST' \in {FIRST, 0}
  /\ \A d \in Members \ {c} :
       /\ pc'[d] = pc[d] /\ num_threads'[d] = num_threads[d] /\ nested'[d] = nested[d]
       /\ request'[d] = request[d] /\ busy'[d] = busy[d]
  /\ \A g \in Initials \ {Group(c)} : threads_busy'[g] = threads_busy[g] /\ step'[g] = step[g]

(* The count is kept if the step adds to threads_busy what it reserves, or *)
(* gives back no more than it has; outside of a team nothing is reserved.  *)
KeepsCount(c) ==
  /\ \/ threads_busy'[Group(c)] >= threads_busy[Group(c)] + Reserved(c)' - Reserved(c)
     \/ Outside(c) /\ threads_busy'[Group(c)] >= 1
  /\ threads_busy'[Group(c)] <= Limit

LEMMA CountKept ==
  ASSUME LimitAssumption, TypeOK, TypeOK', NEW c \in Members, Moves(c),
         \A g \in Initials : Counted(g),
         KeepsCount(c),
         NEW g \in Initials
  PROVE  Counted(g)'
<1>1. /\ Group(c) \in Initials /\ c[2] \in Indices /\ c = <<Group(c), c[2]>>
      /\ \A h \in Initials : \A i \in Indices : <<h, i>> \in Members
  BY MemberFacts
<1>2. \A d \in Members \ {c} : Reserved(d)' = Reserved(d)
  BY DEF Reserved, Outside, Moves
<1>3. \A h \in Initials : Reservations(h) \in [Indices -> 1 .. MaxTeam]
  BY ReservedType
<1>4. Reservations(g)' \in [Indices -> 1 .. MaxTeam]
  <2>1. ASSUME NEW i \in Indices PROVE Reserved(<<g, i>>)' \in 1 .. MaxTeam
    BY <1>1 DEF LimitAssumption, TypeOK, Reserved
  <2> QED
    BY <2>1 DEF Reservations
<1>5. Counted(g)
  OBVIOUS
<1>6. Team(g)' = Team(g) /\ Team(g) \in Nat /\ threads_busy[g] \in Int /\ threads_busy'[g] \in Int
  BY DEF Team, TypeOK, LimitAssumption, Moves
<1>7. Slots(Reservations(g))' = Slots(Reservations(g)')
  BY DEF Slots
<1>8. CASE g # Group(c)
  <2>1. \A i \in Indices : <<g, i>> # c
    BY <1>8, <1>1
  <2>2. Reservations(g)' = Reservations(g)
    BY <2>1, <1>1, <1>2 DEF Reservations
  <2> QED
    BY <1>5, <1>6, <1>7, <1>8, <2>2 DEF Counted, Moves
<1>9. CASE g = Group(c)
  <2> DEFINE i == c[2]
  <2>1. \A j \in Indices : j # i => <<g, j>> # c
    BY <1>1
  <2>2. Reservations(g)[i] = Reserved(c) /\ Reservations(g)'[i] = Reserved(c)'
    BY <1>1, <1>9 DEF Reservations
  <2>3. Reserved(c)' \in 1 .. MaxTeam /\ Reserved(c) \in 1 .. MaxTeam
    BY <1>1, <1>3, <1>4, <2>2, <1>9
  <2>4. Reservations(g)' = [Reservations(g) EXCEPT ![i] = Reserved(c)']
    BY <2>1, <2>2, <1>1, <1>2, <1>9 DEF Reservations
  <2>5. /\ Cardinality(Slots(Reservations(g))) \in Nat
        /\ Cardinality(Slots(Reservations(g)')) =
             Cardinality(Slots(Reservations(g))) - Reserved(c) + Reserved(c)'
    <3>1. MaxTeam \in Nat /\ i \in Indices /\ Reservations(g) \in [Indices -> 1 .. MaxTeam]
      BY <1>1, <1>3 DEF LimitAssumption
    <3> HIDE DEF i
    <3> QED
      BY <3>1, <2>2, <2>3, <2>4, SlotsChange
  <2>6. Outside(c) => Team(g)' = 1 /\ Cardinality(Slots(Reservations(g)')) = 0
    <3>1. Outside(c) => \A j \in Indices : Reserved(<<g, j>>)' = 1
      BY <1>1, <1>9, MemberFacts DEF Reserved, Outside, Moves
    <3>2. Outside(c) => \A j \in Indices : Reservations(g)'[j] = 1
      BY <3>1 DEF Reservations
    <3>3. Outside(c) => Cardinality(Slots(Reservations(g)')) = 0
      BY <3>2, NothingReserved DEF LimitAssumption
    <3>4. Outside(c) => Team(g)' = 1
      BY <1>9 DEF Team, Outside, Moves
    <3> QED
      BY <3>3, <3>4
  <2> QED
    BY <1>5, <1>6, <1>7, <1>9, <2>3, <2>5, <2>6 DEF Counted, LimitAssumption, KeepsCount
<1> QED
  BY <1>8, <1>9

(* What remains to be shown of a step of one member.                       *)
LEMMA MemberStep ==
  ASSUME LimitAssumption, Base, TypeOK', NEW c \in Members, Moves(c), pc[c] # "absent",
         TeamFits(c)',
         BeginsParallel /\ Firsts =>
           /\ ARINC_MAX_THREADS' \in {ARINC_MAX_THREADS} \cup FirstNumbers
           /\ FirstRegion(Group(c))' /\ RequestIs(Group(c))'
           /\ LaterRegion(c)' /\ TeamWithin(c)'
           /\ UNCHANGED step \/ Outside(c),
         Fits /\ NeverRaised => ReservationFits(c)' /\ KeepsCount(c)
  PROVE  Kept
<1> USE MemberFacts
<1>0. TypeOK /\ FirstNumbers' = FirstNumbers /\ (BeginsParallel' <=> BeginsParallel)
  BY ProgramKept DEF Base, Moves
<1>1. ASSUME NEW d \in Members PROVE TeamFits(d)'
  <2>1. CASE d # c
    BY <2>1 DEF Base, TeamFits, Moves, Outside
  <2> QED
    BY <2>1
<1>2. ASSUME BeginsParallel, Firsts PROVE Firsts'
  <2>1. ASSUME NEW g \in Initials PROVE FirstRegion(g)' /\ RequestIs(g)'
    <3>1. FirstRegion(g) /\ RequestIs(g)
      BY <1>2 DEF Firsts
    <3>2. CASE g # Group(c)
      <4>1. Leader(g) # c /\ Leader(g) \in Members /\ Group(Leader(g)) = g
        BY <3>2
      <4>2. FirstRegion(g)'
        BY <1>0, <1>2, <3>1, <3>2, <4>1 DEF FirstRegion, Moves
      <4>3. RequestIs(g)'
        BY <3>1, <3>2, <4>1 DEF RequestIs, Outside, Moves
      <4> QED
        BY <4>2, <4>3
    <3> QED
      BY <1>2, <3>2
  <2>2. ASSUME NEW d \in Members PROVE LaterRegion(d)' /\ TeamWithin(d)'
    BY <1>0, <1>2 DEF Firsts, LaterRegion, TeamWithin, Bounded, Moves
  <2>3. ASSUME NEW g \in Initials PROVE SizeWithin(g)'
    BY <1>0, <1>2, <2>3 DEF Firsts, SizeWithin, Bounded, Moves, Outside
  <2> QED
    BY <1>0, <1>2, <2>1, <2>2, <2>3 DEF Firsts
<1>3. ASSUME Fits, NeverRaised, NEW d \in Members PROVE ReservationFits(d)'
  <2>1. CASE d # c
    <3>1. ReservationFits(d) /\ TeamFits(d) /\ TeamFits(c)
      BY <1>3 DEF Base, Fits
    <3>2. CASE Outside(d)
      <4>1. Group(d) = Group(c) => Outside(c) /\ c[2] = 0 /\ d[2] # 0
        <5>1. /\ c = <<Group(c), c[2]>> /\ c[2] \in Nat
              /\ d = <<Group(d), d[2]>> /\ size[Group(d)] = 0
          BY <3>2 DEF Outside, Indices, LimitAssumption
        <5> QED
          BY <2>1, <3>1, <5>1 DEF TeamFits, Outside
      <4>2. pc[d] \in Starting => d[2] = 0
        BY <1>0, <3>1, <3>2 DEF TeamFits, Starting, Limiting, Outside, TypeOK, Indices, LimitAssumption
      <4> QED
        BY <2>1, <3>1, <3>2, <4>1, <4>2 DEF Moves, ReservationFits, Outside
    <3>3. CASE ~Outside(d)
      BY <2>1, <3>1, <3>3 DEF Moves, ReservationFits, Outside
    <3> QED
      BY <3>2, <3>3
  <2> QED
    BY <1>3, <2>1
<1>4. ASSUME Fits, NeverRaised, NEW g \in Initials PROVE Counted(g)'
  BY <1>0, <1>4, CountKept DEF Fits
<1> QED
  BY <1>0, <1>1, <1>2, <1>3, <1>4 DEF Base, Fits, Kept

LEMMA InTeam ==
  ASSUME LimitAssumption, TypeOK, NEW c \in Members, TeamFits(c)
  PROVE  /\ pc[c] \in {"load_busy", "cas_busy", "region", "release"} => ~Outside(c)
         /\ ~Outside(c) => pool[Group(c)]
         /\ Outside(c) /\ pc[c] # "absent" => c[2] = 0 /\ c = Leader(Group(c))
<1>1. Group(c) \in Initials /\ c[2] \in Nat /\ (c[2] = 0 => c = Leader(Group(c)))
  BY MemberFacts DEF Indices, LimitAssumption
<1>2. Outside(c) /\ pc[c] # "absent" => c[2] = 0
  BY <1>1 DEF TeamFits, Outside
<1>3. pc[c] \in {"load_busy", "cas_busy", "region", "release"} => ~Outside(c)
  BY <1>2 DEF TeamFits, Starting, Limiting
<1>4. ~Outside(c) => pool[Group(c)]
  BY DEF TeamFits, Outside
<1> QED
  BY <1>1, <1>2, <1>3, <1>4

(* In a team the regions are later ones, and only nested.                  *)
LEMMA FirstsInTeam ==
  ASSUME LimitAssumption, Base, Firsts, NEW c \in Members, ~Outside(c),
         UNCHANGED <<program, FIRST, ARINC_MAX_THREADS, pool, size>>
  PROVE  FirstRegion(Group(c))' /\ RequestIs(Group(c))'
<1>1. /\ Group(c) \in Initials /\ Group(Leader(Group(c))) = Group(c)
      /\ pool[Group(c)] /\ FirstNumbers' = FirstNumbers /\ FirstRegion(Group(c))
  BY MemberFacts, InTeam, ProgramKept DEF Base, Firsts
<1> QED
  BY <1>1 DEF FirstRegion, RequestIs, Outside

LEMMA LoadBusyStep ==
  ASSUME LimitAssumption, Base, NEW c \in Members, LoadBusy(c)
  PROVE  Kept
<1> USE MemberFacts
<1>0. TypeOK /\ TeamFits(c)
  BY DEF Base
<1>1. /\ pc[c] = "load_busy" /\ pc' = [pc EXCEPT ![c] = "cas_busy"] /\ pc'[c] = "cas_busy"
      /\ Moves(c) /\ ~Outside(c)
      /\ UNCHANGED <<program, FIRST, ARINC_MAX_THREADS, threads_busy, request, nested, step, size, pool>>
  BY <1>0, InTeam DEF LoadBusy, Goto, cap, Moves, TypeOK
<1>2. /\ busy'[c] = threads_busy[Group(c)] /\ threads_busy[Group(c)] \in Int
      /\ num_threads'[c] = IF threads_busy[Group(c)] > Limit + 1 THEN request[c].threads
                           ELSE Min2(request[c].threads, Limit - threads_busy[Group(c)] + 1)
      /\ request[c].threads \in 1 .. MaxTeam /\ Limit \in Nat /\ MaxTeam \in Nat
  BY <1>0 DEF LoadBusy, TypeOK, Requests, LimitAssumption
<1>3. TypeOK'
  <2>1. num_threads'[c] \in 0 .. MaxTeam
    BY <1>2 DEF Min2
  <2>2. num_threads' \in [Members -> 0 .. MaxTeam]
    BY <1>0, <2>1 DEF LoadBusy, TypeOK
  <2> QED
    BY <1>0, <1>1, <1>2, <2>2 DEF LoadBusy, TypeOK
<1>4. TeamFits(c)'
  BY <1>0, <1>1 DEF TypeOK, TeamFits, Outside, Holding, Starting, Limiting
<1>5. ASSUME Fits PROVE ReservationFits(c)' /\ KeepsCount(c)
  <2>1. threads_busy[Group(c)] <= Limit
    BY <1>5 DEF Fits, Counted
  <2>2. ReservationFits(c)'
    BY <1>1, <1>2, <2>1 DEF ReservationFits, Min2, Starting, Limiting
  <2>3. Reserved(c)' = 1 /\ Reserved(c) = 1
    BY <1>1 DEF Reserved, Holding, Starting, Limiting
  <2> QED
    BY <1>1, <1>2, <2>1, <2>2, <2>3 DEF KeepsCount
<1>6. ASSUME Firsts
      PROVE  FirstRegion(Group(c))' /\ RequestIs(Group(c))' /\ LaterRegion(c)' /\ TeamWithin(c)'
  BY <1>1, <1>6, FirstsInTeam DEF LaterRegion, TeamWithin, Limiting
<1> QED
  BY <1>1, <1>3, <1>4, <1>5, <1>6, MemberStep

LEMMA ReserveBusyStep ==
  ASSUME LimitAssumption, Base, NEW c \in Members, ReserveBusy(c)
  PROVE  Kept
<1> USE MemberFacts
<1>0. TypeOK /\ TeamFits(c)
  BY DEF Base
<1>1. /\ pc[c] = "cas_busy" /\ Moves(c) /\ ~Outside(c) /\ pool[Group(c)]
      /\ UNCHANGED <<program, FIRST, ARINC_MAX_THREADS, request, num_threads, busy, nested, step,
                     size, pool>>
  <2>1. ~Outside(c) /\ pool[Group(c)]
    BY <1>0, InTeam DEF ReserveBusy
  <2> QED
    BY <1>0, <2>1 DEF ReserveBusy, Goto, cap, locals, Moves, TypeOK
<1>2. /\ busy[c] \in Int /\ num_threads[c] \in Nat /\ threads_busy[Group(c)] \in Int /\ Limit \in Nat
      /\ request[c] \in Requests /\ request[c].construct \in {"parallel", "workshare"}
  BY <1>0, <1>1 DEF TypeOK, LimitAssumption, Requests
<1>3. \/ /\ threads_busy' = [threads_busy EXCEPT ![Group(c)] = @ + num_threads[c] - 1]
         /\ threads_busy[Group(c)] = busy[c]
         /\ pc' = [pc EXCEPT ![c] = IF request[c].construct = "parallel" THEN "first" ELSE "start"]
      \/ threads_busy' = threads_busy /\ pc' = [pc EXCEPT ![c] = "load_busy"]
  BY <1>0 DEF ReserveBusy, Goto, TypeOK
<1>4. TypeOK'
  <2>1. threads_busy' \in [Initials -> Int]
    BY <1>0, <1>2, <1>3 DEF TypeOK
  <2>2. pc' \in [Members -> {"absent", "run", "stuck", "load_busy", "cas_busy"} \cup Holding]
    BY <1>0, <1>3 DEF TypeOK, Holding, Starting, Limiting
  <2> QED
    BY <1>0, <1>1, <2>1, <2>2 DEF TypeOK, ReserveBusy
<1>5. TeamFits(c)'
  BY <1>0, <1>1, <1>3 DEF TypeOK, TeamFits, Outside, Holding, Starting, Limiting
<1>6. ASSUME Fits PROVE ReservationFits(c)' /\ KeepsCount(c)
  <2>1. /\ num_threads[c] >= 1 /\ busy[c] + num_threads[c] - 1 <= Limit
        /\ threads_busy[Group(c)] <= Limit
    BY <1>1, <1>6 DEF Fits, ReservationFits, Counted
  <2>2. ~Outside(c)' /\ pc'[c] # "cas_busy"
    BY <1>0, <1>1, <1>3 DEF Outside, TypeOK
  <2>3. ReservationFits(c)'
    BY <2>2 DEF ReservationFits
  <2>4. Reserved(c) = 1 /\ Reserved(c)' \in {1, num_threads[c]}
    BY <1>1 DEF Reserved, Holding, Starting, Limiting
  <2>5. pc' = [pc EXCEPT ![c] = "load_busy"] => Reserved(c)' = 1
    BY <1>0 DEF TypeOK, Reserved, Holding, Starting, Limiting
  <2> QED
    BY <1>0, <1>1, <1>2, <1>3, <2>1, <2>3, <2>4, <2>5 DEF TypeOK, KeepsCount
<1>7. ASSUME Firsts
      PROVE  FirstRegion(Group(c))' /\ RequestIs(Group(c))' /\ LaterRegion(c)' /\ TeamWithin(c)'
  <2>1. LaterRegion(c)' /\ TeamWithin(c)'
    BY <1>0, <1>1, <1>2, <1>3 DEF TypeOK, LaterRegion, TeamWithin, Limiting
  <2> QED
    BY <1>1, <1>7, <2>1, FirstsInTeam
<1> QED
  BY <1>1, <1>4, <1>5, <1>6, <1>7, MemberStep

LEMMA ReadFirstStep ==
  ASSUME LimitAssumption, Base, NEW c \in Members, ReadFirst(c)
  PROVE  Kept
<1> USE MemberFacts
<1> DEFINE place == IF FIRST = 1 THEN "clear_first" ELSE "compare"
<1>0. TypeOK /\ TeamFits(c)
  BY DEF Base
<1>1. /\ pc[c] = "first" /\ pc' = [pc EXCEPT ![c] = place] /\ Moves(c)
      /\ UNCHANGED <<program, FIRST, ARINC_MAX_THREADS, threads_busy, pool, size, nested, step,
                     request, num_threads, busy>>
  BY <1>0 DEF ReadFirst, Goto, cap, locals, Moves, TypeOK
<1>w. place \in {"clear_first", "compare"} /\ (place = "clear_first" <=> FIRST = 1)
  OBVIOUS
<1> HIDE DEF place
<1>2. pc'[c] = place /\ pc[c] \in Holding /\ pc'[c] \in Holding
  BY <1>0, <1>1, <1>w DEF TypeOK, Holding, Starting, Limiting
<1>3. TypeOK'
  BY <1>0, <1>1, <1>w DEF ReadFirst, TypeOK, Holding, Starting, Limiting, cap, locals
<1>4. TeamFits(c)'
  BY <1>0, <1>1, <1>2, <1>w DEF TeamFits, Outside, Starting, Limiting
<1>5. ASSUME Fits PROVE ReservationFits(c)' /\ KeepsCount(c)
  <2>1. ReservationFits(c)'
    BY <1>1, <1>2, <1>5, <1>w DEF Fits, ReservationFits, Outside, Starting, Limiting
  <2>2. Reserved(c)' = Reserved(c) /\ Reserved(c) \in Int /\ threads_busy[Group(c)] \in Int
    BY <1>0, <1>1, <1>2 DEF Reserved, Outside, TypeOK
  <2> QED
    BY <1>1, <1>5, <2>1, <2>2 DEF Fits, Counted, KeepsCount
<1>6. ASSUME Firsts
      PROVE  FirstRegion(Group(c))' /\ RequestIs(Group(c))' /\ LaterRegion(c)' /\ TeamWithin(c)'
  <2>1. FirstRegion(Group(c)) /\ RequestIs(Group(c)) /\ LaterRegion(c) /\ FirstNumbers' = FirstNumbers
    BY <1>1, <1>6, ProgramKept DEF Firsts
  <2>2. c # Leader(Group(c)) => ~Outside(c) /\ pool[Group(c)]
    BY <1>0, <1>1, InTeam
  <2>3. RequestIs(Group(c))'
    BY <1>1, <1>2, <1>w, <2>1, <2>2 DEF RequestIs, Outside, Starting, Limiting
  <2>4. FirstRegion(Group(c))'
    BY <1>0, <1>1, <1>2, <1>w, <2>1, <2>2 DEF FirstRegion, Starting, Limiting, TypeOK
  <2>5. LaterRegion(c)' /\ TeamWithin(c)'
    BY <1>0, <1>1, <1>2, <1>w, <2>1 DEF FirstRegion, LaterRegion, TeamWithin, Limiting
  <2> QED
    BY <2>3, <2>4, <2>5
<1> QED
  BY <1>1, <1>3, <1>4, <1>5, <1>6, MemberStep

LEMMA ClearFirstStep ==
  ASSUME LimitAssumption, Base, NEW c \in Members, ClearFirst(c)
  PROVE  Kept
<1> USE MemberFacts
<1>0. TypeOK /\ TeamFits(c)
  BY DEF Base
<1>1. /\ pc[c] = "clear_first" /\ pc' = [pc EXCEPT ![c] = "set_max"] /\ Moves(c) /\ FIRST' = 0
      /\ UNCHANGED <<program, ARINC_MAX_THREADS, threads_busy, pool, size, nested, step, request,
                     num_threads, busy>>
  BY <1>0 DEF ClearFirst, Goto, cap, locals, Moves, TypeOK
<1>2. pc'[c] = "set_max" /\ pc[c] \in Holding /\ pc'[c] \in Holding
  BY <1>0, <1>1 DEF TypeOK, Holding, Starting, Limiting
<1>3. TypeOK'
  BY <1>0, <1>1 DEF ClearFirst, TypeOK, Holding, Starting, Limiting, locals
<1>4. TeamFits(c)'
  BY <1>0, <1>1, <1>2 DEF TeamFits, Outside, Starting, Limiting
<1>5. ASSUME Fits PROVE ReservationFits(c)' /\ KeepsCount(c)
  <2>1. ReservationFits(c)'
    BY <1>1, <1>2, <1>5 DEF Fits, ReservationFits, Outside, Starting, Limiting
  <2>2. Reserved(c)' = Reserved(c) /\ Reserved(c) \in Int /\ threads_busy[Group(c)] \in Int
    BY <1>0, <1>1, <1>2 DEF Reserved, Outside, TypeOK
  <2> QED
    BY <1>1, <1>5, <2>1, <2>2 DEF Fits, Counted, KeepsCount
<1>6. ASSUME Firsts
      PROVE  FirstRegion(Group(c))' /\ RequestIs(Group(c))' /\ LaterRegion(c)' /\ TeamWithin(c)'
  <2>1. FirstRegion(Group(c)) /\ RequestIs(Group(c)) /\ LaterRegion(c) /\ FirstNumbers' = FirstNumbers
    BY <1>1, <1>6, ProgramKept DEF Firsts
  <2>2. ~pool[Group(c)] /\ c = Leader(Group(c))
    BY <1>0, <1>1, <2>1, InTeam DEF LaterRegion
  <2>3. RequestIs(Group(c))'
    BY <1>1, <1>2, <2>1, <2>2 DEF RequestIs, Outside, Starting, Limiting
  <2>4. FirstRegion(Group(c))'
    BY <1>1, <1>2, <2>1, <2>2 DEF FirstRegion, Starting, Limiting
  <2>5. LaterRegion(c)' /\ TeamWithin(c)'
    BY <1>1, <1>2, <2>1, <2>2 DEF LaterRegion, TeamWithin, Limiting
  <2> QED
    BY <2>3, <2>4, <2>5
<1> QED
  BY <1>1, <1>3, <1>4, <1>5, <1>6, MemberStep

LEMMA SetMaxStep ==
  ASSUME LimitAssumption, Base, NEW c \in Members, SetMax(c)
  PROVE  Kept
<1> USE MemberFacts
<1>0. TypeOK /\ TeamFits(c)
  BY DEF Base
<1>1. /\ pc[c] = "set_max" /\ pc' = [pc EXCEPT ![c] = "compare"] /\ Moves(c)
      /\ ARINC_MAX_THREADS' = num_threads[c]
      /\ UNCHANGED <<program, FIRST, threads_busy, pool, size, nested, step, request, num_threads, busy>>
  BY <1>0 DEF SetMax, Goto, cap, locals, Moves, TypeOK
<1>2. pc'[c] = "compare" /\ pc[c] \in Holding /\ pc'[c] \in Holding
  BY <1>0, <1>1 DEF TypeOK, Holding, Starting, Limiting
<1>3. TypeOK'
  BY <1>0, <1>1 DEF SetMax, TypeOK, Holding, Starting, Limiting, locals
<1>4. TeamFits(c)'
  BY <1>0, <1>1, <1>2 DEF TeamFits, Outside, Starting, Limiting
<1>5. ASSUME Fits PROVE ReservationFits(c)' /\ KeepsCount(c)
  <2>1. ReservationFits(c)'
    BY <1>1, <1>2, <1>5 DEF Fits, ReservationFits, Outside, Starting, Limiting
  <2>2. Reserved(c)' = Reserved(c) /\ Reserved(c) \in Int /\ threads_busy[Group(c)] \in Int
    BY <1>0, <1>1, <1>2 DEF Reserved, Outside, TypeOK
  <2> QED
    BY <1>1, <1>5, <2>1, <2>2 DEF Fits, Counted, KeepsCount
<1>6. ASSUME Firsts
      PROVE  /\ ARINC_MAX_THREADS' \in FirstNumbers
             /\ FirstRegion(Group(c))' /\ RequestIs(Group(c))' /\ LaterRegion(c)' /\ TeamWithin(c)'
  <2>1. FirstRegion(Group(c)) /\ RequestIs(Group(c)) /\ LaterRegion(c) /\ FirstNumbers' = FirstNumbers
    BY <1>1, <1>6, ProgramKept DEF Firsts
  <2>2. ~pool[Group(c)] /\ c = Leader(Group(c))
    BY <1>0, <1>1, <2>1, InTeam DEF LaterRegion
  <2>3. RequestIs(Group(c))'
    BY <1>1, <1>2, <2>1, <2>2 DEF RequestIs, Outside, Starting, Limiting
  <2>4. FirstRegion(Group(c))' /\ ARINC_MAX_THREADS' \in FirstNumbers
    BY <1>1, <1>2, <2>1, <2>2 DEF FirstRegion, Starting, Limiting
  <2>5. LaterRegion(c)' /\ TeamWithin(c)'
    BY <1>1, <1>2, <2>1, <2>2 DEF LaterRegion, TeamWithin, Limiting
  <2> QED
    BY <2>3, <2>4, <2>5
<1> QED
  BY <1>1, <1>3, <1>4, <1>5, <1>6, MemberStep

LEMMA CompareMaxStep ==
  ASSUME LimitAssumption, ProgramsAssumption, Base, NEW c \in Members, CompareMax(c)
  PROVE  Kept
<1> USE MemberFacts
<1> DEFINE place == IF num_threads[c] > ARINC_MAX_THREADS THEN "lower" ELSE "start"
<1>0. TypeOK /\ TeamFits(c)
  BY DEF Base
<1>1. /\ pc[c] = "compare" /\ pc' = [pc EXCEPT ![c] = place] /\ Moves(c)
      /\ UNCHANGED <<program, FIRST, ARINC_MAX_THREADS, threads_busy, pool, size, nested, step,
                     request, num_threads, busy>>
  BY <1>0 DEF CompareMax, Goto, cap, locals, Moves, TypeOK
<1>w. place \in {"lower", "start"} /\ (place = "lower" <=> num_threads[c] > ARINC_MAX_THREADS)
  OBVIOUS
<1> HIDE DEF place
<1>2. pc'[c] = place /\ pc[c] \in Holding /\ pc'[c] \in Holding
  BY <1>0, <1>1, <1>w DEF TypeOK, Holding, Starting, Limiting
<1>3. TypeOK'
  BY <1>0, <1>1, <1>w DEF CompareMax, TypeOK, Holding, Starting, Limiting, cap, locals
<1>4. TeamFits(c)'
  BY <1>0, <1>1, <1>2, <1>w DEF TeamFits, Outside, Starting, Limiting
<1>5. ASSUME Fits PROVE ReservationFits(c)' /\ KeepsCount(c)
  <2>1. ReservationFits(c)'
    BY <1>1, <1>2, <1>5, <1>w DEF Fits, ReservationFits, Outside, Starting, Limiting
  <2>2. Reserved(c)' = Reserved(c) /\ Reserved(c) \in Int /\ threads_busy[Group(c)] \in Int
    BY <1>0, <1>1, <1>2 DEF Reserved, Outside, TypeOK
  <2> QED
    BY <1>1, <1>5, <2>1, <2>2 DEF Fits, Counted, KeepsCount
<1>6. ASSUME Firsts
      PROVE  FirstRegion(Group(c))' /\ RequestIs(Group(c))' /\ LaterRegion(c)' /\ TeamWithin(c)'
  <2>1. /\ FirstRegion(Group(c)) /\ RequestIs(Group(c)) /\ LaterRegion(c) /\ FirstNumbers' = FirstNumbers
        /\ ARINC_MAX_THREADS \in {0} \cup FirstNumbers
    BY <1>1, <1>6, ProgramKept DEF Firsts
  <2>2. c # Leader(Group(c)) => ~Outside(c) /\ pool[Group(c)]
    BY <1>0, <1>1, InTeam
  <2>3. /\ num_threads[c] \in Nat /\ ARINC_MAX_THREADS \in Nat
        /\ FirstNumbers \subseteq Nat \ {0}
    BY <1>0, FirstNumbersType DEF TypeOK, LimitAssumption
  <2>4. RequestIs(Group(c))'
    BY <1>1, <1>2, <1>w, <2>1, <2>2 DEF RequestIs, Outside, Starting, Limiting
  <2>5. FirstRegion(Group(c))'
    BY <1>1, <1>2, <1>w, <2>1, <2>2, <2>3 DEF FirstRegion, Starting, Limiting
  <2>6. LaterRegion(c)'
    BY <1>1, <1>2, <1>w, <2>1, <2>3 DEF FirstRegion, LaterRegion, Limiting
  <2>7. place = "start" => Bounded(num_threads[c])
    <3>1. CASE pool[Group(c)]
      BY <1>w, <2>1, <2>3, <3>1 DEF FirstRegion, Bounded
    <3>2. CASE ~pool[Group(c)]
      BY <1>1, <2>1, <2>2, <2>3, <3>2 DEF FirstRegion, Bounded, Limiting
    <3> QED
      BY <3>1, <3>2
  <2>8. TeamWithin(c)'
    BY <1>1, <1>2, <1>w, <2>1, <2>7 DEF TeamWithin, Bounded
  <2> QED
    BY <2>4, <2>5, <2>6, <2>8
<1> QED
  BY <1>1, <1>3, <1>4, <1>5, <1>6, MemberStep

LEMMA LowerToMaxStep ==
  ASSUME LimitAssumption, ProgramsAssumption, Base, NEW c \in Members, LowerToMax(c)
  PROVE  Kept
<1> USE MemberFacts
<1>0. TypeOK /\ TeamFits(c)
  BY DEF Base
<1>1. /\ pc[c] = "lower" /\ pc' = [pc EXCEPT ![c] = "start"] /\ Moves(c)
      /\ num_threads' = [num_threads EXCEPT ![c] = ARINC_MAX_THREADS]
      /\ UNCHANGED <<program, FIRST, ARINC_MAX_THREADS, threads_busy, pool, size, nested, step,
                     request, busy>>
  BY <1>0 DEF LowerToMax, Goto, cap, Moves, TypeOK
<1>2. /\ pc'[c] = "start" /\ pc[c] \in Holding /\ pc'[c] \in Holding
      /\ num_threads'[c] = ARINC_MAX_THREADS
      /\ num_threads[c] \in Nat /\ ARINC_MAX_THREADS \in Nat /\ threads_busy[Group(c)] \in Int
  BY <1>0, <1>1 DEF TypeOK, Holding, Starting, Limiting, LimitAssumption
<1>3. TypeOK'
  BY <1>0, <1>1 DEF TypeOK, Holding, Starting, Limiting, LowerToMax
<1>4. TeamFits(c)'
  BY <1>0, <1>1, <1>2 DEF TeamFits, Outside, Starting, Limiting
(* Here it is that the number must not be raised.                          *)
<1>5. ASSUME Fits, NeverRaised PROVE ReservationFits(c)' /\ KeepsCount(c)
  <2>1. ARINC_MAX_THREADS <= num_threads[c]
    BY <1>1, <1>5 DEF NeverRaised
  <2>2. ReservationFits(c) /\ threads_busy[Group(c)] <= Limit
    BY <1>5 DEF Fits, Counted
  <2>3. ReservationFits(c)'
    BY <1>0, <1>1, <1>2, <2>1, <2>2 DEF ReservationFits, Outside, Starting, Limiting, LimitAssumption
  <2>4. Reserved(c)' <= Reserved(c) /\ Reserved(c) \in Int /\ Reserved(c)' \in Int
    BY <1>1, <1>2, <2>1 DEF Reserved, Outside
  <2> QED
    BY <1>1, <1>2, <2>2, <2>3, <2>4 DEF KeepsCount
<1>6. ASSUME Firsts
      PROVE  FirstRegion(Group(c))' /\ RequestIs(Group(c))' /\ LaterRegion(c)' /\ TeamWithin(c)'
  <2>1. /\ FirstRegion(Group(c)) /\ RequestIs(Group(c)) /\ LaterRegion(c) /\ FirstNumbers' = FirstNumbers
        /\ ARINC_MAX_THREADS \in {0} \cup FirstNumbers
    BY <1>1, <1>6, ProgramKept DEF Firsts
  <2>2. c # Leader(Group(c)) => ~Outside(c) /\ pool[Group(c)]
    BY <1>0, <1>1, InTeam
  <2>3. FirstNumbers \subseteq Nat \ {0}
    BY <1>0, FirstNumbersType DEF TypeOK, LimitAssumption
  <2>4. RequestIs(Group(c))'
    BY <1>1, <1>2, <2>1, <2>2 DEF RequestIs, Outside, Starting, Limiting
  <2>5. FirstRegion(Group(c))'
    BY <1>1, <1>2, <2>1, <2>2, <2>3 DEF FirstRegion, Starting, Limiting
  <2>6. LaterRegion(c)'
    BY <1>1, <1>2, <2>1 DEF LaterRegion, Limiting
  <2>7. \E k \in FirstNumbers : ARINC_MAX_THREADS <= k
    <3>1. CASE pool[Group(c)]
      BY <1>2, <2>1, <2>3, <3>1 DEF FirstRegion
    <3>2. CASE ~pool[Group(c)]
      BY <1>1, <2>1, <2>2, <2>3, <3>2 DEF FirstRegion, Limiting
    <3> QED
      BY <3>1, <3>2
  <2>8. TeamWithin(c)'
    BY <1>2, <2>1, <2>7 DEF TeamWithin, Bounded
  <2> QED
    BY <2>4, <2>5, <2>6, <2>8
<1> QED
  BY <1>1, <1>3, <1>4, <1>5, <1>6, MemberStep

-----------------------------------------------------------------------------
(* The requests, and nested regions. *)

LEMMA ResolveOutsideStep ==
  ASSUME LimitAssumption, ProgramsAssumption, Base, NEW c \in Members, ResolveOutside(c)
  PROVE  Kept
<1> USE MemberFacts
<1> DEFINE g     == Group(c)
           r     == program.outer[g][step[g]]
           place == IF r.construct = "parallel" THEN "first" ELSE "start"
<1>0. TypeOK /\ TeamFits(c)
  BY DEF Base
<1>1. /\ step[g] \in 1 .. Len(program.outer[g]) /\ program.outer[g] \in Seq(Requests)
      /\ r \in Requests
  BY <1>0 DEF ResolveOutside, TypeOK, ProgramsAssumption
<1>2. /\ OuterThreads(r) \in 1 .. MaxTeam /\ OuterThreads(r) <= Limit
      /\ OuterThreads(r) <= r.threads /\ r.threads \in 1 .. MaxTeam
      /\ r.construct \in {"parallel", "workshare"}
  BY <1>1, OuterThreadsFacts
<1>3. place \in {"first", "start"} /\ (place = "first" <=> r.construct = "parallel")
  OBVIOUS
<1>4. /\ c = Leader(g) /\ Outside(c) /\ pc[c] = "run"
      /\ request'[c] = r /\ request' = [request EXCEPT ![c] = r]
      /\ num_threads' = [num_threads EXCEPT ![c] = OuterThreads(r)] /\ num_threads'[c] = OuterThreads(r)
      /\ pc' = [pc EXCEPT ![c] = place] /\ pc'[c] = place
      /\ step' = [step EXCEPT ![g] = @ + 1]
      /\ threads_busy' = IF pool[g] /\ r.threads > 1
                         THEN [threads_busy EXCEPT ![g] = OuterThreads(r)]
                         ELSE threads_busy
      /\ UNCHANGED <<program, FIRST, ARINC_MAX_THREADS, pool, size, nested, calls, busy>>
  BY <1>0 DEF ResolveOutside, Resolved, Goto, cap, TypeOK
<1>5. g \in Initials /\ Moves(c)
  BY <1>0, <1>4 DEF Moves, TypeOK
<1>6. threads_busy' \in [Initials -> Int]
  BY <1>0, <1>2, <1>4, <1>5 DEF TypeOK
<1>7. /\ g = Group(c)
      /\ r = program.outer[g][step[g]] /\ step'[g] = step[g] + 1 /\ step[g] \in Nat
  BY <1>0, <1>4, <1>5 DEF TypeOK
<1> HIDE DEF g, r, place
<1>8. TypeOK'
  <2>1. pc' \in [Members -> {"absent", "run", "stuck", "load_busy", "cas_busy"} \cup Holding]
    BY <1>0, <1>3, <1>4 DEF TypeOK, Holding, Starting, Limiting
  <2>2. num_threads' \in [Members -> 0 .. MaxTeam] /\ request' \in [Members -> Requests]
    BY <1>0, <1>1, <1>2, <1>4 DEF TypeOK
  <2>3. step' \in [Initials -> Nat \ {0}]
    BY <1>0, <1>4, <1>5 DEF TypeOK
  <2> QED
    BY <1>0, <1>4, <1>6, <2>1, <2>2, <2>3 DEF TypeOK
<1>9. TeamFits(c)'
  BY <1>0, <1>3, <1>4, <1>7 DEF TeamFits, Outside, Starting, Limiting
<1>10. ASSUME Fits PROVE ReservationFits(c)' /\ KeepsCount(c)
  <2>1. threads_busy[g] \in Int /\ threads_busy[g] >= 1 /\ threads_busy[g] <= Limit
    <3>1. Reservations(g) \in [Indices -> 1 .. MaxTeam]
      BY <1>0, <1>5, ReservedType
    <3>2. 0 \in Indices /\ 1 \in 1 .. MaxTeam /\ MaxTeam \in Nat
      BY DEF Indices, LimitAssumption
    <3>3. Cardinality(Slots(Reservations(g))) \in Nat
      BY <3>1, <3>2, SlotsChange
    <3> QED
      BY <1>0, <1>4, <1>5, <1>10, <1>7, <3>3 DEF Fits, Counted, Team, Outside, TypeOK
  <2>2. /\ threads_busy'[g] >= 1 /\ threads_busy'[g] <= Limit
        /\ pool[g] => OuterThreads(r) <= threads_busy'[g]
    BY <1>0, <1>2, <1>4, <1>5, <2>1 DEF TypeOK, OuterThreads
  <2>3. ReservationFits(c)'
    BY <1>2, <1>3, <1>4, <1>7, <2>2 DEF ReservationFits, Outside
  <2> QED
    BY <1>4, <1>7, <2>2, <2>3 DEF KeepsCount
<1>11. ASSUME BeginsParallel, Firsts
       PROVE  FirstRegion(g)' /\ RequestIs(g)' /\ LaterRegion(c)' /\ TeamWithin(c)'
  <2>1. FirstRegion(g) /\ FirstNumbers' = FirstNumbers
    BY <1>4, <1>5, <1>11, ProgramKept DEF Firsts
  <2>2. ~pool[g] => OuterThreads(r) \in FirstNumbers
    <3>1. ~pool[g] => step[g] = 1
      BY <1>4, <2>1 DEF FirstRegion
    <3> QED
      BY <1>1, <1>5, <1>7, <3>1 DEF FirstNumbers
  <2>3. FirstRegion(g)'
    <3>1. c = Leader(g) /\ Leader(g)' = Leader(g)
      BY <1>4 DEF Leader
    <3>2. CASE pool[g]
      BY <1>4, <2>1, <3>2 DEF FirstRegion
    <3>3. CASE ~pool[g]
      <4>1. ~pool[g] /\ pc[c] = "run"
        BY <1>4, <3>3
      <4>2. step[g] = 1
        BY <1>4, <2>1, <4>1 DEF FirstRegion
      <4>3. r.construct = "parallel"
        BY <1>1, <1>5, <1>7, <1>11, <4>2 DEF BeginsParallel
      <4> QED
        BY <1>3, <1>4, <2>1, <2>2, <3>1, <4>1, <4>3 DEF FirstRegion, Starting, Limiting
    <3> QED
      BY <3>2, <3>3
  <2>4. RequestIs(g)'
    <3>1. step'[g] - 1 = step[g]
      BY <1>7
    <3>2. request'[Leader(g)] = program'.outer[g][step'[g] - 1]
      BY <1>4, <1>7, <3>1
    <3> QED
      BY <3>2 DEF RequestIs, Leader
  <2>5. LaterRegion(c)' /\ TeamWithin(c)'
    BY <1>2, <1>3, <1>4 DEF LaterRegion, TeamWithin, Limiting
  <2> QED
    BY <2>3, <2>4, <2>5
<1> QED
  BY <1>4, <1>5, <1>8, <1>9, <1>10, <1>11, <1>7, MemberStep

LEMMA ResolveNestedStep ==
  ASSUME LimitAssumption, ProgramsAssumption, Base, NEW c \in Members, ResolveNested(c)
  PROVE  Kept
<1> USE MemberFacts
<1>0. TypeOK /\ TeamFits(c)
  BY DEF Base
<1>1. PICK r \in program.nested :
        /\ request' = [request EXCEPT ![c] = r]
        /\ num_threads' = [num_threads EXCEPT ![c] = r.threads]
        /\ Goto(c, IF r.threads = 1 THEN Resolved(c) ELSE "load_busy")
  BY DEF ResolveNested
<1>2. r \in Requests /\ r.threads \in 1 .. MaxTeam /\ r.construct \in {"parallel", "workshare"}
  BY <1>0, OuterThreadsFacts DEF TypeOK, ProgramsAssumption
<1>3. /\ pc[c] = "run" /\ ~Outside(c) /\ pool[Group(c)] /\ Moves(c)
      /\ UNCHANGED <<program, FIRST, ARINC_MAX_THREADS, threads_busy, pool, size, nested, step, busy>>
  BY <1>0, <1>1, InTeam DEF ResolveNested, Goto, cap, Moves, TypeOK
<1>4. /\ request'[c] = r /\ num_threads'[c] = r.threads
      /\ \/ pc'[c] = "first" /\ r.threads = 1 /\ r.construct = "parallel"
         \/ pc'[c] = "start" /\ r.threads = 1 /\ r.construct = "workshare"
         \/ pc'[c] = "load_busy"
  BY <1>0, <1>1, <1>2 DEF TypeOK, Goto, Resolved
<1>5. TypeOK'
  <2>1. pc' \in [Members -> {"absent", "run", "stuck", "load_busy", "cas_busy"} \cup Holding]
    BY <1>0, <1>1 DEF TypeOK, Goto, Resolved, Holding, Starting, Limiting
  <2>2. calls' \in [Members -> Nat]
    BY <1>0 DEF ResolveNested, TypeOK
  <2>3. num_threads' \in [Members -> 0 .. MaxTeam] /\ request' \in [Members -> Requests]
    BY <1>0, <1>1, <1>2 DEF TypeOK
  <2> QED
    BY <1>0, <1>3, <2>1, <2>2, <2>3 DEF TypeOK
<1>6. TeamFits(c)'
  BY <1>0, <1>3, <1>4 DEF TeamFits, Outside
<1>7. ASSUME Fits PROVE ReservationFits(c)' /\ KeepsCount(c)
  <2>1. ReservationFits(c)'
    BY <1>3, <1>4 DEF ReservationFits, Outside
  <2>2. Reserved(c) = 1 /\ Reserved(c)' = 1 /\ threads_busy[Group(c)] \in Int
    BY <1>0, <1>3, <1>4 DEF Reserved, Outside, Holding, Starting, Limiting, TypeOK
  <2> QED
    BY <1>3, <1>7, <2>1, <2>2 DEF Fits, KeepsCount, Counted
<1>8. ASSUME Firsts
      PROVE  FirstRegion(Group(c))' /\ RequestIs(Group(c))' /\ LaterRegion(c)' /\ TeamWithin(c)'
  BY <1>3, <1>4, <1>8, FirstsInTeam DEF LaterRegion, TeamWithin, Limiting
<1> QED
  BY <1>3, <1>5, <1>6, <1>7, <1>8, MemberStep

LEMMA StartNestedStep ==
  ASSUME LimitAssumption, Base, NEW c \in Members, StartNested(c)
  PROVE  Kept
<1> USE MemberFacts
<1>0. TypeOK /\ TeamFits(c)
  BY DEF Base
<1>1. /\ pc[c] = "start" /\ ~Outside(c) /\ Moves(c) /\ num_threads[c] > 0
      /\ nested'[c] = num_threads[c] /\ pc'[c] = "region"
      /\ UNCHANGED <<program, FIRST, ARINC_MAX_THREADS, threads_busy, pool, size, num_threads,
                     step, request, busy>>
  BY <1>0 DEF StartNested, Goto, cap, locals, Moves, TypeOK
<1>2. TypeOK'
  BY <1>0 DEF StartNested, Goto, cap, locals, TypeOK, Holding
<1>3. TeamFits(c)'
  BY <1>0, <1>1 DEF TeamFits, Outside, TypeOK, LimitAssumption
<1>4. ASSUME Fits PROVE ReservationFits(c)' /\ KeepsCount(c)
  <2>1. ReservationFits(c)'
    BY <1>1 DEF ReservationFits, Outside
  <2>2. Reserved(c)' = Reserved(c) /\ Reserved(c) \in Int /\ threads_busy[Group(c)] \in Int
    BY <1>0, <1>1 DEF Reserved, Outside, TypeOK, Holding, Starting, Limiting
  <2> QED
    BY <1>1, <1>4, <2>1, <2>2 DEF Fits, KeepsCount, Counted
<1>5. ASSUME Firsts
      PROVE  FirstRegion(Group(c))' /\ RequestIs(Group(c))' /\ LaterRegion(c)' /\ TeamWithin(c)'
  <2>1. TeamWithin(c) /\ FirstNumbers' = FirstNumbers
    BY <1>1, <1>5, ProgramKept DEF Firsts
  <2>2. LaterRegion(c)' /\ TeamWithin(c)'
    BY <1>1, <2>1 DEF LaterRegion, TeamWithin, Bounded, Limiting
  <2> QED
    BY <1>1, <1>5, <2>2, FirstsInTeam
<1> QED
  BY <1>1, <1>2, <1>3, <1>4, <1>5, MemberStep

LEMMA StartEmptyStep ==
  ASSUME LimitAssumption, Base, NEW c \in Members, StartEmpty(c)
  PROVE  Kept
<1> USE MemberFacts
<1>0. TypeOK /\ TeamFits(c)
  BY DEF Base
<1>1. /\ pc[c] = "start" /\ num_threads[c] = 0 /\ Moves(c) /\ pc'[c] = "stuck"
      /\ UNCHANGED <<program, FIRST, ARINC_MAX_THREADS, threads_busy, pool, size, nested,
                     num_threads, step, request, busy>>
  BY <1>0 DEF StartEmpty, Goto, cap, locals, Moves, TypeOK
<1>2. TypeOK'
  BY <1>0 DEF StartEmpty, Goto, cap, locals, TypeOK
<1>3. TeamFits(c)'
  BY <1>0, <1>1 DEF TeamFits, Outside
<1>4. ASSUME Fits PROVE ReservationFits(c)' /\ KeepsCount(c)
  <2>1. ReservationFits(c)'
    BY <1>1 DEF ReservationFits, Starting, Limiting
  <2>2. Reserved(c)' = 1 /\ Reserved(c) = 1 /\ threads_busy[Group(c)] \in Int
    BY <1>0, <1>1 DEF Reserved, TypeOK
  <2> QED
    BY <1>1, <1>4, <2>1, <2>2 DEF Fits, KeepsCount, Counted
<1>5. ASSUME Firsts
      PROVE  FirstRegion(Group(c))' /\ RequestIs(Group(c))' /\ LaterRegion(c)' /\ TeamWithin(c)'
  <2>1. FirstRegion(Group(c)) /\ RequestIs(Group(c)) /\ FirstNumbers' = FirstNumbers
    BY <1>1, <1>5, ProgramKept DEF Firsts
  <2>2. c # Leader(Group(c)) => ~Outside(c) /\ pool[Group(c)]
    BY <1>0, <1>1, InTeam
  <2>3. FirstRegion(Group(c))'
    BY <1>1, <2>1, <2>2 DEF FirstRegion, Limiting
  <2>4. RequestIs(Group(c))'
    BY <1>1, <2>1, <2>2 DEF RequestIs, Outside, Starting, Limiting
  <2>5. LaterRegion(c)' /\ TeamWithin(c)'
    BY <1>1 DEF LaterRegion, TeamWithin, Limiting
  <2> QED
    BY <2>3, <2>4, <2>5
<1> QED
  BY <1>1, <1>2, <1>3, <1>4, <1>5, MemberStep

LEMMA EndNestedStep ==
  ASSUME LimitAssumption, Base, NEW c \in Members, EndNested(c)
  PROVE  Kept
<1> USE MemberFacts
<1> DEFINE place == IF nested[c] > 1 THEN "release" ELSE "run"
<1>0. TypeOK /\ TeamFits(c)
  BY DEF Base
<1>1. /\ pc[c] = "region" /\ Moves(c) /\ nested'[c] = 0 /\ nested[c] = num_threads[c]
      /\ nested' = [nested EXCEPT ![c] = 0]
      /\ pc' = [pc EXCEPT ![c] = place] /\ pc'[c] = place
      /\ UNCHANGED <<program, FIRST, ARINC_MAX_THREADS, threads_busy, pool, size, calls,
                     num_threads, step, request, busy>>
  BY <1>0 DEF EndNested, Goto, cap, locals, Moves, TypeOK, TeamFits
<1>w. place = "release" \/ (place = "run" /\ num_threads[c] <= 1)
  BY <1>0, <1>1 DEF TypeOK, LimitAssumption
<1> HIDE DEF place
<1>2. ~Outside(c) /\ num_threads[c] \in Nat /\ num_threads[c] >= 1
  BY <1>0, <1>1, InTeam DEF TeamFits, TypeOK, LimitAssumption
<1>3. TypeOK'
  <2>1. pc' \in [Members -> {"absent", "run", "stuck", "load_busy", "cas_busy"} \cup Holding]
    BY <1>0, <1>1, <1>w DEF TypeOK, Holding
  <2>2. nested' \in [Members -> 0 .. MaxTeam]
    BY <1>0, <1>1 DEF TypeOK, LimitAssumption
  <2> QED
    BY <1>0, <1>1, <2>1, <2>2 DEF TypeOK
<1>4. TeamFits(c)'
  BY <1>0, <1>1, <1>w, <1>2 DEF TeamFits, Outside
<1>5. ASSUME Fits PROVE ReservationFits(c)' /\ KeepsCount(c)
  <2>1. ReservationFits(c)'
    BY <1>1, <1>w, <1>2 DEF ReservationFits, Outside
  <2>2. Reserved(c)' = Reserved(c) /\ Reserved(c) \in Int /\ threads_busy[Group(c)] \in Int
    BY <1>0, <1>1, <1>w, <1>2 DEF Reserved, Outside, Holding, Starting, Limiting, TypeOK
  <2> QED
    BY <1>1, <1>5, <2>1, <2>2 DEF Fits, KeepsCount, Counted
<1>6. ASSUME Firsts
      PROVE  FirstRegion(Group(c))' /\ RequestIs(Group(c))' /\ LaterRegion(c)' /\ TeamWithin(c)'
  <2>1. LaterRegion(c)' /\ TeamWithin(c)'
    BY <1>1, <1>w DEF LaterRegion, TeamWithin, Limiting
  <2> QED
    BY <1>1, <1>2, <1>6, <2>1, FirstsInTeam
<1> QED
  BY <1>1, <1>3, <1>4, <1>5, <1>6, MemberStep

LEMMA ReleaseBusyStep ==
  ASSUME LimitAssumption, Base, NEW c \in Members, ReleaseBusy(c)
  PROVE  Kept
<1> USE MemberFacts
<1>0. TypeOK /\ TeamFits(c)
  BY DEF Base
<1>1. /\ pc[c] = "release" /\ Moves(c) /\ pc'[c] = "run"
      /\ threads_busy'[Group(c)] = threads_busy[Group(c)] + 1 - num_threads[c]
      /\ UNCHANGED <<program, FIRST, ARINC_MAX_THREADS, pool, size, nested, num_threads, step,
                     request, busy>>
  BY <1>0 DEF ReleaseBusy, Goto, cap, locals, Moves, TypeOK
<1>2. /\ ~Outside(c) /\ num_threads[c] \in Nat /\ num_threads[c] >= 1
      /\ threads_busy[Group(c)] \in Int /\ Limit \in Nat
  <2>1. ~Outside(c) /\ num_threads[c] >= 1
    BY <1>0, <1>1, InTeam DEF TeamFits
  <2> QED
    BY <1>0, <2>1 DEF TypeOK, LimitAssumption
<1>3. TypeOK'
  <2>1. threads_busy' \in [Initials -> Int]
    BY <1>0, <1>2 DEF ReleaseBusy, TypeOK
  <2> QED
    BY <1>0, <1>1, <2>1 DEF ReleaseBusy, Goto, TypeOK
<1>4. TeamFits(c)'
  BY <1>0, <1>1, <1>2 DEF TeamFits, Outside
<1>5. ASSUME Fits PROVE ReservationFits(c)' /\ KeepsCount(c)
  <2>1. ReservationFits(c)'
    BY <1>1, <1>2 DEF ReservationFits, Outside
  <2>2. Reserved(c)' = 1 /\ Reserved(c) = num_threads[c]
    BY <1>1, <1>2 DEF Reserved, Holding, Starting, Limiting
  <2>3. threads_busy[Group(c)] <= Limit
    BY <1>5 DEF Fits, Counted
  <2> QED
    BY <1>1, <1>2, <2>1, <2>2, <2>3 DEF KeepsCount
<1>6. ASSUME Firsts
      PROVE  FirstRegion(Group(c))' /\ RequestIs(Group(c))' /\ LaterRegion(c)' /\ TeamWithin(c)'
  BY <1>1, <1>2, <1>6, FirstsInTeam DEF LaterRegion, TeamWithin, Limiting
<1> QED
  BY <1>1, <1>3, <1>4, <1>5, <1>6, MemberStep

-----------------------------------------------------------------------------
(* The steps of a whole team. *)

LEMMA StartOutsideStep ==
  ASSUME LimitAssumption, Base, NEW c \in Members, StartOutside(c)
  PROVE  Kept
<1> USE MemberFacts
<1> DEFINE g == Group(c)
<1>0. TypeOK /\ TeamFits(c)
  BY DEF Base
<1>1. /\ g \in Initials /\ c = Leader(g) /\ c[2] = 0 /\ pc[c] = "start" /\ size[g] = 0
      /\ num_threads[c] \in 1 .. MaxTeam
      /\ size' = [size EXCEPT ![g] = num_threads[c]] /\ size'[g] = num_threads[c]
      /\ pool' = [pool EXCEPT ![g] = TRUE] /\ pool'[g] = TRUE
      /\ threads_busy' = IF pool[g] THEN threads_busy ELSE [threads_busy EXCEPT ![g] = num_threads[c]]
      /\ pc' = [d \in Members |-> IF Group(d) = g /\ d[2] < num_threads[c] THEN "run" ELSE pc[d]]
      /\ UNCHANGED <<program, FIRST, ARINC_MAX_THREADS, nested, num_threads, step, request, busy>>
  BY <1>0, InTeam DEF StartOutside, Outside, cap, locals, TypeOK, LimitAssumption
<1>2. TypeOK'
  <2>1. calls' \in [Members -> Nat]
    BY <1>0 DEF StartOutside, TypeOK, LimitAssumption
  <2>2. threads_busy' \in [Initials -> Int]
    BY <1>0, <1>1 DEF TypeOK
  <2>3. pc' \in [Members -> {"absent", "run", "stuck", "load_busy", "cas_busy"} \cup Holding]
    BY <1>0, <1>1 DEF TypeOK
  <2>4. pool' \in [Initials -> BOOLEAN] /\ size' \in [Initials -> 0 .. MaxTeam]
    BY <1>0, <1>1 DEF TypeOK
  <2> QED
    BY <1>0, <1>1, <2>1, <2>2, <2>3, <2>4 DEF TypeOK
<1> HIDE DEF g
(* The members of the new team run; nobody else has moved.                 *)
<1>3. ASSUME NEW d \in Members
      PROVE  \/ /\ Group(d) = g /\ d[2] < size'[g] /\ pc'[d] = "run" /\ nested[d] = 0
             \/ /\ Group(d) = g /\ d[2] >= size'[g] /\ d[2] > 0 /\ pc'[d] = "absent" /\ nested[d] = 0
             \/ /\ Group(d) # g /\ pc'[d] = pc[d] /\ size'[Group(d)] = size[Group(d)]
                /\ pool'[Group(d)] = pool[Group(d)] /\ threads_busy'[Group(d)] = threads_busy[Group(d)]
  <2>1. TeamFits(d) /\ d[2] \in Nat /\ num_threads[c] \in Nat \ {0} /\ d = <<Group(d), d[2]>>
    BY <1>1 DEF Base, Indices, LimitAssumption
  <2>2. CASE Group(d) = g /\ d[2] < num_threads[c]
    <3>1. pc[d] # "region"
      BY <2>1, <2>2, <1>1 DEF TeamFits, Outside, Starting, Limiting
    <3> QED
      BY <2>1, <2>2, <3>1, <1>1 DEF TeamFits
  <2>3. CASE Group(d) = g /\ d[2] >= num_threads[c]
    BY <2>1, <2>3, <1>1 DEF TeamFits
  <2>4. CASE Group(d) # g
    BY <2>4, <1>0, <1>1 DEF TypeOK
  <2> QED
    BY <2>1, <2>2, <2>3, <2>4
<1>4. ASSUME NEW d \in Members PROVE TeamFits(d)'
  <2>1. TeamFits(d)
    BY DEF Base
  <2>2. CASE Group(d) = g
    <3>1. d[2] \in Nat /\ size'[g] \in Nat \ {0} /\ pool'[g] /\ nested'[d] = nested[d]
      BY <1>1 DEF Indices, LimitAssumption
    <3>2. CASE d[2] < size'[g] /\ pc'[d] = "run" /\ nested[d] = 0
      BY <2>2, <3>1, <3>2 DEF TeamFits, Outside
    <3>3. CASE d[2] >= size'[g] /\ d[2] > 0 /\ pc'[d] = "absent" /\ nested[d] = 0
      BY <2>2, <3>1, <3>3 DEF TeamFits, Outside
    <3> QED
      BY <1>3, <2>2, <3>2, <3>3
  <2>3. CASE Group(d) # g
    BY <1>1, <1>3, <2>1, <2>3 DEF TeamFits, Outside
  <2> QED
    BY <2>2, <2>3
<1>5. ASSUME Fits PROVE Fits'
  <2>1. ASSUME NEW d \in Members PROVE ReservationFits(d)'
    <3>1. ReservationFits(d)
      BY <1>5 DEF Fits
    <3>2. CASE Group(d) = g
      BY <1>1, <1>3, <3>2 DEF ReservationFits, Starting, Limiting
    <3>3. CASE Group(d) # g
      BY <1>1, <1>3, <3>1, <3>3 DEF ReservationFits, Outside
    <3> QED
      BY <3>2, <3>3
  <2>2. ASSUME NEW h \in Initials PROVE Counted(h)'
    <3>1. Counted(h) /\ Slots(Reservations(h))' = Slots(Reservations(h)')
      BY <1>5 DEF Fits, Slots
    <3>2. CASE h = g
      <4>1. \A i \in Indices : Reserved(<<h, i>>)' = 1
        <5>1. \A i \in Indices : pc'[<<h, i>>] \in {"run", "absent"}
          BY <1>3, <3>2
        <5> QED
          BY <5>1 DEF Reserved, Holding, Starting, Limiting
      <4>2. \A i \in Indices : Reservations(h)'[i] = 1
        BY <4>1 DEF Reservations
      <4>3. Cardinality(Slots(Reservations(h)')) = 0
        BY <4>2, NothingReserved DEF LimitAssumption
      <4>4. ReservationFits(c)
        BY <1>5 DEF Fits
      <4>5. num_threads[c] <= threads_busy'[g] /\ threads_busy'[g] <= Limit /\ threads_busy'[g] \in Int
        BY <1>0, <1>1, <1>2, <3>1, <3>2, <4>4 DEF ReservationFits, Outside, Starting, TypeOK, Counted, g
      <4> QED
        BY <1>1, <3>1, <3>2, <4>3, <4>5 DEF Counted, Team
    <3>3. CASE h # g
      <4>1. \A i \in Indices : Reserved(<<h, i>>)' = Reserved(<<h, i>>)
        BY <1>1, <1>3, <3>3 DEF Reserved, Outside
      <4>2. Reservations(h)' = Reservations(h)
        BY <4>1 DEF Reservations
      <4>3. size'[h] = size[h] /\ threads_busy'[h] = threads_busy[h]
        BY <1>0, <1>1, <3>3 DEF TypeOK
      <4> QED
        BY <3>1, <4>2, <4>3 DEF Counted, Team
    <3> QED
      BY <3>2, <3>3
  <2> QED
    BY <2>1, <2>2 DEF Fits
<1>6. ASSUME Firsts PROVE Firsts'
  <2>1. /\ FirstNumbers' = FirstNumbers /\ FIRST = 0 /\ ARINC_MAX_THREADS \in FirstNumbers
        /\ TeamWithin(c) /\ request[c] = program.outer[g][step[g] - 1]
    BY <1>1, <1>6, ProgramKept DEF Firsts, FirstRegion, RequestIs, Outside, Starting, g
  <2>2. ASSUME NEW h \in Initials PROVE FirstRegion(h)' /\ RequestIs(h)' /\ SizeWithin(h)'
    <3>1. FirstRegion(h) /\ RequestIs(h) /\ SizeWithin(h)
      BY <1>6 DEF Firsts
    <3>2. CASE h = g
      <4>1. SizeWithin(g)'
        BY <1>1, <2>1 DEF SizeWithin, TeamWithin, Bounded
      <4>2. RequestIs(g)'
        BY <1>1 DEF RequestIs, Outside
      <4> QED
        BY <1>1, <2>1, <3>2, <4>1, <4>2 DEF FirstRegion
    <3>3. CASE h # g
      <4>1. /\ Leader(h) \in Members /\ Group(Leader(h)) = h /\ Leader(h)' = Leader(h)
            /\ pc'[Leader(h)] = pc[Leader(h)] /\ pool'[h] = pool[h] /\ size'[h] = size[h]
        BY <1>3, <3>3 DEF Leader
      <4>2. FirstRegion(h)'
        BY <1>1, <2>1, <3>1, <4>1 DEF FirstRegion
      <4>3. RequestIs(h)' /\ SizeWithin(h)'
        BY <1>1, <2>1, <3>1, <4>1 DEF RequestIs, SizeWithin, Outside, Bounded
      <4> QED
        BY <4>2, <4>3
    <3> QED
      BY <3>2, <3>3
  <2>3. ASSUME NEW d \in Members PROVE LaterRegion(d)' /\ TeamWithin(d)'
    <3>1. LaterRegion(d) /\ TeamWithin(d)
      BY <1>6 DEF Firsts
    <3> QED
      BY <1>1, <1>3, <2>1, <3>1 DEF LaterRegion, TeamWithin, Bounded, Limiting
  <2> QED
    BY <1>1, <2>1, <2>2, <2>3 DEF Firsts
<1>7. BeginsParallel' <=> BeginsParallel
  BY <1>1, ProgramKept
<1> QED
  BY <1>2, <1>4, <1>5, <1>6, <1>7 DEF Base, Kept

LEMMA EndOutsideStep ==
  ASSUME LimitAssumption, Base, NEW g \in Initials, EndOutside(g)
  PROVE  Kept
<1> USE MemberFacts
<1>0. TypeOK
  BY DEF Base
<1>1. /\ size[g] \in 1 .. MaxTeam /\ size' = [size EXCEPT ![g] = 0] /\ size'[g] = 0
      /\ \A i \in 0 .. size[g] - 1 : pc[<<g, i>>] = "run"
      /\ threads_busy' = IF size[g] > 1 THEN [threads_busy EXCEPT ![g] = 1] ELSE threads_busy
      /\ pc' = [d \in Members |-> IF Group(d) = g /\ d[2] > 0 THEN "absent" ELSE pc[d]]
      /\ UNCHANGED <<program, FIRST, ARINC_MAX_THREADS, pool, nested, num_threads, step, calls,
                     request, busy>>
  BY <1>0 DEF EndOutside, cap, locals, TypeOK, LimitAssumption
<1>2. TypeOK'
  <2>1. threads_busy' \in [Initials -> Int]
    BY <1>0, <1>1 DEF TypeOK
  <2>2. pc' \in [Members -> {"absent", "run", "stuck", "load_busy", "cas_busy"} \cup Holding]
    BY <1>0, <1>1 DEF TypeOK
  <2>3. size' \in [Initials -> 0 .. MaxTeam]
    BY <1>0, <1>1 DEF TypeOK, LimitAssumption
  <2> QED
    BY <1>0, <1>1, <2>1, <2>2, <2>3 DEF TypeOK
(* Only the initial thread is left of the team; nobody else has moved.     *)
<1>3. ASSUME NEW d \in Members
      PROVE  /\ TeamFits(d)
             /\ \/ Group(d) = g /\ d[2] = 0 /\ pc'[d] = "run" /\ pc[d] = "run"
                \/ Group(d) = g /\ d[2] > 0 /\ pc'[d] = "absent" /\ pc[d] \in {"run", "absent"}
                \/ /\ Group(d) # g /\ pc'[d] = pc[d] /\ size'[Group(d)] = size[Group(d)]
                   /\ threads_busy'[Group(d)] = threads_busy[Group(d)]
  <2>1. TeamFits(d) /\ d[2] \in Nat /\ d = <<Group(d), d[2]>>
    BY <1>1 DEF Base, Indices, LimitAssumption
  <2>2. CASE Group(d) = g
    <3>1. d[2] < size[g] => pc[d] = "run"
      <4>1. size[g] \in Nat
        BY <1>1 DEF LimitAssumption
      <4>2. d[2] < size[g] => d[2] \in 0 .. size[g] - 1
        BY <2>1, <4>1
      <4> QED
        BY <1>1, <2>1, <2>2, <4>2
    <3>2. d[2] >= size[g] => pc[d] = "absent" /\ d[2] > 0
      BY <1>1, <2>1, <2>2 DEF TeamFits
    <3>3. size[g] \in Nat \ {0}
      BY <1>1 DEF LimitAssumption
    <3> QED
      BY <1>1, <2>1, <2>2, <3>1, <3>2, <3>3
  <2>3. CASE Group(d) # g
    BY <2>1, <2>3, <1>0, <1>1 DEF TypeOK
  <2> QED
    BY <2>2, <2>3
<1>4. ASSUME NEW d \in Members PROVE TeamFits(d)'
  <2>1. CASE Group(d) = g
    BY <1>1, <1>3, <2>1 DEF TeamFits, Outside, Indices, LimitAssumption
  <2>2. CASE Group(d) # g
    BY <1>1, <1>3, <2>2 DEF TeamFits, Outside
  <2> QED
    BY <2>1, <2>2
<1>5. ASSUME Fits PROVE Fits'
  <2>1. ASSUME NEW d \in Members PROVE ReservationFits(d)'
    <3>1. ReservationFits(d)
      BY <1>5 DEF Fits
    <3>2. CASE Group(d) = g
      BY <1>1, <1>3, <3>2 DEF ReservationFits, Outside, Starting, Limiting
    <3>3. CASE Group(d) # g
      BY <1>1, <1>3, <3>1, <3>3 DEF ReservationFits, Outside
    <3> QED
      BY <3>2, <3>3
  <2>2. ASSUME NEW h \in Initials PROVE Counted(h)'
    <3>1. Counted(h) /\ Slots(Reservations(h))' = Slots(Reservations(h)')
      BY <1>5 DEF Fits, Slots
    <3>2. CASE h = g
      <4>1. \A i \in Indices : Reserved(<<h, i>>)' = 1
        BY <1>1, <3>2 DEF Reserved, Outside
      <4>2. \A i \in Indices : Reservations(h)'[i] = 1
        BY <4>1 DEF Reservations
      <4>3. Cardinality(Slots(Reservations(h)')) = 0
        BY <4>2, NothingReserved DEF LimitAssumption
      <4>4. Cardinality(Slots(Reservations(h))) \in Nat
        <5>1. Reservations(h) \in [Indices -> 1 .. MaxTeam] /\ MaxTeam \in Nat
          BY <1>0, ReservedType DEF LimitAssumption
        <5>2. 0 \in Indices /\ 1 \in 1 .. MaxTeam
          BY DEF Indices, LimitAssumption
        <5> QED
          BY <5>1, <5>2, SlotsChange
      <4>5. threads_busy'[g] >= 1 /\ threads_busy'[g] <= Limit
        BY <1>0, <1>1, <3>1, <3>2, <4>4 DEF Counted, Team, TypeOK, LimitAssumption
      <4> QED
        BY <1>1, <1>2, <3>1, <3>2, <4>3, <4>5 DEF Counted, Team, TypeOK
    <3>3. CASE h # g
      <4>1. \A i \in Indices : Reserved(<<h, i>>)' = Reserved(<<h, i>>)
        BY <1>1, <1>3, <3>3 DEF Reserved, Outside
      <4>2. Reservations(h)' = Reservations(h)
        BY <4>1 DEF Reservations
      <4>3. size'[h] = size[h] /\ threads_busy'[h] = threads_busy[h]
        BY <1>0, <1>1, <3>3 DEF TypeOK
      <4> QED
        BY <3>1, <4>2, <4>3 DEF Counted, Team
    <3> QED
      BY <3>2, <3>3
  <2> QED
    BY <2>1, <2>2 DEF Fits
<1>6. ASSUME Firsts PROVE Firsts'
  <2>1. FirstNumbers' = FirstNumbers
    BY <1>1, ProgramKept
  <2>2. ASSUME NEW h \in Initials PROVE FirstRegion(h)' /\ RequestIs(h)' /\ SizeWithin(h)'
    <3>1. /\ FirstRegion(h) /\ RequestIs(h) /\ SizeWithin(h)
          /\ pc'[Leader(h)] = pc[Leader(h)] /\ Leader(h)' = Leader(h)
      BY <1>3, <1>6 DEF Firsts, Leader
    <3>2. FirstRegion(h)'
      BY <1>1, <2>1, <3>1 DEF FirstRegion
    <3>3. SizeWithin(h)' /\ RequestIs(h)'
      <4>1. CASE h = g
        BY <1>1, <1>3, <3>1, <4>1 DEF SizeWithin, RequestIs, Starting, Limiting
      <4>2. CASE h # g
        <5>1. size'[h] = size[h] /\ Group(Leader(h)) = h
          BY <1>0, <1>1, <4>2 DEF TypeOK
        <5> QED
          BY <1>1, <2>1, <3>1, <5>1 DEF SizeWithin, RequestIs, Bounded, Outside
      <4> QED
        BY <4>1, <4>2
    <3> QED
      BY <3>2, <3>3
  <2>3. ASSUME NEW d \in Members PROVE LaterRegion(d)' /\ TeamWithin(d)'
    <3>1. LaterRegion(d) /\ TeamWithin(d) /\ pc'[d] \in {pc[d], "absent"}
      BY <1>3, <1>6 DEF Firsts
    <3> QED
      BY <1>1, <2>1, <3>1 DEF LaterRegion, TeamWithin, Bounded, Limiting
  <2> QED
    BY <1>1, <1>6, <2>1, <2>2, <2>3 DEF Firsts
<1>7. BeginsParallel' <=> BeginsParallel
  BY <1>1, ProgramKept
<1> QED
  BY <1>2, <1>4, <1>5, <1>6, <1>7 DEF Base, Kept

-----------------------------------------------------------------------------

LEMMA InitKept == ASSUME LimitAssumption, ProgramsAssumption, Init PROVE Base /\ Fits
<1> USE MemberFacts
<1>1. TypeOK
  BY DEF Init, TypeOK, Requests, LimitAssumption, ProgramsAssumption
<1>2. ASSUME NEW c \in Members PROVE TeamFits(c) /\ ReservationFits(c)
  BY DEF Init, TeamFits, ReservationFits, Outside, Starting, Limiting, Indices, LimitAssumption
<1>3. ASSUME NEW g \in Initials PROVE Counted(g)
  <2>1. \A i \in Indices : Reservations(g)[i] = 1
    BY DEF Init, Reservations, Reserved, Outside
  <2>2. Cardinality(Slots(Reservations(g))) = 0
    BY <2>1, NothingReserved DEF LimitAssumption
  <2> QED
    BY <2>2 DEF Init, Counted, Team, LimitAssumption
<1>4. Firsts
  <2>1. \A g \in Initials : FirstRegion(g) /\ RequestIs(g) /\ SizeWithin(g)
    BY DEF Init, FirstRegion, RequestIs, SizeWithin, Starting, Limiting
  <2>2. \A c \in Members : LaterRegion(c) /\ TeamWithin(c)
    BY DEF Init, LaterRegion, TeamWithin, Limiting
  <2> QED
    BY <2>1, <2>2 DEF Init, Firsts
<1> QED
  BY <1>1, <1>2, <1>3, <1>4 DEF Base, Fits

LEMMA NextKept == ASSUME LimitAssumption, ProgramsAssumption, Base, [Next]_vars PROVE Kept
<1>1. ASSUME NEW c \in Members, Step(c) PROVE Kept
  BY <1>1, ResolveOutsideStep, ResolveNestedStep, LoadBusyStep, ReserveBusyStep, ReadFirstStep,
     ClearFirstStep, SetMaxStep, CompareMaxStep, LowerToMaxStep, StartOutsideStep, StartNestedStep,
     StartEmptyStep, EndNestedStep, ReleaseBusyStep DEF Step
<1>2. ASSUME UNCHANGED vars PROVE Kept
  <2>1. /\ UNCHANGED <<program, FIRST, ARINC_MAX_THREADS, threads_busy, pool, size, nested, step, calls>>
        /\ UNCHANGED <<request, num_threads, busy, pc>>
    BY <1>2 DEF vars, cap, locals
  <2>2. TypeOK' /\ \A c \in Members : TeamFits(c)'
    BY <2>1 DEF Base, TypeOK, TeamFits, Outside
  <2>3. FirstNumbers' = FirstNumbers /\ (BeginsParallel' <=> BeginsParallel)
    BY <2>1, ProgramKept
  <2>4. ASSUME Firsts PROVE Firsts'
    <3>1. \A g \in Initials : FirstRegion(g)' /\ RequestIs(g)' /\ SizeWithin(g)'
      BY <2>1, <2>3, <2>4 DEF Firsts, FirstRegion, RequestIs, SizeWithin, Bounded, Outside, Leader
    <3>2. \A c \in Members : LaterRegion(c)' /\ TeamWithin(c)'
      BY <2>1, <2>3, <2>4 DEF Firsts, LaterRegion, TeamWithin, Bounded
    <3> QED
      BY <2>1, <2>3, <2>4, <3>1, <3>2 DEF Firsts
  <2>5. ASSUME Fits PROVE Fits'
    <3>1. \A c \in Members : ReservationFits(c)'
      BY <2>1, <2>5 DEF Fits, ReservationFits, Outside
    <3>2. \A g \in Initials : Counted(g)'
      BY <2>1, <2>5 DEF Fits, Counted, Team, Slots, Reservations, Reserved, Outside
    <3> QED
      BY <3>1, <3>2 DEF Fits
  <2> QED
    BY <2>2, <2>3, <2>4, <2>5 DEF Base, Kept
<1> QED
  BY <1>1, <1>2, EndOutsideStep DEF Next

LEMMA BaseInvariant == ASSUME LimitAssumption, ProgramsAssumption PROVE Spec => []Base
<1>1. Init => Base
  BY InitKept
<1>2. Base /\ [Next]_vars => Base'
  BY NextKept DEF Kept
<1> QED
  BY <1>1, <1>2, PTL DEF Spec

LEMMA FitsUnlessRaised ==
  ASSUME LimitAssumption, ProgramsAssumption PROVE Spec => ([]NeverRaised => []Fits)
<1>1. Init => Fits
  BY InitKept
<1>2. Base /\ NeverRaised /\ Fits /\ [Next]_vars => Fits'
  BY NextKept DEF Kept
<1> QED
  BY <1>1, <1>2, BaseInvariant, PTL DEF Spec

LEMMA FitsHolds ==
  ASSUME LimitAssumption, ProgramsAssumption, Base, Fits PROVE ThreadLimitHeld
<1>1. ASSUME NEW g \in Initials
      PROVE  Running(g) <= threads_busy[g] /\ threads_busy[g] <= Limit
  <2> DEFINE S == Slots(Reservations(g))
  <2>1. /\ TypeOK /\ Counted(g) /\ Reservations(g) \in [Indices -> 1 .. MaxTeam]
        /\ MaxTeam \in Nat /\ 0 \in Indices /\ 1 \in 1 .. MaxTeam
    BY <1>1, ReservedType DEF Base, Fits, LimitAssumption, Indices
  <2>2. IsFiniteSet(S) /\ Cardinality(S) \in Nat
    BY <2>1, SlotsChange
  <2>3. ASSUME NEW i \in Indices PROVE nested[<<g, i>>] <= Reservations(g)[i]
    <3> DEFINE c == <<g, i>>
    <3>1. c \in Members /\ TeamFits(c) /\ Group(c) = g
      BY <1>1, MemberFacts DEF Base
    <3>2. pc[c] = "region" => ~Outside(c)
      BY <2>1, <3>1, InTeam
    <3>3. nested[c] <= Reserved(c)
      BY <2>1, <3>1, <3>2 DEF TeamFits, Reserved, Holding, TypeOK, LimitAssumption
    <3> QED
      BY <3>3 DEF Reservations
  <2>4. NestedThreads(g) \subseteq S
    <3>1. ASSUME NEW s \in Indices \X (1 .. MaxTeam), s[2] < nested[<<g, s[1]>>]
          PROVE  s[2] < Reservations(g)[s[1]]
      <4>1. s[1] \in Indices /\ s[2] \in Int /\ <<g, s[1]>> \in Members
        BY MemberFacts
      <4>2. nested[<<g, s[1]>>] \in Int /\ Reservations(g)[s[1]] \in Int
        BY <2>1, <4>1 DEF TypeOK
      <4> QED
        BY <2>3, <3>1, <4>1, <4>2
    <3> QED
      BY <3>1 DEF NestedThreads, Slots, Indices
  <2>5. Cardinality(NestedThreads(g)) <= Cardinality(S) /\ Cardinality(NestedThreads(g)) \in Nat
    BY <2>2, <2>4, FS_Subset, FS_CardinalityType
  <2> HIDE DEF S
  <2> QED
    BY <2>1, <2>2, <2>5 DEF Counted, Running, Team, TypeOK, S
<1> QED
  BY <1>1 DEF ThreadLimitHeld

(* Whatever regions the initial threads and the members of their teams     *)
(* start, first numbers and combined constructs as they may be, and in     *)
(* whichever order they reserve: the threads that run in a contention      *)
(* group are all reserved and within the limit, as long as no comparison   *)
(* in GOMP_parallel is overtaken by another initial thread's store to      *)
(* ARINC_MAX_THREADS.                                                      *)
THEOREM GroupsWithinLimit ==
  ASSUME LimitAssumption, ProgramsAssumption
  PROVE  Spec => LimitHeldUnlessRaised
<1>1. Base /\ Fits => ThreadLimitHeld
  BY FitsHolds
<1> QED
  BY <1>1, BaseInvariant, FitsUnlessRaised, PTL DEF LimitHeldUnlessRaised

(* No number is raised when the initial threads begin with GOMP_parallel   *)
(* and the same number of threads, even where they race for FIRST.         *)
THEOREM AgreedNeverRaised ==
  ASSUME LimitAssumption, ProgramsAssumption
  PROVE  Spec => [](FirstAgreed => NeverRaised)
<1>1. ASSUME Base, FirstAgreed, NEW c \in Members, pc[c] = "lower"
      PROVE  ARINC_MAX_THREADS <= num_threads[c]
  <2>1. /\ TypeOK /\ TeamFits(c) /\ FirstRegion(Group(c)) /\ LaterRegion(c)
        /\ ARINC_MAX_THREADS \in {0} \cup FirstNumbers
        /\ num_threads[c] \in Nat
    BY <1>1, MemberFacts DEF Base, FirstAgreed, Firsts, TypeOK, LimitAssumption
  <2>2. FirstNumbers \subseteq Nat
    BY <2>1, FirstNumbersType DEF TypeOK, LimitAssumption
  <2>3. \A k, n \in FirstNumbers : k = n
    BY <1>1 DEF FirstAgreed
  <2>4. CASE pool[Group(c)]
    BY <1>1, <2>1, <2>2, <2>3, <2>4 DEF FirstRegion, LaterRegion
  <2>5. CASE ~pool[Group(c)]
    <3>1. c = Leader(Group(c))
      BY <1>1, <2>1, <2>5, InTeam
    <3>2. num_threads[c] \in FirstNumbers
      BY <1>1, <2>1, <2>5, <3>1 DEF FirstRegion, Limiting
    <3> QED
      BY <2>1, <2>2, <2>3, <3>2
  <2> QED
    BY <2>4, <2>5
<1>2. Base => (FirstAgreed => NeverRaised)
  BY <1>1 DEF NeverRaised
<1> QED
  BY <1>2, BaseInvariant, PTL

(* Then the threads that run are reserved and within the limit without any *)
(* condition on what happens.                                              *)
THEOREM AgreedWithinLimit ==
  ASSUME LimitAssumption, ProgramsAssumption
  PROVE  Spec => [](FirstAgreed => ThreadLimitHeld)
<1>1. Init /\ FirstAgreed => Fits
  BY InitKept
<1>2. ASSUME [Next]_vars, Base PROVE FirstAgreed' <=> FirstAgreed
  <2>1. program' = program
    BY <1>2 DEF Next, Step, ResolveOutside, ResolveNested, LoadBusy, ReserveBusy, ReadFirst, ClearFirst,
       SetMax, CompareMax, LowerToMax, StartOutside, StartNested, StartEmpty, EndNested, ReleaseBusy,
       EndOutside, vars, cap
  <2> QED
    BY <2>1, ProgramKept DEF FirstAgreed
<1>3. Base /\ (FirstAgreed => NeverRaised) /\ (FirstAgreed => Fits) /\ [Next]_vars
        => (FirstAgreed => Fits)'
  BY <1>2, NextKept DEF Kept
<1>4. Base /\ (FirstAgreed => Fits) => (FirstAgreed => ThreadLimitHeld)
  BY FitsHolds
<1>5. Init => (FirstAgreed => Fits)
  BY <1>1
<1> QED
  BY <1>3, <1>4, <1>5, BaseInvariant, AgreedNeverRaised, PTL DEF Spec

(* When the initial threads begin with GOMP_parallel, no GOMP_parallel of  *)
(* theirs or nested in their teams makes a team of more threads than the   *)
(* largest of the first numbers, whoever races for FIRST and               *)
(* ARINC_MAX_THREADS; if they agree on the number, it limits them all.     *)
THEOREM FirstRegionLimits ==
  ASSUME LimitAssumption, ProgramsAssumption
  PROVE  Spec => []FirstLimitsAll
<1>1. ASSUME Base PROVE FirstLimitsAll
  <2>1. ASSUME Firsts, NEW c \in Members, nested[c] > 0, request[c].construct = "parallel"
        PROVE  Bounded(nested[c])
    <3>1. TeamFits(c) /\ TeamWithin(c)
      BY <1>1, <2>1 DEF Base, Firsts
    <3>2. pc[c] = "region" /\ nested[c] = num_threads[c]
      BY <2>1, <3>1 DEF TeamFits
    <3> QED
      BY <2>1, <3>1, <3>2 DEF TeamWithin
  <2>2. Firsts => \A g \in Initials :
          size[g] > 0 /\ program.outer[g][step[g] - 1].construct = "parallel" => Bounded(size[g])
    BY DEF Firsts, SizeWithin
  <2> QED
    BY <1>1, <2>1, <2>2 DEF Base, FirstLimitsAll
<1> QED
  BY <1>1, BaseInvariant, PTL
=============================================================================
