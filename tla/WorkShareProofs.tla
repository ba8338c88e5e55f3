--------------------------- MODULE WorkShareProofs ---------------------------
(***************************************************************************)
(* No work share is used for two constructs at a time, handed out while it *)
(* is in use, or lost: for any teams, any sequences of constructs and any  *)
(* sizes of the chunks.                                                    *)
(***************************************************************************)
EXTENDS WorkShare, NaturalsInduction, WellFoundedInduction, FiniteSetTheorems, TLAPS

Getting == {"get", "get_cas", "slow", "slow_wait", "asleep", "slow_check", "slow_load",
            "alloc", "alloc_free", "init"}
Owning  == {"alloc", "alloc_free", "init", "publish"}     \* the pointer lock
Fresh   == {"init", "publish"}                            \* local[t] is a new share
Pushing == {"free", "push", "free_open", "push_open"}     \* local[t] is a retired one
Opening == {"free_open", "push_open", "open"}
Entered == {"wake", "body", "copy_body", "copy_arrive", "copy_end"}
Beyond  == {"left", "outside", "ended"}
Places  == Getting \cup Pushing \cup Opening \cup Entered \cup Beyond \cup {"publish", "wait"}

BarrierKinds == {"barrier", "cancel", "copy"}

Last == Len(Constructs)

TypeOK ==
  /\ region \in Regions
  /\ link \in [Shares -> {NULL, Owned, Waited} \cup Shares]
  /\ threads_completed \in [Shares -> Nat]
  /\ ids \in [Shares -> {"none", "held", "freed", "twice"}]
  /\ content \in [Shares -> Nat]
  /\ copyprivate \in [Shares -> Nat]
  /\ list_alloc \in Shares \cup {NULL}
  /\ list_free \in Shares \cup {NULL}
  /\ chunk \in Nat \ {0}
  /\ heap \in Base + 1 .. MaxShares + 3
  /\ to_free \in Shares
  /\ cancelled \in BOOLEAN
  /\ awaited \in Int
  /\ phase \in {0, 1}
  /\ work_share \in [Threads -> Shares]
  /\ last_ws \in [Threads -> Shares \cup {NULL}]
  /\ local \in [Threads -> Shares \cup {0, 1}]
  /\ pos \in [Threads -> 0 .. Last]
  /\ pc \in [Threads -> Places \cup {"done"}]

-----------------------------------------------------------------------------
(* The constructs up to d have been left by all threads, those up to m     *)
(* have been published; F[k] is the share of construct k, for those in     *)
(* between.  b is the last construct whose barrier has been opened.        *)

(* Which steps belong to which constructs.                                 *)
Fits(k, c) ==
  /\ c \notin {"outside", "ended"} => k >= 1
  /\ c = "body" => Constructs[k] # "copy"
  /\ c \in {"copy_body", "copy_arrive", "copy_end"} => Constructs[k] = "copy"
  /\ c \in {"wait", "open"} => Constructs[k] \in BarrierKinds
  /\ c \in {"free", "push"} => Constructs[k] \in {"nowait", "copy"}
  /\ c \in {"free_open", "push_open"} => Constructs[k] \in {"barrier", "cancel"}

(* In construct k, and not yet counted among those that have left it.      *)
Uncounted(k, c) == c \in Entered \/ (c \in {"wait", "open"} /\ Constructs[k] = "copy")

(* Where a thread is with respect to the shares in use.                    *)
Uses(F, d, m, k, c, ws, lw) ==
  /\ c \in Getting => k - 1 \in d .. m /\ ws = F[k - 1]
  /\ c \in Getting \cup {"publish"} => lw = F[k - 1]
  /\ c \in Owning => k = m + 1
  /\ c \notin Getting \cup {"publish"} => k \in d .. m /\ ws = F[k]
  /\ Uncounted(k, c) => k # d /\ lw = F[k - 1]
  /\ c \in Pushing => k = d
  /\ c = "open" /\ Constructs[k] # "copy" => k = d

(* What is known of the pointer lock in the slow path.                     *)
Slow(c, lock) ==
  /\ c = "slow" => lock # NULL
  /\ c \in {"slow_wait", "asleep", "slow_check"} => lock \notin {NULL, Owned}
  /\ c = "slow_load" => lock > 2

(* Nobody is before the last barrier or beyond the next one.               *)
Gate(b, k, c, seen) ==
  /\ k >= b
  /\ k = b /\ b > 0 => /\ c \in {"wait", "copy_end", "free", "push"} \cup Beyond
                       /\ c = "wait" => seen # phase
  /\ \A j \in b + 1 .. Last : Constructs[j] \in BarrierKinds =>
       /\ k <= j
       /\ k = j => /\ c \notin {"copy_end", "free", "push", "left", "outside"}
                   /\ c = "wait" => seen = phase
                   /\ c = "ended" => cancelled

Arrived(b, k, c) ==
  k > b /\ Constructs[k] \in BarrierKinds /\ c \in {"wait", "ended"} \cup Opening

Awaited(b) == {t \in Threads : ~Arrived(b, pos[t], pc[t])}

(* The threads that have counted themselves out of construct j, and those  *)
(* that may have: a cancelled thread may have ended in construct j.        *)
Counted(j, k, c) == k > j \/ (k = j /\ (c \in {"left", "outside"} \/ (c = "ended" /\ ~cancelled)))

Out(j)    == {t \in Threads : Counted(j, pos[t], pc[t])}
MayOut(j) == {t \in Threads : pos[t] > j \/ (pos[t] = j /\ pc[t] \in Beyond)}

Place(F, d, m, t) ==
  /\ pc[t] # "done"
  /\ Fits(pos[t], pc[t])
  /\ Uses(F, d, m, pos[t], pc[t], work_share[t], last_ws[t])
  /\ Slow(pc[t], link[work_share[t]])
  /\ pc[t] = "ended" /\ ~cancelled => pos[t] = Last

Threaded(F, d, m) == \A t \in Threads : Place(F, d, m, t)

Alone == \A t, u \in Threads : /\ pc[t] \in Owning /\ pc[u] \in Owning => t = u
                               /\ pc[t] \in Pushing /\ pc[u] \in Pushing => t = u

Gated(d, b) ==
  /\ \A t \in Threads : Gate(b, pos[t], pc[t], local[t])
  /\ \A k \in 1 .. b : Constructs[k] \in {"barrier", "cancel"} => k <= d
  /\ Cardinality(Awaited(b)) <= awaited
  /\ \A t \in Threads : pc[t] \in Opening =>
       Awaited(b) = {} /\ \A u \in Threads \ {t} : pc[u] \in {"wait", "ended"}

Completed(F, d, m) ==
  \A k \in d + 1 .. m : Constructs[k] \in {"nowait", "copy"} =>
    /\ threads_completed[F[k]] < nthreads
    /\ Cardinality(Out(k)) <= threads_completed[F[k]]
    /\ threads_completed[F[k]] <= Cardinality(MayOut(k))

Copied(F, d, m) ==
  \A k \in d + 1 .. m : Constructs[k] = "copy" =>
    \/ copyprivate[F[k]] = k
    \/ \E t \in Threads : pos[t] = k /\ pc[t] \in {"wake", "copy_body"}

-----------------------------------------------------------------------------
(* Every share has a place, and those on a list have a number that counts  *)
(* down towards its end.                                                   *)
Homes == {"use", "alloc", "free", "retired", "new", "heap"}

Listed(home, rank, list, head) ==
  /\ head = NULL => \A s \in Shares : home[s] # list
  /\ head # NULL => home[head] = list
  /\ \A s \in Shares : home[s] = list =>
       /\ rank[s] <= rank[head]
       /\ link[s] # NULL => /\ link[s] \in Shares
                            /\ home[link[s]] = list
                            /\ rank[link[s]] = rank[s] - 1
       /\ link[s] = NULL => \A u \in Shares : home[u] = list => rank[s] <= rank[u]
       /\ s # head => \E u \in Shares : home[u] = list /\ link[u] = s
       /\ \A u \in Shares : home[u] = list /\ rank[u] = rank[s] => u = s

Lists(home, rank) ==
  /\ home \in [Shares -> Homes]
  /\ rank \in [Shares -> Int]
  /\ Listed(home, rank, "alloc", list_alloc)
  /\ Listed(home, rank, "free", list_free)
  /\ \A s \in Shares : home[s] = "heap" <=> s >= heap

InUse(F, d, m, home) ==
  /\ to_free = F[d]
  /\ \A k \in d .. m : home[F[k]] = "use" /\ content[F[k]] = k
  /\ \A k \in d .. m - 1 : link[F[k]] = F[k + 1]
  /\ link[F[m]] <= 2
  /\ link[F[m]] = NULL => \A t \in Threads : pc[t] \notin Owning
  /\ \A s \in Shares : home[s] = "use" => \E k \in d .. m : s = F[k]

(* What the allocator has read from the free list.                         *)
Snapshot(home, s) == s = NULL \/ (s \in Shares /\ home[s] = "free")

Hand(home, t) ==
  /\ pc[t] \in Fresh => local[t] \in Shares /\ home[local[t]] = "new"
  /\ pc[t] = "publish" => /\ work_share[t] = local[t] /\ content[local[t]] = pos[t]
                          /\ link[local[t]] = NULL /\ threads_completed[local[t]] = 0
  /\ pc[t] \in Pushing => local[t] \in Shares /\ home[local[t]] = "retired"
  /\ pc[t] = "alloc_free" => list_alloc = NULL /\ Snapshot(home, local[t])

InHand(home) ==
  /\ \A t \in Threads : Hand(home, t)
  /\ \A s \in Shares :
       /\ home[s] = "new" => \E t \in Threads : pc[t] \in Fresh /\ local[t] = s
       /\ home[s] = "retired" => \E t \in Threads : pc[t] \in Pushing /\ local[t] = s

Held(home) ==
  \A s \in Shares :
    /\ ids[s] # "twice"
    /\ ids[s] = "held" => \/ home[s] = "use"
                          \/ \E t \in Threads : pc[t] = "publish" /\ local[t] = s
    /\ ids[s] = "freed" => /\ home[s] # "use"
                           /\ \A t \in Threads : pc[t] = "publish" => local[t] # s

-----------------------------------------------------------------------------

Progress(F, d, m, b) ==
  /\ F \in [0 .. Last -> Shares]
  /\ d \in 0 .. Last /\ m \in d .. Last /\ b \in 0 .. Last
  /\ Threaded(F, d, m) /\ Gated(d, b) /\ Completed(F, d, m) /\ Copied(F, d, m)

Memory(F, d, m, home, rank) ==
  Lists(home, rank) /\ InUse(F, d, m, home) /\ InHand(home) /\ Held(home)

Inv(F, d, m, b, home, rank) ==
  TypeOK /\ Alone /\ Progress(F, d, m, b) /\ Memory(F, d, m, home, rank)

Running == \E F, d, m, b, home, rank : Inv(F, d, m, b, home, rank)

Over == /\ \A t \in Threads : pc[t] = "done"
        /\ \A s \in Shares : ids[s] \notin {"held", "twice"}
        /\ TypeOK
        /\ \E home, rank : Lists(home, rank)

IInv == Running \/ Over

-----------------------------------------------------------------------------

Assumptions == RegionsAssumption /\ SizeAssumption

LEMMA Sizes == ASSUME SizeAssumption
               PROVE  /\ MaxShares \in Nat /\ Chunk \in Nat /\ Chunk >= 2 /\ Chunk <= MaxShares
                      /\ Shares \subseteq Nat /\ Base \in Shares /\ NULL \notin Shares
                      /\ \A s \in Shares : s > 2
BY DEF SizeAssumption, Shares, Base, NULL

LEMMA Team ==
  ASSUME RegionsAssumption, region \in Regions
  PROVE  /\ IsFiniteSet(Threads) /\ Master \in Threads
         /\ nthreads \in Nat
         /\ Last \in Nat /\ \A k \in 1 .. Last : Constructs[k] \in Kinds
<1>1. IsFiniteSet(Threads) /\ Master \in Threads /\ Constructs \in Seq(Kinds)
  BY DEF RegionsAssumption, Threads, Constructs
<1>2. nthreads \in Nat
  BY <1>1, FS_CardinalityType DEF nthreads
<1> QED BY <1>1, <1>2 DEF Last

LEMMA CardBelow ==
  ASSUME NEW S, NEW T, IsFiniteSet(T), S \subseteq T
  PROVE  /\ Cardinality(S) \in Nat /\ Cardinality(T) \in Nat
         /\ Cardinality(S) <= Cardinality(T)
BY FS_Subset, FS_CardinalityType

(* The threads other than t stay where they are.                           *)
Others(t) == \A u \in Threads \ {t} : /\ pos'[u] = pos[u] /\ pc'[u] = pc[u] /\ local'[u] = local[u]
                                      /\ work_share'[u] = work_share[u]
                                      /\ last_ws'[u] = last_ws[u]

LEMMA ThreadedKept ==
  ASSUME NEW F, NEW d, NEW m, NEW t \in Threads, Threaded(F, d, m),
         Others(t), region' = region, cancelled => cancelled',
         \A u \in Threads \ {t} : Slow(pc[u], link[work_share[u]])',
         Place(F, d, m, t)'
  PROVE  Threaded(F, d, m)'
<1>1. ASSUME NEW u \in Threads, u # t
      PROVE  Place(F, d, m, u)'
  <2>1. Place(F, d, m, u)
    BY DEF Threaded
  <2>2. /\ pos'[u] = pos[u] /\ pc'[u] = pc[u]
        /\ work_share'[u] = work_share[u] /\ last_ws'[u] = last_ws[u]
    BY <1>1 DEF Others
  <2>3. Fits(pos[u], pc[u])'
    BY <2>1, <2>2 DEF Place, Fits, Constructs
  <2>4. Uses(F, d, m, pos[u], pc[u], work_share[u], last_ws[u])'
    BY <2>1, <2>2 DEF Place, Uses, Uncounted, Constructs
  <2> QED BY <1>1, <2>1, <2>2, <2>3, <2>4 DEF Place, Last, Constructs
<1> QED BY <1>1 DEF Threaded, Threads

LEMMA GatedKept ==
  ASSUME NEW d, NEW b, NEW t \in Threads, RegionsAssumption, region \in Regions, awaited \in Int,
         Gated(d, b), Others(t), UNCHANGED <<region, phase, awaited>>, cancelled => cancelled',
         Gate(b, pos[t], pc[t], local[t])',
         Arrived(b, pos[t], pc[t]) => Arrived(b, pos[t], pc[t])',
         pc'[t] \in Opening => pc[t] \in Opening,
         Arrived(b, pos[t], pc[t]) /\ pc[t] \in {"wait", "ended"} => pc'[t] \in {"wait", "ended"}
  PROVE  Gated(d, b)'
<1>1. \A u \in Threads : Gate(b, pos[u], pc[u], local[u])'
  <2>1. ASSUME NEW u \in Threads, u # t PROVE Gate(b, pos[u], pc[u], local[u])'
    <3>1. Gate(b, pos[u], pc[u], local[u])
      BY DEF Gated
    <3>2. pos'[u] = pos[u] /\ pc'[u] = pc[u] /\ local'[u] = local[u]
      BY <2>1 DEF Others
    <3> QED BY <3>1, <3>2 DEF Gate, Last, Constructs
  <2> QED BY <2>1
<1>2. Awaited(b)' \subseteq Awaited(b)
  <2>1. ASSUME NEW u \in Threads, Arrived(b, pos[u], pc[u]) PROVE Arrived(b, pos[u], pc[u])'
    <3>1. CASE u # t
      BY <2>1, <3>1 DEF Others, Arrived, Constructs
    <3>2. CASE u = t
      BY <2>1, <3>2
    <3> QED BY <3>1, <3>2
  <2> QED BY <2>1 DEF Awaited, Threads
<1>3. Cardinality(Awaited(b)') <= awaited'
  <2>1. IsFiniteSet(Awaited(b))
    BY Team, FS_Subset DEF Awaited
  <2> QED BY <1>2, <2>1, CardBelow DEF Gated
<1>4. ASSUME NEW u \in Threads, pc'[u] \in Opening
      PROVE  Awaited(b)' = {} /\ \A v \in Threads \ {u} : pc'[v] \in {"wait", "ended"}
  <2>1. pc[u] \in Opening
    BY <1>4 DEF Others
  <2>2. Awaited(b) = {} /\ \A v \in Threads \ {u} : pc[v] \in {"wait", "ended"}
    BY <2>1 DEF Gated
  <2>3. Arrived(b, pos[t], pc[t])
    BY <2>2 DEF Awaited
  <2>4. ASSUME NEW v \in Threads \ {u} PROVE pc'[v] \in {"wait", "ended"}
    <3>1. CASE v = t
      BY <2>2, <2>3, <3>1
    <3>2. CASE v # t
      BY <2>2, <3>2 DEF Others
    <3> QED BY <3>1, <3>2
  <2> QED BY <1>2, <2>2, <2>4
<1>5. \A k \in 1 .. b : Constructs'[k] \in {"barrier", "cancel"} => k <= d
  BY DEF Gated, Constructs
<1> QED BY <1>1, <1>3, <1>4, <1>5 DEF Gated, Threads

LEMMA CompletedKept ==
  ASSUME NEW F, NEW d \in Nat, NEW m \in Nat, NEW t \in Threads, RegionsAssumption, region \in Regions,
         Completed(F, d, m), Others(t), region' = region, cancelled => cancelled',
         \A k \in d + 1 .. m : threads_completed'[F[k]] = threads_completed[F[k]],
         \A k \in d + 1 .. m : threads_completed[F[k]] \in Nat,
         \A j \in d + 1 .. m : /\ Counted(j, pos[t], pc[t])' => Counted(j, pos[t], pc[t])
                               /\ t \in MayOut(j) => t \in MayOut(j)'
  PROVE  Completed(F, d, m)'
<1>1. ASSUME NEW k \in d + 1 .. m, Constructs[k] \in {"nowait", "copy"}
      PROVE  /\ threads_completed'[F[k]] < nthreads
             /\ Cardinality(Out(k)') <= threads_completed'[F[k]]
             /\ threads_completed'[F[k]] <= Cardinality(MayOut(k)')
  <2>1. Out(k)' \subseteq Out(k)
    <3>1. ASSUME NEW u \in Threads, u # t, Counted(k, pos[u], pc[u])'
          PROVE  Counted(k, pos[u], pc[u])
      BY <3>1 DEF Others, Counted
    <3> QED BY <3>1, <1>1 DEF Out, Threads
  <2>2. MayOut(k) \subseteq MayOut(k)'
    <3>1. ASSUME NEW u \in Threads, u # t, u \in MayOut(k)
          PROVE  u \in MayOut(k)'
      BY <3>1 DEF Others, MayOut, Threads
    <3> QED BY <3>1, <1>1 DEF MayOut
  <2>3. Out(k) \subseteq Threads /\ MayOut(k)' \subseteq Threads /\ MayOut(k) \subseteq Threads
    BY DEF Out, MayOut, Threads
  <2>4. IsFiniteSet(Out(k)) /\ IsFiniteSet(MayOut(k)') /\ IsFiniteSet(MayOut(k))
    BY <2>3, Team, FS_Subset
  <2>5. /\ Cardinality(Out(k)') <= Cardinality(Out(k)) /\ Cardinality(MayOut(k)) <= Cardinality(MayOut(k)')
        /\ Cardinality(Out(k)') \in Nat /\ Cardinality(Out(k)) \in Nat
        /\ Cardinality(MayOut(k)) \in Nat /\ Cardinality(MayOut(k)') \in Nat
    BY <2>1, <2>2, <2>4, CardBelow
  <2> QED BY <1>1, <2>5, Team DEF Completed
<1> QED BY <1>1 DEF Completed, Constructs, nthreads, Threads

LEMMA CopiedKept ==
  ASSUME NEW F, NEW d \in Nat, NEW m \in Nat, NEW t \in Threads,
         Copied(F, d, m), Others(t), region' = region,
         \A k \in d + 1 .. m : copyprivate[F[k]] = k => copyprivate'[F[k]] = k,
         \A k \in d + 1 .. m : pos[t] = k /\ pc[t] \in {"wake", "copy_body"} /\ Constructs[k] = "copy" =>
           copyprivate'[F[k]] = k \/ (pos'[t] = k /\ pc'[t] \in {"wake", "copy_body"})
  PROVE  Copied(F, d, m)'
<1>1. ASSUME NEW k \in d + 1 .. m, Constructs[k] = "copy"
      PROVE  \/ copyprivate'[F[k]] = k
             \/ \E u \in Threads : pos'[u] = k /\ pc'[u] \in {"wake", "copy_body"}
  <2>1. CASE copyprivate[F[k]] = k
    BY <2>1
  <2>2. CASE copyprivate[F[k]] # k
    <3>1. PICK u \in Threads : pos[u] = k /\ pc[u] \in {"wake", "copy_body"}
      BY <1>1, <2>2 DEF Copied
    <3>2. CASE u = t
      BY <1>1, <3>1, <3>2
    <3>3. CASE u # t
      BY <3>1, <3>3 DEF Others
    <3> QED BY <3>2, <3>3
  <2> QED BY <2>1, <2>2
<1> QED BY <1>1 DEF Copied, Constructs, Threads

LEMMA AloneKept ==
  ASSUME NEW t \in Threads, Alone, Others(t), region' = region,
         pc'[t] \in Owning => \/ pc[t] \in Owning
                              \/ \A u \in Threads \ {t} : pc[u] \notin Owning,
         pc'[t] \in Pushing => \/ pc[t] \in Pushing
                               \/ \A u \in Threads \ {t} : pc[u] \notin Pushing
  PROVE  Alone'
<1>1. ASSUME NEW u \in Threads, NEW v \in Threads, pc'[u] \in Owning, pc'[v] \in Owning
      PROVE  u = v
  BY <1>1 DEF Others, Alone
<1>2. ASSUME NEW u \in Threads, NEW v \in Threads, pc'[u] \in Pushing, pc'[v] \in Pushing
      PROVE  u = v
  BY <1>2 DEF Others, Alone
<1> QED BY <1>1, <1>2 DEF Alone, Threads

(* The shares and who has them, when thread t makes a step by which no     *)
(* share changes its place.                                                *)
LEMMA ListsKept ==
  ASSUME NEW home, NEW rank, Lists(home, rank),
         \A s \in Shares : home[s] \in {"alloc", "free"} => link'[s] = link[s],
         UNCHANGED <<list_alloc, list_free, heap>>
  PROVE  Lists(home, rank)'
<1>1. Listed(home, rank, "alloc", list_alloc)'
  BY DEF Lists, Listed
<1>2. Listed(home, rank, "free", list_free)'
  BY DEF Lists, Listed
<1> QED BY <1>1, <1>2 DEF Lists

LEMMA InUseKept ==
  ASSUME NEW F, NEW d \in Nat, NEW m \in Nat, NEW home, NEW t \in Threads, d <= m,
         InUse(F, d, m, home), Others(t), region' = region, to_free' = to_free,
         \A k \in d .. m : link'[F[k]] = link[F[k]] /\ content'[F[k]] = content[F[k]],
         pc'[t] \in Owning => pc[t] \in Owning
  PROVE  InUse(F, d, m, home)'
BY DEF InUse, Others, Threads

LEMMA InHandKept ==
  ASSUME NEW home, NEW t \in Threads, InHand(home), Others(t), region' = region,
         list_alloc' = list_alloc,
         \A u \in Threads \ {t} : pc[u] = "publish" =>
            /\ content'[local[u]] = content[local[u]]
            /\ link'[local[u]] = link[local[u]]
            /\ threads_completed'[local[u]] = threads_completed[local[u]],
         Hand(home, t)',
         pc[t] \in Fresh => pc'[t] \in Fresh /\ local'[t] = local[t],
         pc[t] \in Pushing => pc'[t] \in Pushing /\ local'[t] = local[t]
  PROVE  InHand(home)'
<1>1. ASSUME NEW u \in Threads, u # t
      PROVE  Hand(home, u)'
  <2>1. Hand(home, u)
    BY DEF InHand
  <2> QED BY <1>1, <2>1 DEF Others, Hand, Snapshot
<1>2. ASSUME NEW s \in Shares
      PROVE  /\ home[s] = "new" => \E u \in Threads : pc'[u] \in Fresh /\ local'[u] = s
             /\ home[s] = "retired" => \E u \in Threads : pc'[u] \in Pushing /\ local'[u] = s
  BY DEF Others, InHand
<1> QED BY <1>1, <1>2 DEF InHand, Threads

LEMMA HeldKept ==
  ASSUME NEW home, NEW t \in Threads, Held(home), Others(t), region' = region, ids' = ids,
         pc[t] = "publish" => pc'[t] = "publish" /\ local'[t] = local[t],
         pc'[t] = "publish" => pc[t] = "publish"
  PROVE  Held(home)'
BY DEF Held, Others, Threads

(* A step of thread t that leaves the shares and the lists alone.          *)
LEMMA MemoryKept ==
  ASSUME NEW F, NEW d \in Nat, NEW m \in Nat, NEW home, NEW rank, NEW t \in Threads, d <= m,
         Memory(F, d, m, home, rank), Others(t), region' = region,
         UNCHANGED <<link, threads_completed, ids, content, list_alloc, list_free, heap, to_free>>,
         pc'[t] \in Owning => pc[t] \in Owning,
         pc[t] \notin Fresh \cup Pushing, pc'[t] \notin Fresh \cup Pushing,
         pc'[t] = "alloc_free" => list_alloc = NULL /\ Snapshot(home, local'[t])
  PROVE  Memory(F, d, m, home, rank)'
<1>1. Lists(home, rank)'
  BY ListsKept DEF Memory
<1>2. InUse(F, d, m, home)'
  BY InUseKept DEF Memory
<1>3. Hand(home, t)'
  BY DEF Hand, Fresh, Snapshot
<1>4. InHand(home)'
  BY <1>3, InHandKept DEF Memory
<1>5. Held(home)'
  BY HeldKept DEF Memory, Fresh
<1> QED BY <1>1, <1>2, <1>4, <1>5 DEF Memory

(* A step of thread t by which nobody is counted in a construct or at a    *)
(* barrier, whatever it does to the lists.                                 *)
LEMMA ProgressKept ==
  ASSUME Assumptions, NEW F, NEW d, NEW m, NEW b, NEW home, NEW rank, NEW t \in Threads,
         Inv(F, d, m, b, home, rank), Others(t),
         UNCHANGED <<region, awaited, phase>>, cancelled => cancelled',
         \A k \in d + 1 .. m : /\ threads_completed'[F[k]] = threads_completed[F[k]]
                               /\ copyprivate'[F[k]] = copyprivate[F[k]],
         \A u \in Threads \ {t} : Slow(pc[u], link[work_share[u]])',
         Place(F, d, m, t)',
         Gate(b, pos[t], pc[t], local[t])',
         Arrived(b, pos[t], pc[t]) => Arrived(b, pos[t], pc[t])',
         pc'[t] \in Opening => pc[t] \in Opening,
         Arrived(b, pos[t], pc[t]) /\ pc[t] \in {"wait", "ended"} => pc'[t] \in {"wait", "ended"},
         \A j \in d + 1 .. m : /\ Counted(j, pos[t], pc[t])' => Counted(j, pos[t], pc[t])
                               /\ t \in MayOut(j) => t \in MayOut(j)',
         pc[t] \in {"wake", "copy_body"} /\ Constructs[pos[t]] = "copy"
           => pos'[t] = pos[t] /\ pc'[t] \in {"wake", "copy_body"}
  PROVE  Progress(F, d, m, b)'
<1>1. /\ Threaded(F, d, m) /\ Gated(d, b) /\ Completed(F, d, m) /\ Copied(F, d, m)
      /\ region \in Regions /\ awaited \in Int
      /\ F \in [0 .. Last -> Shares] /\ d \in 0 .. Last /\ m \in d .. Last /\ b \in 0 .. Last
      /\ RegionsAssumption /\ Last \in Nat
  BY Team DEF Inv, Progress, TypeOK, Assumptions
<1>2. d \in Nat /\ m \in Nat
  BY <1>1
<1>3. Threaded(F, d, m)'
  BY <1>1, ThreadedKept
<1>4. Gated(d, b)'
  BY <1>1, GatedKept
<1>5. Completed(F, d, m)'
  <2>1. \A k \in d + 1 .. m : threads_completed[F[k]] \in Nat
    BY <1>1 DEF Inv, TypeOK
  <2> QED BY <1>1, <1>2, <2>1, CompletedKept
<1>6. Copied(F, d, m)'
  BY <1>1, <1>2, CopiedKept
<1> QED BY <1>1, <1>3, <1>4, <1>5, <1>6 DEF Progress, Last, Constructs

(* The same for all parts of the invariant.                                *)
LEMMA QuietStep ==
  ASSUME Assumptions, NEW F, NEW d, NEW m, NEW b, NEW home, NEW rank, NEW t \in Threads,
         Inv(F, d, m, b, home, rank), TypeOK', Others(t),
         UNCHANGED <<region, link, threads_completed, ids, content, copyprivate, list_alloc,
                     list_free, heap, to_free, awaited, phase>>,
         cancelled => cancelled',
         Place(F, d, m, t)',
         pc'[t] \in Owning => pc[t] \in Owning,
         pc[t] \notin Fresh \cup Pushing, pc'[t] \notin Fresh \cup Pushing,
         pc'[t] = "alloc_free" => list_alloc = NULL /\ Snapshot(home, local'[t]),
         Gate(b, pos[t], pc[t], local[t])',
         Arrived(b, pos[t], pc[t]) => Arrived(b, pos[t], pc[t])',
         pc'[t] \in Opening => pc[t] \in Opening,
         Arrived(b, pos[t], pc[t]) /\ pc[t] \in {"wait", "ended"} => pc'[t] \in {"wait", "ended"},
         \A j \in d + 1 .. m : /\ Counted(j, pos[t], pc[t])' => Counted(j, pos[t], pc[t])
                               /\ t \in MayOut(j) => t \in MayOut(j)',
         pc[t] \in {"wake", "copy_body"} /\ Constructs[pos[t]] = "copy"
           => pos'[t] = pos[t] /\ pc'[t] \in {"wake", "copy_body"}
  PROVE  Inv(F, d, m, b, home, rank)'
<1>1. Progress(F, d, m, b)'
  <2>1. \A u \in Threads \ {t} : Slow(pc[u], link[work_share[u]])'
    BY DEF Others, Inv, Progress, Threaded, Place, Slow
  <2> QED BY <2>1, ProgressKept
<1>2. Memory(F, d, m, home, rank)'
  <2>1. d \in Nat /\ m \in Nat /\ d <= m
    BY Team DEF Inv, Progress, TypeOK, Assumptions
  <2> QED BY <2>1, MemoryKept DEF Inv
<1>3. Alone'
  BY AloneKept DEF Inv
<1> QED BY <1>1, <1>2, <1>3 DEF Inv

(* What the invariant says of one thread.                                  *)
Facts(F, d, m, b, t) ==
  /\ Place(F, d, m, t) /\ Gate(b, pos[t], pc[t], local[t])
  /\ F \in [0 .. Last -> Shares] /\ d \in Nat /\ m \in Nat /\ b \in Nat
  /\ d <= m /\ m <= Last /\ b <= Last
  /\ Last \in Nat /\ pos[t] \in 0 .. Last /\ pc[t] \in Places
  /\ IsFiniteSet(Threads) /\ nthreads \in Nat

LEMMA Thread ==
  ASSUME Assumptions, NEW F, NEW d, NEW m, NEW b, NEW home, NEW rank, NEW t \in Threads,
         Inv(F, d, m, b, home, rank)
  PROVE  Facts(F, d, m, b, t)
BY Team DEF Facts, Inv, Progress, Threaded, Gated, Assumptions, TypeOK, Place

LEMMA StartKeeps ==
  ASSUME Assumptions, NEW F, NEW d, NEW m, NEW b, NEW home, NEW rank, NEW t \in Threads,
         Inv(F, d, m, b, home, rank), TypeOK', Start(t)
  PROVE  Inv(F, d, m, b, home, rank)'
<1>0. Facts(F, d, m, b, t)
  BY Thread
<1>1. /\ pc[t] = "outside" /\ pos'[t] = pos[t] + 1 /\ pc'[t] = "get"
      /\ last_ws'[t] = work_share[t] /\ work_share'[t] = work_share[t] /\ local'[t] = local[t]
      /\ Others(t)
  BY DEF Start, Goto, Others, Inv, TypeOK
<1>2. /\ UNCHANGED <<share_vars, region, list_alloc, list_free, heap, to_free, cancelled, awaited, phase>>
      /\ pos[t] < Last
  BY DEF Start, Last, team_vars, list_vars, barrier_vars
<1>3. Place(F, d, m, t)'
  BY <1>0, <1>1, <1>2 DEF Facts, Place, Fits, Uses, Uncounted, Slow, Getting, Owning, Pushing, Opening, Entered
<1>4. Gate(b, pos[t], pc[t], local[t])'
  BY <1>0, <1>1, <1>2 DEF Facts, Gate, Last, Constructs, Beyond
<1>5. \A j \in d + 1 .. m : /\ Counted(j, pos[t], pc[t])' => Counted(j, pos[t], pc[t])
                            /\ t \in MayOut(j) => t \in MayOut(j)'
  BY <1>0, <1>1, <1>2 DEF Facts, Counted, MayOut, Threads, Beyond
<1> QED BY <1>1, <1>2, <1>3, <1>4, <1>5, QuietStep
        DEF share_vars, Arrived, Owning, Fresh, Pushing, Opening

LEMMA WaitKeeps ==
  ASSUME Assumptions, NEW F, NEW d, NEW m, NEW b, NEW home, NEW rank, NEW t \in Threads,
         Inv(F, d, m, b, home, rank), TypeOK', PtrlockWait(t)
  PROVE  Inv(F, d, m, b, home, rank)'
<1>0. Facts(F, d, m, b, t)
  BY Thread
<1>1. /\ pc[t] = "slow_wait" /\ pc'[t] \in {"asleep", "slow_check"} /\ local'[t] = local[t]
      /\ pos'[t] = pos[t] /\ last_ws'[t] = last_ws[t] /\ work_share'[t] = work_share[t]
      /\ Others(t)
  BY DEF PtrlockWait, Goto, Others, Inv, TypeOK, thread_vars
<1>2. UNCHANGED <<share_vars, region, list_alloc, list_free, heap, to_free, cancelled, awaited, phase>>
  BY DEF PtrlockWait, team_vars, list_vars, barrier_vars, thread_vars
<1>3. Place(F, d, m, t)'
  BY <1>0, <1>1, <1>2
  DEF Facts, Place, Fits, Uses, Uncounted, Slow, Getting, Owning, Pushing, Opening, Entered,
      share_vars, Constructs
<1>4. Gate(b, pos[t], pc[t], local[t])'
  BY <1>0, <1>1, <1>2 DEF Facts, Gate, Last, Constructs, Beyond
<1>5. \A j \in d + 1 .. m : /\ Counted(j, pos[t], pc[t])' => Counted(j, pos[t], pc[t])
                            /\ t \in MayOut(j) => t \in MayOut(j)'
  BY <1>0, <1>1, <1>2 DEF Facts, Counted, MayOut, Threads, Beyond
<1> QED BY <1>0, <1>1, <1>2, <1>3, <1>4, <1>5, QuietStep
        DEF share_vars, Arrived, Owning, Fresh, Pushing, Opening, Constructs

LEMMA CheckKeeps ==
  ASSUME Assumptions, NEW F, NEW d, NEW m, NEW b, NEW home, NEW rank, NEW t \in Threads,
         Inv(F, d, m, b, home, rank), TypeOK', PtrlockCheck(t)
  PROVE  Inv(F, d, m, b, home, rank)'
<1>0. Facts(F, d, m, b, t)
  BY Thread
<1>1. /\ pc[t] = "slow_check" /\ local'[t] = local[t]
      /\ pc'[t] = IF link[work_share[t]] = Waited THEN "slow_wait" ELSE "slow_load"
      /\ pos'[t] = pos[t] /\ last_ws'[t] = last_ws[t] /\ work_share'[t] = work_share[t]
      /\ Others(t)
  BY DEF PtrlockCheck, Goto, Others, Inv, TypeOK, thread_vars
<1>2. UNCHANGED <<share_vars, region, list_alloc, list_free, heap, to_free, cancelled, awaited, phase>>
  BY DEF PtrlockCheck, team_vars, list_vars, barrier_vars, thread_vars
<1>a. link[work_share[t]] \in {NULL, Owned, Waited} \cup Shares
  BY DEF Inv, TypeOK
<1>3. Place(F, d, m, t)'
  BY <1>0, <1>1, <1>2, <1>a
  DEF Facts, Place, Fits, Uses, Uncounted, Slow, Getting, Owning, Pushing, Opening, Entered,
      share_vars, Constructs, NULL, Owned, Waited, Shares
<1>4. Gate(b, pos[t], pc[t], local[t])'
  BY <1>0, <1>1, <1>2 DEF Facts, Gate, Last, Constructs, Beyond
<1>5. \A j \in d + 1 .. m : /\ Counted(j, pos[t], pc[t])' => Counted(j, pos[t], pc[t])
                            /\ t \in MayOut(j) => t \in MayOut(j)'
  BY <1>0, <1>1, <1>2 DEF Facts, Counted, MayOut, Threads, Beyond
<1> QED BY <1>0, <1>1, <1>2, <1>3, <1>4, <1>5, QuietStep
        DEF share_vars, Arrived, Owning, Fresh, Pushing, Opening, Constructs

LEMMA InterruptedKeeps ==
  ASSUME Assumptions, NEW F, NEW d, NEW m, NEW b, NEW home, NEW rank, NEW t \in Threads,
         Inv(F, d, m, b, home, rank), TypeOK', Interrupted(t)
  PROVE  Inv(F, d, m, b, home, rank)'
<1>0. Facts(F, d, m, b, t)
  BY Thread
<1>1. /\ pc[t] = "asleep" /\ pc'[t] = "slow_check" /\ local'[t] = local[t]
      /\ pos'[t] = pos[t] /\ last_ws'[t] = last_ws[t] /\ work_share'[t] = work_share[t]
      /\ Others(t)
  BY DEF Interrupted, Goto, Others, Inv, TypeOK, thread_vars
<1>2. UNCHANGED <<share_vars, region, list_alloc, list_free, heap, to_free, cancelled, awaited, phase>>
  BY DEF Interrupted, team_vars, list_vars, barrier_vars, thread_vars
<1>3. Place(F, d, m, t)'
  BY <1>0, <1>1, <1>2
  DEF Facts, Place, Fits, Uses, Uncounted, Slow, Getting, Owning, Pushing, Opening, Entered,
      share_vars, Constructs
<1>4. Gate(b, pos[t], pc[t], local[t])'
  BY <1>0, <1>1, <1>2 DEF Facts, Gate, Last, Constructs, Beyond
<1>5. \A j \in d + 1 .. m : /\ Counted(j, pos[t], pc[t])' => Counted(j, pos[t], pc[t])
                            /\ t \in MayOut(j) => t \in MayOut(j)'
  BY <1>0, <1>1, <1>2 DEF Facts, Counted, MayOut, Threads, Beyond
<1> QED BY <1>0, <1>1, <1>2, <1>3, <1>4, <1>5, QuietStep
        DEF share_vars, Arrived, Owning, Fresh, Pushing, Opening, Constructs

LEMMA ReadFreeKeeps ==
  ASSUME Assumptions, NEW F, NEW d, NEW m, NEW b, NEW home, NEW rank, NEW t \in Threads,
         Inv(F, d, m, b, home, rank), TypeOK', AllocReadFree(t)
  PROVE  Inv(F, d, m, b, home, rank)'
<1>0. Facts(F, d, m, b, t)
  BY Thread
<1>1. /\ pc[t] = "alloc" /\ pc'[t] = "alloc_free" /\ local'[t] = list_free /\ list_alloc = NULL
      /\ pos'[t] = pos[t] /\ last_ws'[t] = last_ws[t] /\ work_share'[t] = work_share[t]
      /\ Others(t)
  BY DEF AllocReadFree, Goto, Others, Inv, TypeOK, thread_vars
<1>2. UNCHANGED <<share_vars, region, list_alloc, list_free, heap, to_free, cancelled, awaited, phase>>
  BY DEF AllocReadFree, team_vars, list_vars, barrier_vars, thread_vars
<1>a. Snapshot(home, list_free)
  BY DEF Inv, Memory, Lists, Listed, TypeOK, Snapshot
<1>3. Place(F, d, m, t)'
  BY <1>0, <1>1, <1>2
  DEF Facts, Place, Fits, Uses, Uncounted, Slow, Getting, Owning, Pushing, Opening, Entered,
      share_vars, Constructs
<1>4. Gate(b, pos[t], pc[t], local[t])'
  BY <1>0, <1>1, <1>2 DEF Facts, Gate, Last, Constructs, Beyond
<1>5. \A j \in d + 1 .. m : /\ Counted(j, pos[t], pc[t])' => Counted(j, pos[t], pc[t])
                            /\ t \in MayOut(j) => t \in MayOut(j)'
  BY <1>0, <1>1, <1>2 DEF Facts, Counted, MayOut, Threads, Beyond
<1> QED BY <1>0, <1>1, <1>2, <1>3, <1>4, <1>5, QuietStep, <1>a
        DEF share_vars, Arrived, Owning, Fresh, Pushing, Opening, Constructs

LEMMA LeaveBarrierKeeps ==
  ASSUME Assumptions, NEW F, NEW d, NEW m, NEW b, NEW home, NEW rank, NEW t \in Threads,
         Inv(F, d, m, b, home, rank), TypeOK', LeaveBarrier(t)
  PROVE  Inv(F, d, m, b, home, rank)'
<1>0. Facts(F, d, m, b, t)
  BY Thread
<1>1. /\ pc[t] = "wait" /\ pc'[t] = (IF Kind(t) = "copy" THEN "copy_end" ELSE "left")
      /\ local'[t] = local[t] /\ phase # local[t]
      /\ pos'[t] = pos[t] /\ last_ws'[t] = last_ws[t] /\ work_share'[t] = work_share[t]
      /\ Others(t)
  BY DEF LeaveBarrier, AfterBarrier, Goto, Others, Inv, TypeOK, thread_vars
<1>2. UNCHANGED <<share_vars, region, list_alloc, list_free, heap, to_free, cancelled, awaited, phase>>
  BY DEF LeaveBarrier, AfterBarrier, team_vars, list_vars, barrier_vars, thread_vars
<1>a. ~Arrived(b, pos[t], pc[t]) /\ pos[t] <= b /\ pos[t] >= 1
  BY <1>0, <1>1 DEF Facts, Gate, Arrived, BarrierKinds, Place, Fits
<1>b. Constructs[pos[t]] \in {"barrier", "cancel"} => pos[t] <= d
  BY <1>0, <1>a DEF Facts, Inv, Progress, Gated
<1>3. Place(F, d, m, t)'
  BY <1>0, <1>1, <1>2, <1>a, <1>b
  DEF Facts, Place, Fits, Uses, Uncounted, Slow, Getting, Owning, Pushing, Opening, Entered,
      share_vars, Constructs, Kind, BarrierKinds
<1>4. Gate(b, pos[t], pc[t], local[t])'
  BY <1>0, <1>1, <1>2, <1>a DEF Facts, Gate, Last, Constructs, Beyond, Kind, BarrierKinds, Place, Fits
<1>5. \A j \in d + 1 .. m : /\ Counted(j, pos[t], pc[t])' => Counted(j, pos[t], pc[t])
                            /\ t \in MayOut(j) => t \in MayOut(j)'
  BY <1>0, <1>1, <1>2, <1>a, <1>b DEF Facts, Counted, MayOut, Threads, Beyond, Kind, BarrierKinds, Place, Fits
<1> QED BY <1>0, <1>1, <1>2, <1>3, <1>4, <1>5, QuietStep, <1>a
        DEF share_vars, Arrived, Owning, Fresh, Pushing, Opening, Constructs, Kind

LEMMA LeftKeeps ==
  ASSUME Assumptions, NEW F, NEW d, NEW m, NEW b, NEW home, NEW rank, NEW t \in Threads,
         Inv(F, d, m, b, home, rank), TypeOK', Left(t)
  PROVE  Inv(F, d, m, b, home, rank)'
<1>0. Facts(F, d, m, b, t)
  BY Thread
<1>1. /\ pc[t] = "left" /\ pc'[t] = "outside" /\ last_ws'[t] = NULL
      /\ pos'[t] = pos[t] /\ work_share'[t] = work_share[t] /\ local'[t] = local[t]
      /\ Others(t)
  BY DEF Left, Goto, Others, Inv, TypeOK, thread_vars
<1>2. UNCHANGED <<share_vars, region, list_alloc, list_free, heap, to_free, cancelled, awaited, phase>>
  BY DEF Left, team_vars, list_vars, barrier_vars, thread_vars
<1>3. Place(F, d, m, t)'
  BY <1>0, <1>1, <1>2
  DEF Facts, Place, Fits, Uses, Uncounted, Slow, Getting, Owning, Pushing, Opening, Entered,
      share_vars, Constructs
<1>4. Gate(b, pos[t], pc[t], local[t])'
  BY <1>0, <1>1, <1>2 DEF Facts, Gate, Last, Constructs, Beyond
<1>5. \A j \in d + 1 .. m : /\ Counted(j, pos[t], pc[t])' => Counted(j, pos[t], pc[t])
                            /\ t \in MayOut(j) => t \in MayOut(j)'
  BY <1>0, <1>1, <1>2 DEF Facts, Counted, MayOut, Threads, Beyond
<1> QED BY <1>0, <1>1, <1>2, <1>3, <1>4, <1>5, QuietStep
        DEF share_vars, Arrived, Owning, Fresh, Pushing, Opening, Constructs

LEMMA CancelKeeps ==
  ASSUME Assumptions, NEW F, NEW d, NEW m, NEW b, NEW home, NEW rank, NEW t \in Threads,
         Inv(F, d, m, b, home, rank), TypeOK', Cancel(t)
  PROVE  Inv(F, d, m, b, home, rank)'
<1>0. Facts(F, d, m, b, t)
  BY Thread
<1>1. /\ pc[t] \in {"outside", "body"} /\ pc'[t] = "ended" /\ local'[t] = local[t]
      /\ pos'[t] = pos[t] /\ last_ws'[t] = last_ws[t] /\ work_share'[t] = work_share[t]
      /\ Others(t)
  BY DEF Cancel, Goto, Others, Inv, TypeOK, thread_vars
<1>2. UNCHANGED <<share_vars, region, list_alloc, list_free, heap, to_free, awaited, phase>> /\ cancelled'
  BY DEF Cancel, team_vars, list_vars, barrier_vars, thread_vars
<1>3. Place(F, d, m, t)'
  BY <1>0, <1>1, <1>2
  DEF Facts, Place, Fits, Uses, Uncounted, Slow, Getting, Owning, Pushing, Opening, Entered,
      share_vars, Constructs
<1>4. Gate(b, pos[t], pc[t], local[t])'
  BY <1>0, <1>1, <1>2 DEF Facts, Gate, Last, Constructs, Beyond
<1>5. \A j \in d + 1 .. m : /\ Counted(j, pos[t], pc[t])' => Counted(j, pos[t], pc[t])
                            /\ t \in MayOut(j) => t \in MayOut(j)'
  BY <1>0, <1>1, <1>2 DEF Facts, Counted, MayOut, Threads, Beyond
<1> QED BY <1>0, <1>1, <1>2, <1>3, <1>4, <1>5, QuietStep
        DEF share_vars, Arrived, Owning, Fresh, Pushing, Opening, Constructs

LEMMA CancelledKeeps ==
  ASSUME Assumptions, NEW F, NEW d, NEW m, NEW b, NEW home, NEW rank, NEW t \in Threads,
         Inv(F, d, m, b, home, rank), TypeOK', Cancelled(t)
  PROVE  Inv(F, d, m, b, home, rank)'
<1>0. Facts(F, d, m, b, t)
  BY Thread
<1>1. /\ pc[t] \in {"outside", "body", "wait"} /\ pc'[t] = "ended" /\ local'[t] = local[t]
      /\ pc[t] = "wait" => Kind(t) = "cancel"
      /\ pos'[t] = pos[t] /\ last_ws'[t] = last_ws[t] /\ work_share'[t] = work_share[t]
      /\ Others(t)
  BY DEF Cancelled, Goto, Others, Inv, TypeOK, thread_vars
<1>2. UNCHANGED <<share_vars, region, list_alloc, list_free, heap, to_free, cancelled, awaited, phase>> /\ cancelled
  BY DEF Cancelled, team_vars, list_vars, barrier_vars, thread_vars
<1>3. Place(F, d, m, t)'
  BY <1>0, <1>1, <1>2
  DEF Facts, Place, Fits, Uses, Uncounted, Slow, Getting, Owning, Pushing, Opening, Entered,
      share_vars, Constructs, Kind
<1>4. Gate(b, pos[t], pc[t], local[t])'
  BY <1>0, <1>1, <1>2 DEF Facts, Gate, Last, Constructs, Beyond, Kind, Place, Fits
<1>5. \A j \in d + 1 .. m : /\ Counted(j, pos[t], pc[t])' => Counted(j, pos[t], pc[t])
                            /\ t \in MayOut(j) => t \in MayOut(j)'
  BY <1>0, <1>1, <1>2 DEF Facts, Counted, MayOut, Threads, Beyond, Kind, Place, Fits
<1> QED BY <1>0, <1>1, <1>2, <1>3, <1>4, <1>5, QuietStep
        DEF share_vars, Arrived, Owning, Fresh, Pushing, Opening, Constructs, Kind

LEMMA EndRegionKeeps ==
  ASSUME Assumptions, NEW F, NEW d, NEW m, NEW b, NEW home, NEW rank, NEW t \in Threads,
         Inv(F, d, m, b, home, rank), TypeOK', EndRegion(t)
  PROVE  Inv(F, d, m, b, home, rank)'
<1>0. Facts(F, d, m, b, t)
  BY Thread
<1>1. /\ pc[t] = "outside" /\ pc'[t] = "ended" /\ local'[t] = local[t] /\ pos[t] = Last
      /\ pos'[t] = pos[t] /\ last_ws'[t] = last_ws[t] /\ work_share'[t] = work_share[t]
      /\ Others(t)
  BY DEF EndRegion, Last, Goto, Others, Inv, TypeOK, thread_vars
<1>2. UNCHANGED <<share_vars, region, list_alloc, list_free, heap, to_free, cancelled, awaited, phase>>
  BY DEF EndRegion, Last, team_vars, list_vars, barrier_vars, thread_vars
<1>3. Place(F, d, m, t)'
  BY <1>0, <1>1, <1>2
  DEF Facts, Place, Fits, Uses, Uncounted, Slow, Getting, Owning, Pushing, Opening, Entered,
      share_vars, Constructs, Last
<1>4. Gate(b, pos[t], pc[t], local[t])'
  BY <1>0, <1>1, <1>2 DEF Facts, Gate, Last, Constructs, Beyond
<1>5. \A j \in d + 1 .. m : /\ Counted(j, pos[t], pc[t])' => Counted(j, pos[t], pc[t])
                            /\ t \in MayOut(j) => t \in MayOut(j)'
  BY <1>0, <1>1, <1>2 DEF Facts, Counted, MayOut, Threads, Beyond
<1> QED BY <1>0, <1>1, <1>2, <1>3, <1>4, <1>5, QuietStep
        DEF share_vars, Arrived, Owning, Fresh, Pushing, Opening, Constructs

(* A lock with a pointer leads to the share of the next construct.         *)
LEMMA NextShare ==
  ASSUME Assumptions, NEW F, NEW d, NEW m, NEW b, NEW home, NEW rank, NEW t \in Threads,
         Inv(F, d, m, b, home, rank), pc[t] \in Getting, link[work_share[t]] > 2
  PROVE  pos[t] \in d + 1 .. m /\ link[work_share[t]] = F[pos[t]]
<1>1. Facts(F, d, m, b, t)
  BY Thread
<1>2. pos[t] - 1 \in d .. m /\ work_share[t] = F[pos[t] - 1]
  BY <1>1 DEF Facts, Place, Uses
<1>3. (\A k \in d .. m - 1 : link[F[k]] = F[k + 1]) /\ link[F[m]] <= 2
  BY DEF Inv, Memory, InUse
<1>4. link[F[m]] \in {NULL, Owned, Waited} \cup Shares
  BY <1>1 DEF Facts, Inv, TypeOK
<1>5. pos[t] - 1 # m
  BY <1>2, <1>3, <1>4, Sizes DEF Assumptions, NULL, Owned, Waited
<1> QED BY <1>1, <1>2, <1>3, <1>5 DEF Facts

LEMMA JoinKeeps ==
  ASSUME Assumptions, NEW F, NEW d, NEW m, NEW b, NEW home, NEW rank, NEW t \in Threads,
         Inv(F, d, m, b, home, rank), TypeOK', pc[t] \in {"get", "slow_load"},
         link[work_share[t]] > 2, Join(t, link[work_share[t]]),
         UNCHANGED <<share_vars, team_vars, barrier_vars, last_ws, local, pos>>
  PROVE  Inv(F, d, m, b, home, rank)'
<1>0. Facts(F, d, m, b, t)
  BY Thread
<1>a. pos[t] \in d + 1 .. m /\ link[work_share[t]] = F[pos[t]]
  BY NextShare DEF Getting
<1>1. /\ pc'[t] = (IF Constructs[pos[t]] = "copy" THEN "copy_arrive" ELSE "body")
      /\ pos'[t] = pos[t] /\ last_ws'[t] = last_ws[t] /\ work_share'[t] = F[pos[t]]
      /\ local'[t] = local[t] /\ Others(t)
  BY <1>a DEF Join, Goto, Others, Inv, TypeOK, Kind
<1>2. /\ UNCHANGED <<share_vars, region, list_alloc, list_free, heap, to_free, cancelled, awaited, phase>>
      /\ pos[t] \in d + 1 .. m
  BY <1>a DEF team_vars, list_vars, barrier_vars
<1>3. Place(F, d, m, t)'
  BY <1>0, <1>1, <1>2
  DEF Facts, Place, Fits, Uses, Uncounted, Slow, Getting, Owning, Pushing, Opening, Entered, Constructs
<1>4. Gate(b, pos[t], pc[t], local[t])'
  BY <1>0, <1>1, <1>2 DEF Facts, Gate, Last, Constructs, Beyond
<1>5. \A j \in d + 1 .. m : /\ Counted(j, pos[t], pc[t])' => Counted(j, pos[t], pc[t])
                            /\ t \in MayOut(j) => t \in MayOut(j)'
  BY <1>0, <1>1, <1>2 DEF Facts, Counted, MayOut, Threads, Beyond
<1> QED BY <1>0, <1>1, <1>2, <1>3, <1>4, <1>5, QuietStep
        DEF share_vars, Arrived, Owning, Fresh, Pushing, Opening, Constructs

LEMMA ReturnKeeps ==
  ASSUME Assumptions, NEW F, NEW d, NEW m, NEW b, NEW home, NEW rank, NEW t \in Threads,
         Inv(F, d, m, b, home, rank), TypeOK', PtrlockReturn(t)
  PROVE  Inv(F, d, m, b, home, rank)'
<1>1. link[work_share[t]] > 2
  BY Thread DEF PtrlockReturn, Facts, Place, Slow
<1> QED BY <1>1, JoinKeeps DEF PtrlockReturn

LEMMA LookKeeps ==
  ASSUME Assumptions, NEW F, NEW d, NEW m, NEW b, NEW home, NEW rank, NEW t \in Threads,
         Inv(F, d, m, b, home, rank), TypeOK', PtrlockLoad(t),
         ~(link[work_share[t]] > 2)
  PROVE  Inv(F, d, m, b, home, rank)'
<1>0. Facts(F, d, m, b, t)
  BY Thread
<1>1. /\ pc[t] = "get" /\ pc'[t] = "get_cas" /\ local'[t] = local[t]
      /\ pos'[t] = pos[t] /\ last_ws'[t] = last_ws[t] /\ work_share'[t] = work_share[t]
      /\ Others(t)
  BY DEF PtrlockLoad, Goto, Others, Inv, TypeOK, thread_vars
<1>2. UNCHANGED <<share_vars, region, list_alloc, list_free, heap, to_free, cancelled, awaited, phase>>
  BY DEF PtrlockLoad, team_vars, list_vars, barrier_vars, thread_vars
<1>3. Place(F, d, m, t)'
  BY <1>0, <1>1, <1>2
  DEF Facts, Place, Fits, Uses, Uncounted, Slow, Getting, Owning, Pushing, Opening, Entered,
      share_vars, Constructs
<1>4. Gate(b, pos[t], pc[t], local[t])'
  BY <1>0, <1>1, <1>2 DEF Facts, Gate, Last, Constructs, Beyond
<1>5. \A j \in d + 1 .. m : /\ Counted(j, pos[t], pc[t])' => Counted(j, pos[t], pc[t])
                            /\ t \in MayOut(j) => t \in MayOut(j)'
  BY <1>0, <1>1, <1>2 DEF Facts, Counted, MayOut, Threads, Beyond
<1> QED BY <1>0, <1>1, <1>2, <1>3, <1>4, <1>5, QuietStep
        DEF share_vars, Arrived, Owning, Fresh, Pushing, Opening, Constructs

LEMMA LoadKeeps ==
  ASSUME Assumptions, NEW F, NEW d, NEW m, NEW b, NEW home, NEW rank, NEW t \in Threads,
         Inv(F, d, m, b, home, rank), TypeOK', PtrlockLoad(t)
  PROVE  Inv(F, d, m, b, home, rank)'
<1>1. CASE link[work_share[t]] > 2
  BY <1>1, JoinKeeps DEF PtrlockLoad
<1>2. CASE ~(link[work_share[t]] > 2)
  BY <1>2, LookKeeps
<1> QED BY <1>1, <1>2

-----------------------------------------------------------------------------
(* The pointer lock.                                                       *)

(* No two constructs have the same share, and none that is in use is on a  *)
(* list.                                                                   *)
LEMMA Apart ==
  ASSUME NEW F, NEW d \in Nat, NEW m \in Nat, NEW home, InUse(F, d, m, home)
  PROVE  /\ \A j, k \in d .. m : F[j] = F[k] => j = k
         /\ \A k \in d .. m : home[F[k]] = "use"
BY DEF InUse

LEMMA LockedMemory ==
  ASSUME NEW F, NEW d \in Nat, NEW m \in Nat, NEW home, NEW rank, NEW t \in Threads,
         NEW v \in {Owned, Waited}, d <= m, F[m] \in Shares, TypeOK,
         \A k \in d .. m : F[k] \in Shares,
         Memory(F, d, m, home, rank), Others(t), region' = region,
         link' = [link EXCEPT ![F[m]] = v],
         UNCHANGED <<threads_completed, ids, content, list_alloc, list_free, heap, to_free>>,
         pc[t] \notin Fresh \cup Pushing, pc'[t] \notin Fresh \cup Pushing \cup {"alloc_free"}
  PROVE  Memory(F, d, m, home, rank)'
<1>1. \A s \in Shares : home[s] # "use" => link'[s] = link[s]
  BY Apart DEF Memory, TypeOK
<1>2. Lists(home, rank)'
  BY <1>1, ListsKept DEF Memory
<1>3. InUse(F, d, m, home)'
  <2>1. link'[F[m]] = v /\ v \in {1, 2}
    BY DEF TypeOK, Owned, Waited
  <2>2. \A k \in d .. m - 1 : link'[F[k]] = F[k + 1]
    BY Apart DEF Memory, InUse, TypeOK
  <2> QED BY <2>1, <2>2 DEF Memory, InUse, NULL
<1>4. InHand(home)'
  <2>1. Hand(home, t)'
    BY DEF Hand, Fresh
  <2>2. \A u \in Threads \ {t} : pc[u] = "publish" => link'[local[u]] = link[local[u]]
    BY <1>1 DEF Memory, InHand, Hand, Fresh
  <2> QED BY <2>1, <2>2, InHandKept DEF Memory
<1>5. Held(home)'
  BY HeldKept DEF Memory, Fresh
<1> QED BY <1>2, <1>3, <1>4, <1>5 DEF Memory

(* A lock without a pointer is that of the last construct.                 *)
LEMMA LockHere ==
  ASSUME Assumptions, NEW F, NEW d, NEW m, NEW b, NEW home, NEW rank, NEW t \in Threads,
         Inv(F, d, m, b, home, rank), pc[t] \in Getting, link[work_share[t]] \in {NULL, Owned, Waited}
  PROVE  work_share[t] = F[m] /\ pos[t] = m + 1
<1>1. Facts(F, d, m, b, t)
  BY Thread
<1>2. pos[t] - 1 \in d .. m /\ work_share[t] = F[pos[t] - 1]
  BY <1>1 DEF Facts, Place, Uses
<1>3. \A k \in d .. m - 1 : link[F[k]] = F[k + 1] /\ F[k + 1] \in Shares
  BY <1>1 DEF Facts, Inv, Memory, InUse
<1>4. pos[t] - 1 = m
  <2>1. SUFFICES ASSUME pos[t] - 1 # m PROVE FALSE
    OBVIOUS
  <2>2. pos[t] - 1 \in d .. m - 1
    BY <1>1, <1>2, <2>1 DEF Facts
  <2>3. link[work_share[t]] \in Shares
    BY <1>2, <1>3, <2>2
  <2> QED BY <2>3, Sizes DEF Assumptions, NULL, Owned, Waited
<1> QED BY <1>1, <1>2, <1>4 DEF Facts

LEMMA OwnKeeps ==
  ASSUME Assumptions, NEW F, NEW d, NEW m, NEW b, NEW home, NEW rank, NEW t \in Threads,
         Inv(F, d, m, b, home, rank), TypeOK', PtrlockOwn(t)
  PROVE  Inv(F, d, m, b, home, rank)'
<1>0. Facts(F, d, m, b, t)
  BY Thread
<1>1. /\ pc[t] = "get_cas" /\ pos'[t] = pos[t] /\ last_ws'[t] = last_ws[t]
      /\ work_share'[t] = work_share[t] /\ local'[t] = local[t]
      /\ pc'[t] = IF link[work_share[t]] = NULL THEN "alloc" ELSE "slow"
      /\ Others(t)
  BY DEF PtrlockOwn, Goto, Others, Inv, TypeOK, thread_vars
<1>2. /\ UNCHANGED <<region, threads_completed, ids, content, copyprivate, list_alloc, list_free,
                     heap, to_free, cancelled, awaited, phase>>
      /\ link[work_share[t]] # NULL => link' = link
      /\ link[work_share[t]] = NULL => link' = [link EXCEPT ![work_share[t]] = Owned]
  BY DEF PtrlockOwn, team_vars, list_vars, barrier_vars
<1>3. Gate(b, pos[t], pc[t], local[t])'
  BY <1>0, <1>1, <1>2 DEF Facts, Gate, Last, Constructs, Beyond
<1>4. \A j \in d + 1 .. m : /\ Counted(j, pos[t], pc[t])' => Counted(j, pos[t], pc[t])
                            /\ t \in MayOut(j) => t \in MayOut(j)'
  BY <1>0, <1>1, <1>2 DEF Facts, Counted, MayOut, Threads, Beyond
<1>5. CASE link[work_share[t]] # NULL
  <2>1. Place(F, d, m, t)'
    BY <1>0, <1>1, <1>2, <1>5
    DEF Facts, Place, Fits, Uses, Uncounted, Slow, Getting, Owning, Pushing, Opening, Entered, Constructs
  <2> QED BY <1>0, <1>1, <1>2, <1>3, <1>4, <1>5, <2>1, QuietStep
          DEF Arrived, Owning, Fresh, Pushing, Opening
<1>6. CASE link[work_share[t]] = NULL
  <2>1. work_share[t] = F[m] /\ pos[t] = m + 1
    BY <1>1, <1>6, LockHere DEF Getting
  <2>2. link' = [link EXCEPT ![F[m]] = Owned] /\ pc'[t] = "alloc" /\ F[m] \in Shares
    BY <1>0, <1>1, <1>2, <1>6, <2>1 DEF Facts
  <2>3. Place(F, d, m, t)'
    BY <1>0, <1>1, <1>2, <2>1, <2>2
    DEF Facts, Place, Fits, Uses, Uncounted, Slow, Getting, Owning, Pushing, Opening, Entered, Constructs
  <2>4. \A u \in Threads \ {t} : Slow(pc[u], link[work_share[u]])'
    <3>1. ASSUME NEW u \in Threads \ {t} PROVE Slow(pc[u], link[work_share[u]])'
      <4>1. Slow(pc[u], link[work_share[u]]) /\ pc'[u] = pc[u] /\ work_share'[u] = work_share[u]
        BY <1>1, <1>0 DEF Others, Inv, Progress, Threaded, Place
      <4>2. link'[work_share[u]] = IF work_share[u] = F[m] THEN Owned ELSE link[work_share[u]]
        BY <2>2 DEF Inv, TypeOK
      <4> QED BY <1>6, <2>1, <4>1, <4>2 DEF Slow, NULL, Owned
    <3> QED BY <3>1
  <2>5. Progress(F, d, m, b)'
    BY <1>0, <1>1, <1>2, <1>3, <1>4, <2>2, <2>3, <2>4, ProgressKept DEF Arrived, Opening
  <2>6. Memory(F, d, m, home, rank)'
    <3>1. \A k \in d .. m : F[k] \in Shares
      BY <1>0 DEF Facts
    <3>2. Memory(F, d, m, home, rank) /\ TypeOK /\ d \in Nat /\ m \in Nat /\ d <= m
      BY <1>0 DEF Facts, Inv
    <3>3. pc[t] \notin Fresh \cup Pushing /\ pc'[t] \notin Fresh \cup Pushing \cup {"alloc_free"}
      BY <1>1, <2>2 DEF Fresh, Pushing
    <3> QED BY <1>1, <1>2, <2>2, <3>1, <3>2, <3>3, LockedMemory
  <2>7. \A u \in Threads : pc[u] \notin Owning
    BY <1>6, <2>1 DEF Inv, Memory, InUse
  <2>8. Alone'
    BY <1>1, <1>2, <2>2, <2>7, AloneKept DEF Inv, Pushing
  <2> QED BY <2>5, <2>6, <2>8 DEF Inv
<1> QED BY <1>5, <1>6

LEMMA FlagKeeps ==
  ASSUME Assumptions, NEW F, NEW d, NEW m, NEW b, NEW home, NEW rank, NEW t \in Threads,
         Inv(F, d, m, b, home, rank), TypeOK', PtrlockFlag(t)
  PROVE  Inv(F, d, m, b, home, rank)'
<1>0. Facts(F, d, m, b, t)
  BY Thread
<1>1. /\ pc[t] = "slow" /\ pos'[t] = pos[t] /\ last_ws'[t] = last_ws[t]
      /\ work_share'[t] = work_share[t] /\ local'[t] = local[t] /\ pc'[t] = "slow_wait"
      /\ Others(t)
  BY DEF PtrlockFlag, Goto, Others, Inv, TypeOK, thread_vars
<1>2. /\ UNCHANGED <<region, threads_completed, ids, content, copyprivate, list_alloc, list_free,
                     heap, to_free, cancelled, awaited, phase>>
      /\ link[work_share[t]] # Owned => link' = link
      /\ link[work_share[t]] = Owned => link' = [link EXCEPT ![work_share[t]] = Waited]
      /\ link[work_share[t]] # NULL
  BY <1>0 DEF PtrlockFlag, team_vars, list_vars, barrier_vars, Facts, Place, Slow
<1>3. Gate(b, pos[t], pc[t], local[t])'
  BY <1>0, <1>1, <1>2 DEF Facts, Gate, Last, Constructs, Beyond
<1>4. \A j \in d + 1 .. m : /\ Counted(j, pos[t], pc[t])' => Counted(j, pos[t], pc[t])
                            /\ t \in MayOut(j) => t \in MayOut(j)'
  BY <1>0, <1>1, <1>2 DEF Facts, Counted, MayOut, Threads, Beyond
<1>5. CASE link[work_share[t]] # Owned
  <2>1. Place(F, d, m, t)'
    BY <1>0, <1>1, <1>2, <1>5
    DEF Facts, Place, Fits, Uses, Uncounted, Slow, Getting, Owning, Pushing, Opening, Entered, Constructs
  <2> QED BY <1>0, <1>1, <1>2, <1>3, <1>4, <1>5, <2>1, QuietStep
          DEF Arrived, Owning, Fresh, Pushing, Opening
<1>6. CASE link[work_share[t]] = Owned
  <2>1. work_share[t] = F[m] /\ pos[t] = m + 1
    BY <1>1, <1>6, LockHere DEF Getting
  <2>2. link' = [link EXCEPT ![F[m]] = Waited] /\ F[m] \in Shares
    BY <1>0, <1>1, <1>2, <1>6, <2>1 DEF Facts
  <2>3. link'[F[m]] = Waited
    BY <2>2 DEF Inv, TypeOK
  <2>4. Place(F, d, m, t)'
    BY <1>0, <1>1, <1>2, <2>1, <2>2, <2>3
    DEF Facts, Place, Fits, Uses, Uncounted, Slow, Getting, Owning, Pushing, Opening, Entered,
        Constructs, NULL, Owned, Waited
  <2>5. \A u \in Threads \ {t} : Slow(pc[u], link[work_share[u]])'
    <3>1. ASSUME NEW u \in Threads \ {t} PROVE Slow(pc[u], link[work_share[u]])'
      <4>1. Slow(pc[u], link[work_share[u]]) /\ pc'[u] = pc[u] /\ work_share'[u] = work_share[u]
        BY <1>1, <1>0 DEF Others, Inv, Progress, Threaded, Place
      <4>2. link'[work_share[u]] = IF work_share[u] = F[m] THEN Waited ELSE link[work_share[u]]
        BY <2>2 DEF Inv, TypeOK
      <4> QED BY <1>6, <2>1, <4>1, <4>2 DEF Slow, NULL, Owned, Waited
    <3> QED BY <3>1
  <2>6. Progress(F, d, m, b)'
    BY <1>0, <1>1, <1>2, <1>3, <1>4, <2>4, <2>5, ProgressKept DEF Arrived, Opening
  <2>7. Memory(F, d, m, home, rank)'
    <3>1. \A k \in d .. m : F[k] \in Shares
      BY <1>0 DEF Facts
    <3>2. Memory(F, d, m, home, rank) /\ TypeOK /\ d \in Nat /\ m \in Nat /\ d <= m
      BY <1>0 DEF Facts, Inv
    <3>3. pc[t] \notin Fresh \cup Pushing /\ pc'[t] \notin Fresh \cup Pushing \cup {"alloc_free"}
      BY <1>1, <2>2 DEF Fresh, Pushing
    <3> QED BY <1>1, <1>2, <2>2, <3>1, <3>2, <3>3, LockedMemory
  <2>8. Alone'
    BY <1>1, <1>2, AloneKept DEF Inv, Pushing, Owning
  <2> QED BY <2>6, <2>7, <2>8 DEF Inv
<1> QED BY <1>5, <1>6

LEMMA UsedShares ==
  ASSUME Assumptions, NEW F, NEW d, NEW m, NEW b, NEW home, NEW rank, Inv(F, d, m, b, home, rank)
  PROVE  /\ \A k \in d .. m : F[k] \in Shares /\ home[F[k]] = "use" /\ content[F[k]] = k
         /\ \A j, k \in d .. m : F[j] = F[k] => j = k
<1>1. /\ F \in [0 .. Last -> Shares] /\ d \in 0 .. Last /\ m \in d .. Last
      /\ \A k \in d .. m : home[F[k]] = "use" /\ content[F[k]] = k
      /\ Last \in Nat
  BY Team DEF Inv, Progress, Memory, InUse, Assumptions, TypeOK
<1> QED BY <1>1

LEMMA SlowKept ==
  ASSUME Assumptions, NEW F, NEW d, NEW m, NEW b, NEW home, NEW rank, NEW t \in Threads,
         Inv(F, d, m, b, home, rank), Others(t),
         \A k \in d .. m : link'[F[k]] = link[F[k]]
  PROVE  \A u \in Threads \ {t} : Slow(pc[u], link[work_share[u]])'
<1>1. ASSUME NEW u \in Threads \ {t} PROVE Slow(pc[u], link[work_share[u]])'
  <2>1. Facts(F, d, m, b, u)
    BY Thread
  <2>2. pc'[u] = pc[u] /\ work_share'[u] = work_share[u]
    BY DEF Others
  <2>3. CASE pc[u] \in Getting
    <3>1. link'[work_share[u]] = link[work_share[u]]
      BY <2>1, <2>3 DEF Facts, Place, Uses
    <3> QED BY <2>1, <2>2, <3>1 DEF Facts, Place, Slow
  <2>4. CASE pc[u] \notin Getting
    BY <2>2, <2>4 DEF Slow, Getting
  <2> QED BY <2>3, <2>4
<1> QED BY <1>1

-----------------------------------------------------------------------------
(* The lists.                                                              *)

LEMMA FreeReadKeeps ==
  ASSUME Assumptions, NEW F, NEW d, NEW m, NEW b, NEW home, NEW rank, NEW t \in Threads,
         Inv(F, d, m, b, home, rank), TypeOK', FreeRead(t)
  PROVE  Inv(F, d, m, b, home, rank)'
<1>0. Facts(F, d, m, b, t)
  BY Thread
<1>1. /\ pc[t] \in {"free", "free_open"} /\ pos'[t] = pos[t] /\ last_ws'[t] = last_ws[t]
      /\ work_share'[t] = work_share[t] /\ local'[t] = local[t]
      /\ pc'[t] = IF pc[t] = "free" THEN "push" ELSE "push_open"
      /\ Others(t)
  BY DEF FreeRead, Goto, Others, Inv, TypeOK, thread_vars
<1>2. /\ UNCHANGED <<region, threads_completed, ids, content, copyprivate, list_alloc, list_free,
                     heap, to_free, cancelled, awaited, phase>>
      /\ link' = [link EXCEPT ![local[t]] = list_free]
  BY DEF FreeRead, team_vars, list_vars, barrier_vars
<1>3. local[t] \in Shares /\ home[local[t]] = "retired"
  BY <1>1 DEF Inv, Memory, InHand, Hand, Pushing
<1>4. \A s \in Shares : home[s] # "retired" => link'[s] = link[s]
  BY <1>2, <1>3 DEF Inv, TypeOK
<1>5. \A k \in d .. m : F[k] \in Shares /\ link'[F[k]] = link[F[k]]
  BY <1>4, UsedShares
<1>6. Progress(F, d, m, b)'
  <2>1. Place(F, d, m, t)'
    BY <1>0, <1>1, <1>2
    DEF Facts, Place, Fits, Uses, Uncounted, Slow, Getting, Owning, Pushing, Opening, Entered, Constructs
  <2>2. Gate(b, pos[t], pc[t], local[t])'
    BY <1>0, <1>1, <1>2 DEF Facts, Gate, Last, Constructs, Beyond
  <2>3. \A j \in d + 1 .. m : /\ Counted(j, pos[t], pc[t])' => Counted(j, pos[t], pc[t])
                              /\ t \in MayOut(j) => t \in MayOut(j)'
    BY <1>0, <1>1, <1>2 DEF Facts, Counted, MayOut, Threads, Beyond
  <2>4. \A u \in Threads \ {t} : Slow(pc[u], link[work_share[u]])'
    BY <1>1, <1>5, SlowKept
  <2> QED BY <1>0, <1>1, <1>2, <2>1, <2>2, <2>3, <2>4, ProgressKept DEF Arrived, Opening, Constructs
<1>7. Memory(F, d, m, home, rank)'
  <2>1. Lists(home, rank)'
    BY <1>2, <1>4, ListsKept DEF Inv, Memory
  <2>2. InUse(F, d, m, home)'
    BY <1>0, <1>1, <1>2, <1>5, InUseKept DEF Facts, Inv, Memory, Owning
  <2>3. InHand(home)'
    <3>1. Hand(home, t)'
      BY <1>1, <1>3 DEF Hand, Fresh
    <3>2. \A u \in Threads \ {t} : pc[u] = "publish" => link'[local[u]] = link[local[u]]
      BY <1>4 DEF Inv, Memory, InHand, Hand, Fresh
    <3>3. pc[t] \notin Fresh /\ pc'[t] \in Pushing
      BY <1>1 DEF Fresh, Pushing
    <3> QED BY <1>1, <1>2, <3>1, <3>2, <3>3, InHandKept DEF Inv, Memory
  <2>4. Held(home)'
    BY <1>1, <1>2, HeldKept DEF Inv, Memory
  <2> QED BY <2>1, <2>2, <2>3, <2>4 DEF Memory
<1>8. Alone'
  BY <1>1, <1>2, AloneKept DEF Inv, Owning, Pushing
<1> QED BY <1>6, <1>7, <1>8 DEF Inv

LEMMA InitShareKeeps ==
  ASSUME Assumptions, NEW F, NEW d, NEW m, NEW b, NEW home, NEW rank, NEW t \in Threads,
         Inv(F, d, m, b, home, rank), TypeOK', InitShare(t)
  PROVE  Inv(F, d, m, b, home, rank)'
<1>0. Facts(F, d, m, b, t)
  BY Thread
<1>1. /\ pc[t] = "init" /\ pos'[t] = pos[t] /\ last_ws'[t] = last_ws[t]
      /\ work_share'[t] = local[t] /\ local'[t] = local[t] /\ pc'[t] = "publish"
      /\ Others(t)
  BY DEF InitShare, Goto, Others, Inv, TypeOK
<1>2. /\ UNCHANGED <<region, copyprivate, list_alloc, list_free, heap, to_free, cancelled, awaited,
                     phase>>
      /\ link' = [link EXCEPT ![local[t]] = NULL]
      /\ threads_completed' = [threads_completed EXCEPT ![local[t]] = 0]
      /\ \E i \in {"held", "none"} : ids' = [ids EXCEPT ![local[t]] = i]
      /\ content' = [content EXCEPT ![local[t]] = pos[t]]
  BY DEF InitShare, team_vars, list_vars, barrier_vars
<1>3. local[t] \in Shares /\ home[local[t]] = "new"
  BY <1>1 DEF Inv, Memory, InHand, Hand, Fresh
<1>4. /\ link'[local[t]] = NULL /\ threads_completed'[local[t]] = 0 /\ content'[local[t]] = pos[t]
      /\ ids'[local[t]] \in {"held", "none"}
  BY <1>2, <1>3 DEF Inv, TypeOK
<1>5. \A s \in Shares : s # local[t] => /\ link'[s] = link[s] /\ content'[s] = content[s]
                                        /\ threads_completed'[s] = threads_completed[s]
                                        /\ ids'[s] = ids[s]
  BY <1>2, <1>3 DEF Inv, TypeOK
<1>6. \A k \in d .. m : /\ F[k] \in Shares /\ link'[F[k]] = link[F[k]] /\ content'[F[k]] = content[F[k]]
                        /\ threads_completed'[F[k]] = threads_completed[F[k]]
  BY <1>3, <1>5, UsedShares
<1>7. Progress(F, d, m, b)'
  <2>1. Place(F, d, m, t)'
    BY <1>0, <1>1, <1>2
    DEF Facts, Place, Fits, Uses, Uncounted, Slow, Getting, Owning, Pushing, Opening, Entered, Constructs
  <2>2. Gate(b, pos[t], pc[t], local[t])'
    BY <1>0, <1>1, <1>2 DEF Facts, Gate, Last, Constructs, Beyond
  <2>3. \A j \in d + 1 .. m : /\ Counted(j, pos[t], pc[t])' => Counted(j, pos[t], pc[t])
                              /\ t \in MayOut(j) => t \in MayOut(j)'
    BY <1>0, <1>1, <1>2 DEF Facts, Counted, MayOut, Threads, Beyond
  <2>4. \A u \in Threads \ {t} : Slow(pc[u], link[work_share[u]])'
    BY <1>1, <1>6, SlowKept
  <2>5. \A k \in d + 1 .. m : /\ threads_completed'[F[k]] = threads_completed[F[k]]
                              /\ copyprivate'[F[k]] = copyprivate[F[k]]
    BY <1>0, <1>2, <1>6 DEF Facts
  <2> QED BY <1>0, <1>1, <1>2, <2>1, <2>2, <2>3, <2>4, <2>5, ProgressKept DEF Arrived, Opening, Constructs
<1>8. Memory(F, d, m, home, rank)'
  <2>1. Lists(home, rank)'
    BY <1>2, <1>3, <1>5, ListsKept DEF Inv, Memory
  <2>2. InUse(F, d, m, home)'
    BY <1>0, <1>1, <1>2, <1>6, InUseKept DEF Facts, Inv, Memory, Owning
  <2>3. InHand(home)'
    <3>1. Hand(home, t)'
      BY <1>1, <1>3, <1>4 DEF Hand, Fresh, Pushing
    <3>2. \A u \in Threads \ {t} : pc[u] # "publish"
      BY <1>1 DEF Inv, Alone, Owning
    <3>3. pc[t] \notin Pushing /\ pc'[t] \in Fresh
      BY <1>1 DEF Fresh, Pushing
    <3> QED BY <1>1, <1>2, <3>1, <3>2, <3>3, InHandKept DEF Inv, Memory
  <2>4. Held(home)'
    <3>1. \A u \in Threads \ {t} : pc'[u] # "publish" /\ pc[u] # "publish"
      BY <1>1 DEF Inv, Alone, Owning, Others
    <3>2. ASSUME NEW s \in Shares
          PROVE  /\ ids'[s] # "twice"
                 /\ ids'[s] = "held" => \/ home[s] = "use"
                                        \/ \E u \in Threads : pc'[u] = "publish" /\ local'[u] = s
                 /\ ids'[s] = "freed" => /\ home[s] # "use"
                                         /\ \A u \in Threads : pc'[u] = "publish" => local'[u] # s
      <4>1. CASE s = local[t]
        BY <1>1, <1>4, <3>1, <4>1
      <4>2. CASE s # local[t]
        <5>1. ids'[s] = ids[s]
          BY <1>5, <4>2
        <5>2. \A u \in Threads : pc[u] # "publish"
          BY <1>1, <3>1
        <5> QED BY <1>1, <3>1, <4>2, <5>1, <5>2 DEF Inv, Memory, Held
      <4> QED BY <4>1, <4>2
    <3> QED BY <1>2, <3>2 DEF Held, Threads
  <2> QED BY <2>1, <2>2, <2>3, <2>4 DEF Memory
<1>9. Alone'
  BY <1>1, <1>2, AloneKept DEF Inv, Owning, Pushing
<1> QED BY <1>7, <1>8, <1>9 DEF Inv

(* The owner of the lock gets the new share n, which comes from a list or  *)
(* from the heap.                                                          *)
LEMMA Allocated ==
  ASSUME Assumptions, NEW F, NEW d, NEW m, NEW b, NEW home, NEW rank, NEW t \in Threads,
         Inv(F, d, m, b, home, rank), TypeOK', Others(t),
         pc[t] \in {"alloc", "alloc_free"}, pc'[t] = "init", pos'[t] = pos[t],
         work_share'[t] = work_share[t], last_ws'[t] = last_ws[t],
         UNCHANGED <<region, threads_completed, ids, content, copyprivate, to_free, cancelled,
                     awaited, phase>>,
         \A s \in Shares : home[s] = "use" => link'[s] = link[s],
         NEW n \in Shares, local'[t] = n, home[n] \in {"alloc", "free", "heap"},
         NEW newhome, NEW newrank, Lists(newhome, newrank)',
         newhome[n] = "new",
         \A s \in Shares : s # n /\ newhome[s] # home[s] =>
            home[s] \in {"free", "heap"} /\ newhome[s] \in {"alloc", "heap"}
  PROVE  Inv(F, d, m, b, newhome, newrank)'
<1>0. Facts(F, d, m, b, t)
  BY Thread
<1>1. \A k \in d .. m : F[k] \in Shares /\ link'[F[k]] = link[F[k]]
  BY UsedShares
<1>2. Progress(F, d, m, b)'
  <2>1. Place(F, d, m, t)'
    BY <1>0
    DEF Facts, Place, Fits, Uses, Uncounted, Slow, Getting, Owning, Pushing, Opening, Entered, Constructs
  <2>2. Gate(b, pos[t], pc[t], local[t])'
    BY <1>0 DEF Facts, Gate, Last, Constructs, Beyond
  <2>3. \A j \in d + 1 .. m : /\ Counted(j, pos[t], pc[t])' => Counted(j, pos[t], pc[t])
                              /\ t \in MayOut(j) => t \in MayOut(j)'
    BY <1>0 DEF Facts, Counted, MayOut, Threads, Beyond
  <2>4. \A u \in Threads \ {t} : Slow(pc[u], link[work_share[u]])'
    BY <1>1, SlowKept
  <2> QED BY <1>0, <2>1, <2>2, <2>3, <2>4, ProgressKept DEF Arrived, Opening, Constructs
<1>3. \A u \in Threads \ {t} : pc[u] \notin Owning /\ pc'[u] \notin Owning
  BY DEF Inv, Alone, Owning, Others
<1>4. \A s \in Shares : /\ newhome[s] = "use" <=> home[s] = "use"
                        /\ newhome[s] = "retired" <=> home[s] = "retired"
                        /\ newhome[s] = "new" => s = n
  <2>1. \A s \in Shares : home[s] # "new"
    BY <1>3 DEF Inv, Memory, InHand, Fresh, Owning
  <2> QED BY <2>1
<1>5. InUse(F, d, m, newhome)'
  <2>1. InUse(F, d, m, home)'
    BY <1>0, <1>1, InUseKept DEF Facts, Inv, Memory, Owning
  <2> QED BY <1>1, <1>4, <2>1 DEF InUse
<1>6. InHand(newhome)'
  <2>1. ASSUME NEW u \in Threads
        PROVE  Hand(newhome, u)'
    <3>1. CASE u = t
      BY <3>1 DEF Hand, Fresh, Pushing
    <3>2. CASE u # t
      BY <1>3, <1>4, <3>2 DEF Inv, Memory, InHand, Hand, Owning, Fresh, Others
    <3> QED BY <3>1, <3>2
  <2>2. ASSUME NEW s \in Shares
        PROVE  /\ newhome[s] = "new" => \E u \in Threads : pc'[u] \in Fresh /\ local'[u] = s
               /\ newhome[s] = "retired" => \E u \in Threads : pc'[u] \in Pushing /\ local'[u] = s
    <3>1. CASE newhome[s] = "new"
      BY <1>4, <3>1 DEF Fresh
    <3>2. CASE newhome[s] = "retired"
      <4>1. PICK u \in Threads : pc[u] \in Pushing /\ local[u] = s
        BY <1>4, <3>2 DEF Inv, Memory, InHand
      <4> QED BY <3>2, <4>1 DEF Pushing, Others
    <3> QED BY <3>1, <3>2
  <2> QED BY <2>1, <2>2 DEF InHand, Threads
<1>7. Held(newhome)'
  <2>1. Held(home)'
    BY HeldKept DEF Inv, Memory
  <2> QED BY <1>4, <2>1 DEF Held
<1>8. Alone'
  BY <1>3, AloneKept DEF Inv, Owning, Pushing
<1> QED BY <1>2, <1>5, <1>6, <1>7, <1>8 DEF Inv, Memory

LEMMA FromListKeeps ==
  ASSUME Assumptions, NEW F, NEW d, NEW m, NEW b, NEW home, NEW rank, NEW t \in Threads,
         Inv(F, d, m, b, home, rank), TypeOK', AllocFromList(t)
  PROVE  \E newhome, newrank : Inv(F, d, m, b, newhome, newrank)'
<1>1. /\ pc[t] = "alloc" /\ pos'[t] = pos[t] /\ last_ws'[t] = last_ws[t]
      /\ work_share'[t] = work_share[t] /\ local'[t] = list_alloc /\ pc'[t] = "init"
      /\ Others(t)
  BY DEF AllocFromList, Goto, Others, Inv, TypeOK
<1>2. /\ UNCHANGED <<region, link, threads_completed, ids, content, copyprivate, list_free, heap,
                     to_free, cancelled, awaited, phase>>
      /\ list_alloc # NULL /\ list_alloc' = link[list_alloc] /\ list_alloc \in Shares
  BY DEF AllocFromList, share_vars, barrier_vars, Inv, TypeOK
<1>a. PICK n : n = list_alloc
  OBVIOUS
<1> DEFINE newhome == [home EXCEPT ![n] = "new"]
<1>3. /\ home \in [Shares -> Homes] /\ rank \in [Shares -> Int]
      /\ Listed(home, rank, "alloc", n) /\ Listed(home, rank, "free", list_free)
      /\ \A s \in Shares : home[s] = "heap" <=> s >= heap
  BY <1>a DEF Inv, Memory, Lists
<1>4. home[n] = "alloc" /\ n \in Shares
  BY <1>a, <1>2, <1>3 DEF Listed
<1>5. newhome \in [Shares -> Homes] /\ newhome[n] = "new" /\ \A s \in Shares : s # n => newhome[s] = home[s]
  BY <1>3, <1>4 DEF Homes
<1>6. Listed(newhome, rank, "free", list_free)'
  BY <1>2, <1>3, <1>4, <1>5 DEF Listed
<1>7. Listed(newhome, rank, "alloc", list_alloc)'
  <2> HIDE DEF newhome
  <2>1. CASE link[n] = NULL
    <3>1. \A s \in Shares : newhome[s] # "alloc"
      BY <1>3, <1>4, <1>5, <2>1 DEF Listed
    <3> QED BY <1>a, <1>2, <2>1, <3>1 DEF Listed
  <2>2. CASE link[n] # NULL
    <3>1. link[n] \in Shares /\ home[link[n]] = "alloc" /\ rank[link[n]] = rank[n] - 1 /\ link[n] # n
      BY <1>3, <1>4, <2>2 DEF Listed
    <3>2. ASSUME NEW s \in Shares, newhome[s] = "alloc"
          PROVE  /\ s # n /\ home[s] = "alloc" /\ rank[s] <= rank[link[n]]
                 /\ link[s] # NULL => link[s] \in Shares /\ newhome[link[s]] = "alloc"
                                      /\ rank[link[s]] = rank[s] - 1
                 /\ s # link[n] => \E u \in Shares : newhome[u] = "alloc" /\ link[u] = s
      <4>1. s # n /\ home[s] = "alloc"
        BY <1>5, <3>2
      <4>2. rank[s] <= rank[n] /\ rank[s] # rank[n]
        BY <1>3, <1>4, <4>1 DEF Listed
      <4>3. rank[s] <= rank[link[n]]
        BY <1>3, <1>4, <3>1, <4>2
      <4>4. ASSUME link[s] # NULL
            PROVE  link[s] \in Shares /\ newhome[link[s]] = "alloc" /\ rank[link[s]] = rank[s] - 1
        <5>1. link[s] \in Shares /\ home[link[s]] = "alloc" /\ rank[link[s]] = rank[s] - 1
          BY <1>3, <4>1, <4>4 DEF Listed
        <5>2. link[s] # n
          BY <1>3, <1>4, <4>2, <5>1
        <5> QED BY <1>5, <5>1, <5>2
      <4>5. ASSUME s # link[n]
            PROVE  \E u \in Shares : newhome[u] = "alloc" /\ link[u] = s
        <5>1. PICK u \in Shares : home[u] = "alloc" /\ link[u] = s
          BY <1>3, <4>1 DEF Listed
        <5> QED BY <1>5, <4>5, <5>1
      <4> QED BY <4>1, <4>3, <4>4, <4>5
    <3>3. newhome[link[n]] = "alloc"
      BY <1>5, <3>1
    <3>4. \A s \in Shares : newhome[s] = "alloc" => home[s] = "alloc"
      BY <3>2
    <3>5. ASSUME NEW s \in Shares, newhome[s] = "alloc"
          PROVE  /\ link[s] = NULL => \A u \in Shares : newhome[u] = "alloc" => rank[s] <= rank[u]
                 /\ \A u \in Shares : newhome[u] = "alloc" /\ rank[u] = rank[s] => u = s
      BY <1>3, <3>4, <3>5 DEF Listed
    <3> QED BY <1>a, <1>2, <2>2, <3>2, <3>3, <3>5 DEF Listed
  <2> QED BY <2>1, <2>2
<1>8. Lists(newhome, rank)'
  BY <1>2, <1>3, <1>4, <1>5, <1>6, <1>7 DEF Lists
<1>9. Inv(F, d, m, b, newhome, rank)'
  <2> HIDE DEF newhome
  <2> QED BY <1>a, <1>1, <1>2, <1>4, <1>5, <1>8, Allocated
<1> QED BY <1>9

LEMMA FromFreeKeeps ==
  ASSUME Assumptions, NEW F, NEW d, NEW m, NEW b, NEW home, NEW rank, NEW t \in Threads,
         Inv(F, d, m, b, home, rank), TypeOK', AllocFromFree(t)
  PROVE  \E newhome, newrank : Inv(F, d, m, b, newhome, newrank)'
<1>a. PICK h, n : h = local[t] /\ n = link[h]
  OBVIOUS
<1>1. /\ pc[t] = "alloc_free" /\ pos'[t] = pos[t] /\ last_ws'[t] = last_ws[t]
      /\ work_share'[t] = work_share[t] /\ local'[t] = n /\ pc'[t] = "init"
      /\ Others(t)
  BY <1>a DEF AllocFromFree, Goto, Others, Inv, TypeOK
<1>2. /\ UNCHANGED <<region, threads_completed, ids, content, copyprivate, list_free, heap,
                     to_free, cancelled, awaited, phase>>
      /\ list_alloc' = link[n] /\ link' = [link EXCEPT ![h] = NULL] /\ h # NULL /\ n # NULL
  BY <1>a DEF AllocFromFree, NothingToTake, barrier_vars
<1>3. /\ home \in [Shares -> Homes] /\ rank \in [Shares -> Int]
      /\ Listed(home, rank, "alloc", list_alloc) /\ Listed(home, rank, "free", list_free)
      /\ \A s \in Shares : home[s] = "heap" <=> s >= heap
      /\ list_free \in Shares \cup {NULL} /\ link \in [Shares -> {NULL, Owned, Waited} \cup Shares]
  BY DEF Inv, Memory, Lists, TypeOK
<1>4. h \in Shares /\ home[h] = "free" /\ list_alloc = NULL
  BY <1>a, <1>1, <1>2 DEF Inv, Memory, InHand, Hand, Snapshot
<1>5. n \in Shares /\ home[n] = "free" /\ rank[n] = rank[h] - 1 /\ n # h
  BY <1>a, <1>2, <1>3, <1>4 DEF Listed
<1>6. \A s \in Shares : home[s] # "alloc"
  BY <1>3, <1>4 DEF Listed
<1>7. link'[h] = NULL /\ \A s \in Shares : s # h => link'[s] = link[s]
  BY <1>2, <1>3, <1>4
<1> DEFINE newhome == [s \in Shares |-> IF s = n THEN "new"
                                        ELSE IF home[s] = "free" /\ rank[s] < rank[n] THEN "alloc"
                                        ELSE home[s]]
<1>8. /\ newhome \in [Shares -> Homes] /\ newhome[n] = "new"
      /\ \A s \in Shares : newhome[s] = "alloc" <=> home[s] = "free" /\ rank[s] < rank[n]
      /\ \A s \in Shares : newhome[s] = "free" <=> home[s] = "free" /\ rank[s] >= rank[h]
      /\ \A s \in Shares : newhome[s] = "heap" <=> home[s] = "heap"
      /\ \A s \in Shares : s # n /\ newhome[s] # home[s] => home[s] = "free" /\ newhome[s] = "alloc"
  <2>1. newhome \in [Shares -> Homes] /\ newhome[n] = "new"
    BY <1>3, <1>5 DEF Homes
  <2>2. \A s \in Shares : newhome[s] = "alloc" <=> home[s] = "free" /\ rank[s] < rank[n]
    BY <1>3, <1>5, <1>6
  <2>3. ASSUME NEW s \in Shares
        PROVE  newhome[s] = "free" <=> home[s] = "free" /\ rank[s] >= rank[h]
    <3>1. home[s] = "free" /\ rank[s] = rank[n] => s = n
      BY <1>3, <1>5 DEF Listed
    <3>2. rank[s] \in Int /\ rank[h] \in Int /\ rank[n] = rank[h] - 1
      BY <1>3, <1>4, <1>5
    <3> QED BY <1>5, <3>1, <3>2
  <2> QED BY <2>1, <2>2, <2>3, <1>5
<1> HIDE DEF newhome
<1>9. Listed(newhome, rank, "free", list_free)'
  <2>1. list_free # NULL /\ list_free \in Shares /\ home[list_free] = "free" /\ rank[list_free] >= rank[h]
    BY <1>3, <1>4 DEF Listed
  <2>2. ASSUME NEW s \in Shares, newhome[s] = "free"
        PROVE  /\ rank[s] <= rank[list_free]
               /\ link'[s] # NULL => link'[s] \in Shares /\ newhome[link'[s]] = "free"
                                     /\ rank[link'[s]] = rank[s] - 1
               /\ link'[s] = NULL => \A u \in Shares : newhome[u] = "free" => rank[s] <= rank[u]
               /\ s # list_free => \E u \in Shares : newhome[u] = "free" /\ link'[u] = s
               /\ \A u \in Shares : newhome[u] = "free" /\ rank[u] = rank[s] => u = s
    <3>1. home[s] = "free" /\ rank[s] >= rank[h] /\ rank[s] \in Int /\ rank[h] \in Int
      BY <1>3, <1>4, <1>8, <2>2
    <3>2. rank[s] <= rank[list_free] /\ \A u \in Shares : newhome[u] = "free" /\ rank[u] = rank[s] => u = s
      BY <1>3, <1>8, <3>1 DEF Listed
    <3>3. CASE s = h
      <4>1. \A u \in Shares : newhome[u] = "free" => rank[s] <= rank[u]
        BY <1>3, <1>8, <3>1, <3>3
      <4>2. ASSUME s # list_free PROVE \E u \in Shares : newhome[u] = "free" /\ link'[u] = s
        <5>1. PICK u \in Shares : home[u] = "free" /\ link[u] = s
          BY <1>3, <3>1, <4>2 DEF Listed
        <5>2. rank[s] = rank[u] - 1 /\ rank[u] \in Int
          BY <1>3, <5>1, Sizes DEF Listed, Assumptions
        <5> QED BY <1>7, <1>8, <3>1, <5>1, <5>2, <3>3
      <4> QED BY <1>7, <3>2, <3>3, <4>1, <4>2
    <3>4. CASE s # h
      <4>1. link'[s] = link[s]
        BY <1>7, <3>4
      <4>2. rank[s] > rank[h]
        <5>1. rank[s] # rank[h]
          BY <1>3, <1>4, <3>1, <3>4 DEF Listed
        <5> QED BY <3>1, <5>1
      <4>3. link[s] # NULL
        BY <1>3, <1>4, <3>1, <4>2 DEF Listed
      <4>4. link[s] \in Shares /\ home[link[s]] = "free" /\ rank[link[s]] = rank[s] - 1
        BY <1>3, <3>1, <4>3 DEF Listed
      <4>5. newhome[link[s]] = "free"
        BY <1>8, <3>1, <4>2, <4>4
      <4>6. ASSUME s # list_free PROVE \E u \in Shares : newhome[u] = "free" /\ link'[u] = s
        <5>1. PICK u \in Shares : home[u] = "free" /\ link[u] = s
          BY <1>3, <3>1, <4>6 DEF Listed
        <5>2. rank[s] = rank[u] - 1 /\ rank[u] \in Int
          BY <1>3, <5>1, Sizes DEF Listed, Assumptions
        <5>3. u # h
          BY <3>1, <5>2, <4>2
        <5> QED BY <1>7, <1>8, <3>1, <5>1, <5>2, <5>3
      <4> QED BY <3>2, <4>1, <4>3, <4>4, <4>5, <4>6
    <3> QED BY <3>3, <3>4
  <2>3. newhome[list_free] = "free"
    BY <1>8, <2>1
  <2> QED BY <1>2, <2>1, <2>2, <2>3 DEF Listed
<1>10. Listed(newhome, rank, "alloc", list_alloc)'
  <2>1. ASSUME NEW s \in Shares, newhome[s] = "alloc"
        PROVE  /\ link[n] # NULL => rank[s] <= rank[link[n]]
               /\ link[n] # NULL
               /\ link'[s] # NULL => link'[s] \in Shares /\ newhome[link'[s]] = "alloc"
                                     /\ rank[link'[s]] = rank[s] - 1
               /\ link'[s] = NULL => \A u \in Shares : newhome[u] = "alloc" => rank[s] <= rank[u]
               /\ s # link[n] => \E u \in Shares : newhome[u] = "alloc" /\ link'[u] = s
               /\ \A u \in Shares : newhome[u] = "alloc" /\ rank[u] = rank[s] => u = s
    <3>1. home[s] = "free" /\ rank[s] < rank[n] /\ rank[s] \in Int /\ rank[n] \in Int /\ rank[h] \in Int
      BY <1>3, <1>4, <1>5, <1>8, <2>1
    <3>2. link'[s] = link[s] /\ s # h
      BY <1>5, <1>7, <3>1
    <3>3. link[n] # NULL
      BY <1>3, <1>5, <3>1 DEF Listed
    <3>4. rank[link[n]] = rank[n] - 1
      BY <1>3, <1>5, <3>3 DEF Listed
    <3>5. ASSUME link[s] # NULL
          PROVE  link[s] \in Shares /\ newhome[link[s]] = "alloc" /\ rank[link[s]] = rank[s] - 1
      <4>1. link[s] \in Shares /\ home[link[s]] = "free" /\ rank[link[s]] = rank[s] - 1
        BY <1>3, <3>1, <3>5 DEF Listed
      <4> QED BY <1>8, <3>1, <4>1
    <3>6. link[s] = NULL => \A u \in Shares : newhome[u] = "alloc" => rank[s] <= rank[u]
      BY <1>3, <1>8, <3>1 DEF Listed
    <3>7. ASSUME s # link[n] PROVE \E u \in Shares : newhome[u] = "alloc" /\ link'[u] = s
      <4>1. s # list_free
        BY <1>3, <1>5, <3>1 DEF Listed
      <4>2. PICK u \in Shares : home[u] = "free" /\ link[u] = s
        BY <1>3, <3>1, <4>1 DEF Listed
      <4>3. rank[s] = rank[u] - 1 /\ rank[u] \in Int
        BY <1>3, <4>2, Sizes DEF Listed, Assumptions
      <4>4. rank[u] # rank[n]
        BY <1>3, <1>5, <3>7, <4>2 DEF Listed
      <4>5. rank[u] < rank[n]
        BY <3>1, <4>3, <4>4
      <4>6. newhome[u] = "alloc" /\ u # h
        BY <1>5, <1>8, <3>1, <4>2, <4>5
      <4> QED BY <1>7, <4>2, <4>6
    <3>8. \A u \in Shares : newhome[u] = "alloc" /\ rank[u] = rank[s] => u = s
      BY <1>3, <1>8, <3>1 DEF Listed
    <3> QED BY <3>1, <3>2, <3>3, <3>4, <3>5, <3>6, <3>7, <3>8
  <2>2. link[n] # NULL => newhome[link[n]] = "alloc"
    <3>1. link[n] # NULL => link[n] \in Shares /\ home[link[n]] = "free" /\ rank[link[n]] = rank[n] - 1
      BY <1>3, <1>5 DEF Listed
    <3> QED BY <1>3, <1>5, <1>8, <3>1
  <2> QED BY <1>2, <2>1, <2>2 DEF Listed
<1>11. Lists(newhome, rank)'
  BY <1>2, <1>3, <1>8, <1>9, <1>10 DEF Lists
<1>12. \A s \in Shares : home[s] = "use" => link'[s] = link[s]
  BY <1>4, <1>7
<1>13. Inv(F, d, m, b, newhome, rank)'
  BY <1>1, <1>2, <1>5, <1>8, <1>11, <1>12, Allocated
<1> QED BY <1>13

LEMMA ChunkKeeps ==
  ASSUME Assumptions, NEW F, NEW d, NEW m, NEW b, NEW home, NEW rank, NEW t \in Threads,
         Inv(F, d, m, b, home, rank), TypeOK', AllocChunk(t)
  PROVE  \E newhome, newrank : Inv(F, d, m, b, newhome, newrank)'
<1>a. PICK n, last : n = heap /\ last = heap + 2 * chunk - 1
  OBVIOUS
<1>1. /\ pc[t] = "alloc_free" /\ pos'[t] = pos[t] /\ last_ws'[t] = last_ws[t]
      /\ work_share'[t] = work_share[t] /\ local'[t] = n /\ pc'[t] = "init"
      /\ Others(t)
  BY <1>a DEF AllocChunk, Goto, Others, Inv, TypeOK
<1>2. /\ UNCHANGED <<region, threads_completed, ids, content, copyprivate, list_free,
                     to_free, cancelled, awaited, phase>>
      /\ list_alloc' = n + 1 /\ heap' = n + 2 * chunk /\ last \in Shares
      /\ link' = [s \in Shares |-> IF s \in n + 1 .. last
                                   THEN Chain(n + 1, last)[s] ELSE link[s]]
  BY <1>a DEF AllocChunk, barrier_vars
<1>3. /\ home \in [Shares -> Homes] /\ rank \in [Shares -> Int]
      /\ Listed(home, rank, "alloc", list_alloc) /\ Listed(home, rank, "free", list_free)
      /\ \A s \in Shares : home[s] = "heap" <=> s >= heap
      /\ list_free \in Shares \cup {NULL} /\ link \in [Shares -> {NULL, Owned, Waited} \cup Shares]
      /\ chunk \in Nat \ {0} /\ heap \in Base + 1 .. MaxShares + 3 /\ MaxShares \in Nat
  BY Sizes DEF Inv, Memory, Lists, TypeOK, Assumptions
<1>4. /\ n \in Int /\ last \in Int /\ n + 1 <= last /\ n >= 4 /\ last <= MaxShares + 2 /\ heap' = last + 1
      /\ \A i \in n .. last : i \in Shares
  BY <1>a, <1>2, <1>3 DEF Base, Shares
<1>5. n \in Shares /\ home[n] = "heap" /\ \A s \in n .. last : home[s] = "heap"
  BY <1>a, <1>3, <1>4
<1>6. \A s \in Shares : home[s] # "alloc"
  <2>1. list_alloc = NULL
    BY <1>1 DEF Inv, Memory, InHand, Hand
  <2> QED BY <1>3, <2>1 DEF Listed
<1>7. /\ \A s \in n + 1 .. last - 1 : link'[s] = s + 1
      /\ link'[last] = NULL
      /\ \A s \in Shares : s \notin n + 1 .. last => link'[s] = link[s]
  BY <1>2, <1>4 DEF Chain
<1> DEFINE newhome == [s \in Shares |-> IF s = n THEN "new"
                                        ELSE IF s \in n + 1 .. last THEN "alloc"
                                        ELSE home[s]]
<1> DEFINE newrank == [s \in Shares |-> IF s \in n + 1 .. last THEN last - s ELSE rank[s]]
<1>8. /\ newhome \in [Shares -> Homes] /\ newhome[n] = "new"
      /\ \A s \in Shares : newhome[s] = "alloc" <=> s \in n + 1 .. last
      /\ \A s \in Shares : newhome[s] = "free" <=> home[s] = "free"
      /\ \A s \in Shares : newhome[s] = "heap" <=> s > last
      /\ \A s \in Shares : s # n /\ newhome[s] # home[s] => home[s] = "heap" /\ newhome[s] = "alloc"
  <2>1. newhome \in [Shares -> Homes] /\ newhome[n] = "new"
    BY <1>3, <1>5 DEF Homes
  <2>2. \A s \in Shares : newhome[s] = "alloc" <=> s \in n + 1 .. last
    BY <1>4, <1>6
  <2>3. \A s \in Shares : newhome[s] = "heap" <=> s > last
    <3>1. ASSUME NEW s \in Shares PROVE newhome[s] = "heap" <=> s > last
      <4>1. s \in Int
        BY DEF Shares
      <4>2. home[s] = "heap" <=> s >= n
        BY <1>a, <1>3
      <4> QED BY <4>1, <4>2, <1>4
    <3> QED BY <3>1
  <2>4. \A s \in Shares : newhome[s] = "free" <=> home[s] = "free"
    BY <1>4, <1>5
  <2>5. \A s \in Shares : s # n /\ newhome[s] # home[s] => home[s] = "heap" /\ newhome[s] = "alloc"
    BY <1>4, <1>5
  <2> QED BY <2>1, <2>2, <2>3, <2>4, <2>5
<1>9. /\ newrank \in [Shares -> Int]
      /\ \A s \in n + 1 .. last : newrank[s] = last - s
      /\ \A s \in Shares : s \notin n + 1 .. last => newrank[s] = rank[s]
  BY <1>3, <1>4
<1> HIDE DEF newhome, newrank
<1>10. Listed(newhome, newrank, "free", list_free)'
  <2>1. \A s \in Shares : home[s] = "free" => s \notin n .. last
    BY <1>5
  <2>2. \A s \in Shares : home[s] = "free" => newrank[s] = rank[s] /\ link'[s] = link[s]
    BY <1>4, <1>7, <1>9, <2>1
  <2> QED BY <1>2, <1>3, <1>8, <2>2 DEF Listed
<1>11. Listed(newhome, newrank, "alloc", list_alloc)'
  <2>1. ASSUME NEW s \in Shares, newhome[s] = "alloc"
        PROVE  /\ newrank[s] <= newrank[n + 1]
               /\ link'[s] # NULL => link'[s] \in Shares /\ newhome[link'[s]] = "alloc"
                                     /\ newrank[link'[s]] = newrank[s] - 1
               /\ link'[s] = NULL => \A u \in Shares : newhome[u] = "alloc" => newrank[s] <= newrank[u]
               /\ s # n + 1 => \E u \in Shares : newhome[u] = "alloc" /\ link'[u] = s
               /\ \A u \in Shares : newhome[u] = "alloc" /\ newrank[u] = newrank[s] => u = s
    <3>1. s \in n + 1 .. last /\ newrank[s] = last - s /\ newrank[n + 1] = last - (n + 1)
      BY <1>4, <1>8, <1>9, <2>1
    <3>2. \A u \in Shares : newhome[u] = "alloc" => u \in n + 1 .. last /\ newrank[u] = last - u
      BY <1>8, <1>9
    <3>3. CASE s = last
      <4>1. s # n + 1 => \E u \in Shares : newhome[u] = "alloc" /\ link'[u] = s
        <5>1. SUFFICES ASSUME s # n + 1 PROVE s - 1 \in Shares /\ newhome[s - 1] = "alloc" /\ link'[s - 1] = s
          OBVIOUS
        <5> QED BY <1>4, <1>7, <1>8, <3>1, <5>1
      <4> QED BY <1>4, <1>7, <3>1, <3>2, <3>3, <4>1
    <3>4. CASE s # last
      <4>1. link'[s] = s + 1 /\ s + 1 \in n + 1 .. last /\ s + 1 \in Shares
        BY <1>4, <1>7, <3>1, <3>4
      <4>2. newhome[s + 1] = "alloc" /\ newrank[s + 1] = newrank[s] - 1
        BY <1>4, <1>8, <1>9, <3>1, <4>1
      <4>3. s # n + 1 => \E u \in Shares : newhome[u] = "alloc" /\ link'[u] = s
        <5>1. SUFFICES ASSUME s # n + 1 PROVE s - 1 \in Shares /\ newhome[s - 1] = "alloc" /\ link'[s - 1] = s
          OBVIOUS
        <5> QED BY <1>4, <1>7, <1>8, <3>1, <5>1
      <4>4. link'[s] # NULL
        BY <1>4, <4>1 DEF NULL
      <4> QED BY <1>4, <3>1, <3>2, <4>1, <4>2, <4>3, <4>4
    <3> QED BY <3>3, <3>4
  <2>2. n + 1 \in Shares /\ newhome[n + 1] = "alloc" /\ n + 1 # NULL
    BY <1>4, <1>8 DEF NULL
  <2> QED BY <1>2, <2>1, <2>2 DEF Listed
<1>12. Lists(newhome, newrank)'
  <2>1. \A s \in Shares : newhome[s] = "heap" <=> s >= heap'
    <3>1. ASSUME NEW s \in Shares PROVE newhome[s] = "heap" <=> s >= heap'
      <4>1. s \in Int
        BY DEF Shares
      <4> QED BY <4>1, <1>4, <1>8
    <3> QED BY <3>1
  <2> QED BY <1>8, <1>9, <1>10, <1>11, <2>1 DEF Lists
<1>13. \A s \in Shares : home[s] = "use" => link'[s] = link[s]
  BY <1>4, <1>5, <1>7
<1>14. Inv(F, d, m, b, newhome, newrank)'
  BY <1>1, <1>2, <1>5, <1>8, <1>12, <1>13, Allocated
<1> QED BY <1>14

(* The push of the retired share n succeeds: nobody else has pushed since. *)
LEMMA PushedKeeps ==
  ASSUME Assumptions, NEW F, NEW d, NEW m, NEW b, NEW home, NEW rank, NEW t \in Threads,
         Inv(F, d, m, b, home, rank), TypeOK', FreePush(t), list_free = link[local[t]]
  PROVE  \E newhome, newrank : Inv(F, d, m, b, newhome, newrank)'
<1>0. Facts(F, d, m, b, t)
  BY Thread
<1>a. PICK n, head : n = local[t] /\ head = list_free
  OBVIOUS
<1>1. /\ pc[t] \in {"push", "push_open"} /\ pos'[t] = pos[t] /\ last_ws'[t] = last_ws[t]
      /\ work_share'[t] = work_share[t] /\ local'[t] = local[t]
      /\ pc'[t] = IF pc[t] = "push" THEN "left" ELSE "open"
      /\ Others(t)
  BY DEF FreePush, Goto, Others, Inv, TypeOK, thread_vars
<1>2. /\ UNCHANGED <<region, link, threads_completed, ids, content, copyprivate, list_alloc, heap,
                     to_free, cancelled, awaited, phase>>
      /\ list_free' = n /\ link[n] = head
  BY <1>a DEF FreePush, share_vars, barrier_vars, thread_vars
<1>3. /\ home \in [Shares -> Homes] /\ rank \in [Shares -> Int]
      /\ Listed(home, rank, "alloc", list_alloc) /\ Listed(home, rank, "free", head)
      /\ \A s \in Shares : home[s] = "heap" <=> s >= heap
      /\ head \in Shares \cup {NULL}
  BY <1>a DEF Inv, Memory, Lists, TypeOK
<1>4. n \in Shares /\ home[n] = "retired"
  BY <1>a, <1>1 DEF Inv, Memory, InHand, Hand, Pushing
<1>5. \A u \in Threads \ {t} : pc[u] \notin Pushing /\ pc'[u] \notin Pushing
  BY <1>1 DEF Inv, Alone, Pushing, Others
<1> DEFINE newhome == [home EXCEPT ![n] = "free"]
<1> DEFINE newrank == [rank EXCEPT ![n] = IF head = NULL THEN 0 ELSE rank[head] + 1]
<1>6. /\ newhome \in [Shares -> Homes] /\ newhome[n] = "free"
      /\ \A s \in Shares : s # n => newhome[s] = home[s]
  BY <1>3, <1>4 DEF Homes
<1>7. /\ newrank \in [Shares -> Int] /\ newrank[n] = IF head = NULL THEN 0 ELSE rank[head] + 1
      /\ \A s \in Shares : s # n => newrank[s] = rank[s]
  BY <1>3, <1>4
<1> HIDE DEF newhome, newrank
<1>8. Listed(newhome, newrank, "alloc", list_alloc)'
  <2>1. \A s \in Shares : newhome[s] = "alloc" <=> home[s] = "alloc"
    BY <1>4, <1>6
  <2>2. \A s \in Shares : home[s] = "alloc" => newrank[s] = rank[s]
    BY <1>4, <1>7
  <2>3. list_alloc # NULL => home[list_alloc] = "alloc" /\ list_alloc \in Shares
    BY <1>3 DEF Listed, Inv, TypeOK
  <2> QED BY <1>2, <1>3, <2>1, <2>2, <2>3 DEF Listed
<1>9. Listed(newhome, newrank, "free", list_free)'
  <2>1. CASE head = NULL
    <3>1. \A s \in Shares : newhome[s] = "free" => s = n
      BY <1>3, <1>6, <2>1 DEF Listed
    <3>2. n # NULL
      BY <1>4, Sizes DEF Assumptions
    <3> QED BY <1>2, <1>4, <1>6, <1>7, <2>1, <3>1, <3>2 DEF Listed
  <2>2. CASE head # NULL
    <3>1. head \in Shares /\ home[head] = "free" /\ newrank[n] = rank[head] + 1 /\ head # n
      BY <1>3, <1>4, <1>7, <2>2 DEF Listed
    <3>2. \A s \in Shares : newhome[s] = "free" => s = n \/ (home[s] = "free" /\ newrank[s] = rank[s] /\ s # n)
      BY <1>4, <1>6, <1>7
    <3>3. ASSUME NEW s \in Shares, newhome[s] = "free"
          PROVE  /\ newrank[s] <= newrank[n]
                 /\ link[s] # NULL => link[s] \in Shares /\ newhome[link[s]] = "free"
                                      /\ newrank[link[s]] = newrank[s] - 1
                 /\ link[s] = NULL => \A u \in Shares : newhome[u] = "free" => newrank[s] <= newrank[u]
                 /\ s # n => \E u \in Shares : newhome[u] = "free" /\ link[u] = s
                 /\ \A u \in Shares : newhome[u] = "free" /\ newrank[u] = newrank[s] => u = s
      <4>1. CASE s = n
        <5>1. link[s] = head /\ newhome[head] = "free" /\ newrank[head] = newrank[n] - 1
          BY <1>2, <1>3, <1>6, <1>7, <3>1, <4>1
        <5>2. ASSUME NEW u \in Shares, newhome[u] = "free", newrank[u] = newrank[s] PROVE u = s
          BY <1>3, <3>1, <3>2, <4>1, <5>2 DEF Listed
        <5> QED BY <1>7, <2>2, <3>1, <4>1, <5>1, <5>2
      <4>2. CASE s # n
        <5>1. home[s] = "free" /\ newrank[s] = rank[s] /\ rank[s] <= rank[head] /\ rank[s] \in Int
              /\ rank[head] \in Int
          BY <1>3, <3>1, <3>2, <3>3, <4>2 DEF Listed
        <5>2. ASSUME link[s] # NULL
              PROVE  link[s] \in Shares /\ newhome[link[s]] = "free" /\ newrank[link[s]] = newrank[s] - 1
          BY <1>3, <1>4, <1>6, <1>7, <5>1, <5>2 DEF Listed
        <5>3. ASSUME link[s] = NULL, NEW u \in Shares, newhome[u] = "free"
              PROVE  newrank[s] <= newrank[u]
          BY <1>3, <3>1, <3>2, <5>1, <5>3 DEF Listed
        <5>4. \E u \in Shares : newhome[u] = "free" /\ link[u] = s
          <6>1. CASE s = head
            BY <1>2, <1>4, <1>6, <6>1
          <6>2. CASE s # head
            <7>1. PICK u \in Shares : home[u] = "free" /\ link[u] = s
              BY <1>3, <5>1, <6>2 DEF Listed
            <7> QED BY <1>4, <1>6, <7>1
          <6> QED BY <6>1, <6>2
        <5>5. ASSUME NEW u \in Shares, newhome[u] = "free", newrank[u] = newrank[s] PROVE u = s
          BY <1>3, <3>1, <3>2, <5>1, <5>5 DEF Listed
        <5> QED BY <3>1, <5>1, <5>2, <5>3, <5>4, <5>5
      <4> QED BY <4>1, <4>2
    <3>4. n # NULL
      BY <1>4, Sizes DEF Assumptions
    <3> QED BY <1>2, <1>6, <3>3, <3>4 DEF Listed
  <2> QED BY <2>1, <2>2
<1>10. Lists(newhome, newrank)'
  <2>1. \A s \in Shares : newhome[s] = "heap" <=> s >= heap
    BY <1>3, <1>4, <1>6
  <2> QED BY <1>2, <1>6, <1>7, <1>8, <1>9, <2>1 DEF Lists
<1>11. Progress(F, d, m, b)'
  <2>1. Place(F, d, m, t)'
    BY <1>0, <1>1, <1>2
    DEF Facts, Place, Fits, Uses, Uncounted, Slow, Getting, Owning, Pushing, Opening, Entered, Constructs,
        BarrierKinds
  <2>2. Gate(b, pos[t], pc[t], local[t])'
    BY <1>0, <1>1, <1>2 DEF Facts, Gate, Last, Constructs, Beyond, Place, Fits, Uses, Pushing, BarrierKinds
  <2>3. \A j \in d + 1 .. m : /\ Counted(j, pos[t], pc[t])' => Counted(j, pos[t], pc[t])
                              /\ t \in MayOut(j) => t \in MayOut(j)'
    BY <1>0, <1>1, <1>2 DEF Facts, Counted, MayOut, Threads, Beyond, Place, Uses, Pushing
  <2>4. \A u \in Threads \ {t} : Slow(pc[u], link[work_share[u]])'
    BY <1>1, <1>2, SlowKept
  <2>5. Arrived(b, pos[t], pc[t]) => Arrived(b, pos[t], pc[t])'
    BY <1>0, <1>1, <1>2 DEF Arrived, Opening, Facts, Place, Fits, Constructs, BarrierKinds
  <2> QED BY <1>0, <1>1, <1>2, <2>1, <2>2, <2>3, <2>4, <2>5, ProgressKept DEF Opening, Constructs
<1>12. \A s \in Shares : /\ newhome[s] = "use" <=> home[s] = "use"
                         /\ newhome[s] = "new" <=> home[s] = "new"
                         /\ newhome[s] # "retired"
  <2>1. \A s \in Shares : home[s] = "retired" => s = n
    BY <1>a, <1>5 DEF Inv, Memory, InHand
  <2> QED BY <1>4, <1>6, <2>1
<1>13. InUse(F, d, m, newhome)'
  <2>1. InUse(F, d, m, home)'
    BY <1>0, <1>1, <1>2, InUseKept DEF Facts, Inv, Memory, Owning
  <2> QED BY UsedShares, <1>12, <2>1 DEF InUse
<1>14. InHand(newhome)'
  <2>1. ASSUME NEW u \in Threads
        PROVE  Hand(newhome, u)'
    <3>1. CASE u = t
      BY <1>1, <3>1 DEF Hand, Fresh, Pushing
    <3>2. CASE u # t
      <4>1. Hand(home, u)
        BY DEF Inv, Memory, InHand
      <4>2. pc'[u] = pc[u] /\ local'[u] = local[u] /\ work_share'[u] = work_share[u] /\ pos'[u] = pos[u]
        BY <1>1, <3>2 DEF Others
      <4> QED BY <1>2, <1>4, <1>5, <1>6, <1>12, <3>2, <4>1, <4>2 DEF Hand, Snapshot
    <3> QED BY <3>1, <3>2
  <2>2. ASSUME NEW s \in Shares, newhome[s] = "new"
        PROVE  \E u \in Threads : pc'[u] \in Fresh /\ local'[u] = s
    <3>1. PICK u \in Threads : pc[u] \in Fresh /\ local[u] = s
      BY <1>12, <2>2 DEF Inv, Memory, InHand
    <3> QED BY <1>1, <3>1 DEF Others, Fresh
  <2> QED BY <1>2, <1>12, <2>1, <2>2 DEF InHand, Threads
<1>15. Held(newhome)'
  <2>1. Held(home)'
    BY <1>1, <1>2, HeldKept DEF Inv, Memory
  <2> QED BY <1>12, <2>1 DEF Held
<1>16. Alone'
  BY <1>1, <1>2, AloneKept DEF Inv, Owning, Pushing
<1>17. Inv(F, d, m, b, newhome, newrank)'
  BY <1>10, <1>11, <1>13, <1>14, <1>15, <1>16 DEF Inv, Memory
<1> QED BY <1>17

(* Should it fail, it is tried again.                                      *)
LEMMA PushFailedKeeps ==
  ASSUME Assumptions, NEW F, NEW d, NEW m, NEW b, NEW home, NEW rank, NEW t \in Threads,
         Inv(F, d, m, b, home, rank), TypeOK', FreePush(t), list_free # link[local[t]]
  PROVE  Inv(F, d, m, b, home, rank)'
<1>0. Facts(F, d, m, b, t)
  BY Thread
<1>1. /\ pc[t] \in {"push", "push_open"} /\ pos'[t] = pos[t] /\ last_ws'[t] = last_ws[t]
      /\ work_share'[t] = work_share[t] /\ local'[t] = local[t]
      /\ pc'[t] = IF pc[t] = "push" THEN "free" ELSE "free_open"
      /\ Others(t)
  BY DEF FreePush, Goto, Others, Inv, TypeOK, thread_vars
<1>2. UNCHANGED <<region, link, threads_completed, ids, content, copyprivate, list_alloc, list_free,
                  heap, to_free, cancelled, awaited, phase>>
  BY DEF FreePush, share_vars, barrier_vars, thread_vars
<1>3. Progress(F, d, m, b)'
  <2>1. Place(F, d, m, t)'
    BY <1>0, <1>1, <1>2
    DEF Facts, Place, Fits, Uses, Uncounted, Slow, Getting, Owning, Pushing, Opening, Entered, Constructs
  <2>2. Gate(b, pos[t], pc[t], local[t])'
    BY <1>0, <1>1, <1>2 DEF Facts, Gate, Last, Constructs, Beyond
  <2>3. \A j \in d + 1 .. m : /\ Counted(j, pos[t], pc[t])' => Counted(j, pos[t], pc[t])
                              /\ t \in MayOut(j) => t \in MayOut(j)'
    BY <1>0, <1>1, <1>2 DEF Facts, Counted, MayOut, Threads, Beyond
  <2>4. \A u \in Threads \ {t} : Slow(pc[u], link[work_share[u]])'
    BY <1>1, <1>2, SlowKept
  <2> QED BY <1>0, <1>1, <1>2, <2>1, <2>2, <2>3, <2>4, ProgressKept DEF Arrived, Opening, Constructs
<1>4. Memory(F, d, m, home, rank)'
  <2>1. Lists(home, rank)'
    BY <1>2, ListsKept DEF Inv, Memory
  <2>2. InUse(F, d, m, home)'
    BY <1>0, <1>1, <1>2, InUseKept DEF Facts, Inv, Memory, Owning
  <2>3. InHand(home)'
    <3>1. Hand(home, t)'
      BY <1>1 DEF Inv, Memory, InHand, Hand, Fresh, Pushing
    <3>2. pc[t] \notin Fresh /\ pc'[t] \in Pushing
      BY <1>1 DEF Fresh, Pushing
    <3> QED BY <1>1, <1>2, <3>1, <3>2, InHandKept DEF Inv, Memory
  <2>4. Held(home)'
    BY <1>1, <1>2, HeldKept DEF Inv, Memory
  <2> QED BY <2>1, <2>2, <2>3, <2>4 DEF Memory
<1>5. Alone'
  BY <1>1, <1>2, AloneKept DEF Inv, Owning, Pushing
<1> QED BY <1>3, <1>4, <1>5 DEF Inv

-----------------------------------------------------------------------------
(* Publishing a share.                                                     *)

LEMMA PublishKeeps ==
  ASSUME Assumptions, NEW F, NEW d, NEW m, NEW b, NEW home, NEW rank, NEW t \in Threads,
         Inv(F, d, m, b, home, rank), TypeOK', Publish(t)
  PROVE  \E G, newhome : Inv(G, d, m + 1, b, newhome, rank)'
<1>0. Facts(F, d, m, b, t)
  BY Thread
<1>a. PICK n : n = local[t]
  OBVIOUS
<1>1. /\ pc[t] = "publish" /\ pos'[t] = pos[t] /\ last_ws'[t] = last_ws[t]
      /\ work_share'[t] = work_share[t] /\ local'[t] = local[t]
      /\ pc'[t] \in {"wake", "body", "copy_body"}
      /\ pc'[t] = "body" => Constructs[pos[t]] # "copy"
      /\ pc'[t] = "copy_body" => Constructs[pos[t]] = "copy"
      /\ Others(t)
  BY DEF Publish, Goto, Others, Inv, TypeOK, thread_vars, AfterPublish, Kind
<1>2. /\ UNCHANGED <<region, threads_completed, ids, content, copyprivate, list_alloc, list_free,
                     heap, to_free, cancelled, awaited, phase>>
      /\ link' = [link EXCEPT ![last_ws[t]] = work_share[t]]
  BY DEF Publish, team_vars, list_vars, barrier_vars
<1>3. /\ n \in Shares /\ home[n] = "new" /\ work_share[t] = n /\ local[t] = n /\ content[n] = pos[t]
      /\ link[n] = NULL /\ threads_completed[n] = 0
  BY <1>a, <1>1 DEF Inv, Memory, InHand, Hand, Fresh
<1>4. pos[t] = m + 1 /\ last_ws[t] = F[m] /\ F[m] \in Shares /\ m + 1 \in 1 .. Last
  BY <1>0, <1>1 DEF Facts, Place, Uses, Getting, Owning
<1>5. link'[F[m]] = n /\ \A s \in Shares : s # F[m] => link'[s] = link[s]
  BY <1>2, <1>3, <1>4 DEF Inv, TypeOK
<1>6. \A u \in Threads \ {t} : pc[u] \notin Owning /\ pc'[u] \notin Owning
  BY <1>1 DEF Inv, Alone, Owning, Others
<1> DEFINE G == [F EXCEPT ![m + 1] = n]
<1> DEFINE newhome == [home EXCEPT ![n] = "use"]
<1>7. G \in [0 .. Last -> Shares] /\ G[m + 1] = n /\ \A k \in d .. m : G[k] = F[k]
  BY <1>0, <1>3, <1>4 DEF Facts
<1>8. /\ newhome \in [Shares -> Homes] /\ newhome[n] = "use"
      /\ \A s \in Shares : s # n => newhome[s] = home[s]
  BY <1>3 DEF Homes, Inv, Memory, Lists
<1> HIDE DEF G, newhome
<1>9. Threaded(G, d, m + 1)'
  <2>1. ASSUME NEW u \in Threads PROVE Place(G, d, m + 1, u)'
    <3>0. Facts(F, d, m, b, u)
      BY Thread
    <3>1. CASE u = t
      BY <1>0, <1>1, <1>2, <1>3, <1>4, <1>7, <3>1
      DEF Facts, Place, Fits, Uses, Uncounted, Slow, Getting, Owning, Pushing, Opening, Entered, Constructs
    <3>2. CASE u # t
      <4>1. pc'[u] = pc[u] /\ pos'[u] = pos[u] /\ work_share'[u] = work_share[u] /\ last_ws'[u] = last_ws[u]
        BY <1>1, <3>2 DEF Others
      <4>2. pc[u] \notin Owning
        BY <1>6, <3>2
      <4>3. Uses(G, d, m + 1, pos[u], pc[u], work_share[u], last_ws[u])'
        <5>1. Uses(F, d, m, pos[u], pc[u], work_share[u], last_ws[u])
          BY <3>0 DEF Facts, Place
        <5>2. CASE pc[u] \in Getting
          <6>1. pos[u] - 1 \in d .. m /\ pos[u] - 1 \in d .. m + 1
            BY <5>1, <5>2, <1>0 DEF Uses, Facts
          <6>2. ~Uncounted(pos[u], pc[u]) /\ pc[u] \notin Pushing
            BY <5>2 DEF Uncounted, Getting, Pushing, Entered
          <6> QED BY <1>2, <1>7, <4>1, <4>2, <5>1, <5>2, <6>1, <6>2 DEF Uses, Uncounted, Constructs, Getting
        <5>3. CASE pc[u] \notin Getting
          <6>1. pos[u] \in d .. m /\ pos[u] \in d .. m + 1 /\ pc[u] # "publish"
            BY <4>2, <5>1, <5>3, <1>0 DEF Uses, Facts, Owning
          <6>2. Uncounted(pos[u], pc[u]) => pos[u] # d /\ last_ws[u] = F[pos[u] - 1] /\ pos[u] - 1 \in d .. m
            BY <5>1, <6>1, <1>0 DEF Uses, Facts
          <6> QED BY <1>2, <1>7, <4>1, <4>2, <5>1, <5>3, <6>1, <6>2 DEF Uses, Uncounted, Constructs
        <5> QED BY <5>2, <5>3
      <4>4. Slow(pc[u], link[work_share[u]])'
        <5>1. Slow(pc[u], link[work_share[u]]) /\ work_share[u] \in Shares
          BY <3>0 DEF Facts, Place, Inv, TypeOK
        <5>2. link'[work_share[u]] = link[work_share[u]] \/ link'[work_share[u]] \in Shares
          BY <1>3, <1>5, <5>1
        <5> QED BY <4>1, <5>1, <5>2, Sizes DEF Slow, Assumptions, NULL, Owned
      <4>5. Fits(pos[u], pc[u])'
        BY <1>2, <3>0, <4>1 DEF Facts, Place, Fits, Constructs
      <4> QED BY <1>2, <3>0, <4>1, <4>3, <4>4, <4>5 DEF Facts, Place, Last, Constructs
    <3> QED BY <3>1, <3>2
  <2> QED BY <1>2, <2>1 DEF Threaded, Threads
<1>10. Gated(d, b)'
  <2>1. Gate(b, pos[t], pc[t], local[t])'
    BY <1>0, <1>1, <1>2 DEF Facts, Gate, Last, Constructs, Beyond
  <2> QED BY <1>1, <1>2, <2>1, GatedKept DEF Inv, Progress, TypeOK, Assumptions, Arrived, Opening
<1>11. Completed(G, d, m + 1)'
  <2>1. \A j \in d + 1 .. m : /\ Counted(j, pos[t], pc[t])' => Counted(j, pos[t], pc[t])
                              /\ t \in MayOut(j) => t \in MayOut(j)'
    BY <1>0, <1>1, <1>2, <1>4 DEF Facts, Counted, MayOut, Threads, Beyond
  <2>2. Completed(F, d, m)'
    <3>1. \A k \in d + 1 .. m : threads_completed[F[k]] \in Nat
      BY UsedShares, <1>0 DEF Inv, TypeOK, Facts
    <3> QED BY <1>0, <1>1, <1>2, <2>1, <3>1, CompletedKept DEF Inv, Progress, TypeOK, Assumptions, Facts
  <2>3. Out(m + 1)' = {}
    <3>1. ASSUME NEW u \in Threads PROVE ~Counted(m + 1, pos[u], pc[u])'
      <4>1. Facts(F, d, m, b, u)
        BY Thread
      <4>2. CASE u = t
        BY <1>1, <1>4, <1>0, <4>2 DEF Counted, Facts
      <4>3. CASE u # t
        <5>1. pc'[u] = pc[u] /\ pos'[u] = pos[u] /\ pc[u] # "publish"
          BY <1>1, <1>6, <4>3 DEF Others, Owning
        <5>2. pos[u] <= m \/ (pos[u] <= m + 1 /\ pc[u] \in Getting)
          BY <4>1, <5>1 DEF Facts, Place, Uses
        <5> QED BY <4>1, <5>1, <5>2, <1>0 DEF Counted, Facts, Getting
      <4> QED BY <4>2, <4>3
    <3> QED BY <1>2, <3>1 DEF Out, Threads
  <2>4. Cardinality(Out(m + 1)') = 0
    BY <2>3, FS_EmptySet
  <2>5. nthreads \in Nat /\ nthreads # 0
    <3>1. Threads # {} /\ IsFiniteSet(Threads)
      BY <1>0 DEF Facts
    <3> QED BY <3>1, FS_EmptySet, FS_CardinalityType DEF nthreads
  <2>6. Cardinality(MayOut(m + 1)') \in Nat
    <3>1. MayOut(m + 1)' \subseteq Threads
      BY <1>2 DEF MayOut, Threads
    <3> QED BY <1>0, <3>1, CardBelow DEF Facts
  <2>7. ASSUME NEW k \in d + 1 .. m + 1, Constructs'[k] \in {"nowait", "copy"}
        PROVE  /\ threads_completed'[G[k]] < nthreads'
               /\ Cardinality(Out(k)') <= threads_completed'[G[k]]
               /\ threads_completed'[G[k]] <= Cardinality(MayOut(k)')
    <3>1. CASE k = m + 1
      BY <1>2, <1>3, <1>7, <2>4, <2>5, <2>6, <3>1 DEF nthreads, Threads
    <3>2. CASE k # m + 1
      BY <1>0, <1>2, <1>7, <2>2, <2>7, <3>2 DEF Completed, Facts
    <3> QED BY <3>1, <3>2
  <2> QED BY <2>7 DEF Completed
<1>12. Copied(G, d, m + 1)'
  <2>1. Copied(F, d, m)'
    BY <1>0, <1>1, <1>2, CopiedKept DEF Inv, Progress, Facts
  <2>2. ASSUME NEW k \in d + 1 .. m + 1, Constructs'[k] = "copy"
        PROVE  \/ copyprivate'[G[k]] = k
               \/ \E u \in Threads : pos'[u] = k /\ pc'[u] \in {"wake", "copy_body"}
    <3>1. CASE k = m + 1
      BY <1>1, <1>2, <1>4, <2>2, <3>1 DEF Constructs
    <3>2. CASE k # m + 1
      BY <1>0, <1>2, <1>7, <2>1, <2>2, <3>2 DEF Copied, Facts, Threads
    <3> QED BY <3>1, <3>2
  <2> QED BY <1>2, <2>2 DEF Copied, Threads
<1>13. Progress(G, d, m + 1, b)'
  BY <1>0, <1>2, <1>4, <1>7, <1>9, <1>10, <1>11, <1>12 DEF Progress, Facts, Last, Constructs
<1>14. \A s \in Shares : /\ newhome[s] = "use" <=> home[s] = "use" \/ s = n
                         /\ newhome[s] # "new"
                         /\ \A c \in {"alloc", "free", "retired", "heap"} : newhome[s] = c <=> home[s] = c
  <2>1. ASSUME NEW s \in Shares, home[s] = "new" PROVE s = n
    BY <1>3, <1>6, <2>1 DEF Inv, Memory, InHand, Fresh, Owning
  <2> QED BY <1>3, <1>8, <2>1
<1>15. Lists(newhome, rank)'
  <2>1. Lists(home, rank)'
    <3>1. \A s \in Shares : home[s] \in {"alloc", "free"} => link'[s] = link[s]
      BY <1>0, <1>5, UsedShares DEF Facts
    <3> QED BY <1>2, <3>1, ListsKept DEF Inv, Memory
  <2>2. (list_alloc' # NULL => list_alloc' \in Shares) /\ (list_free' # NULL => list_free' \in Shares)
    BY DEF TypeOK
  <2>3. Listed(newhome, rank, "alloc", list_alloc)'
    <3>1. \A s \in Shares : newhome[s] = "alloc" <=> home[s] = "alloc"
      BY <1>14
    <3> QED BY <2>1, <2>2, <3>1 DEF Listed, Lists
  <2>4. Listed(newhome, rank, "free", list_free)'
    <3>1. \A s \in Shares : newhome[s] = "free" <=> home[s] = "free"
      BY <1>14
    <3> QED BY <2>1, <2>2, <3>1 DEF Listed, Lists
  <2> QED BY <1>8, <1>14, <2>1, <2>3, <2>4 DEF Lists
<1>16. InUse(G, d, m + 1, newhome)'
  <2>1. InUse(F, d, m, home)
    BY DEF Inv, Memory
  <2>2. \A k \in d .. m : F[k] \in Shares /\ home[F[k]] = "use" /\ content[F[k]] = k /\ F[k] # n
    BY <1>3, UsedShares
  <2>3. to_free' = G[d]
    BY <1>0, <1>2, <1>7, <2>1 DEF InUse, Facts
  <2>4. \A k \in d .. m + 1 : newhome[G[k]] = "use" /\ content'[G[k]] = k
    BY <1>0, <1>2, <1>3, <1>4, <1>7, <1>8, <2>2 DEF Facts
  <2>5. ASSUME NEW k \in d .. m PROVE link'[G[k]] = G[k + 1]
    <3>1. CASE k = m
      BY <1>0, <1>5, <1>7, <3>1 DEF Facts
    <3>2. CASE k # m
      <4>1. F[k] # F[m] /\ k + 1 \in d .. m /\ k \in d .. m - 1
        BY <1>0, <2>2, <3>2 DEF Facts
      <4> QED BY <1>5, <1>7, <2>1, <2>2, <4>1 DEF InUse
    <3> QED BY <3>1, <3>2
  <2>6. link'[G[m + 1]] = NULL
    BY <1>0, <1>3, <1>5, <1>7, <2>2 DEF Facts
  <2>7. \A u \in Threads : pc'[u] \notin Owning
    BY <1>1, <1>6 DEF Owning
  <2>8. ASSUME NEW s \in Shares, newhome[s] = "use" PROVE \E k \in d .. m + 1 : s = G[k]
    <3>1. CASE s = n
      BY <1>0, <1>7, <3>1 DEF Facts
    <3>2. CASE s # n
      <4>1. PICK k \in d .. m : s = F[k]
        BY <1>14, <2>1, <2>8, <3>2 DEF InUse
      <4> QED BY <1>0, <1>7, <4>1 DEF Facts
    <3> QED BY <3>1, <3>2
  <2> QED BY <1>0, <1>2, <2>3, <2>4, <2>5, <2>6, <2>7, <2>8 DEF InUse, NULL, Threads, Facts
<1>17. InHand(newhome)'
  <2>1. ASSUME NEW u \in Threads
        PROVE  Hand(newhome, u)'
    <3>1. CASE u = t
      BY <1>1, <3>1 DEF Hand, Fresh, Pushing
    <3>2. CASE u # t
      <4>1. Hand(home, u) /\ pc[u] \notin Owning
        BY <1>6, <3>2 DEF Inv, Memory, InHand
      <4>2. pc'[u] = pc[u] /\ local'[u] = local[u]
        BY <1>1, <3>2 DEF Others
      <4> QED BY <1>14, <4>1, <4>2 DEF Hand, Snapshot, Fresh, Owning
    <3> QED BY <3>1, <3>2
  <2>2. ASSUME NEW s \in Shares, newhome[s] = "retired"
        PROVE  \E u \in Threads : pc'[u] \in Pushing /\ local'[u] = s
    <3>1. PICK u \in Threads : pc[u] \in Pushing /\ local[u] = s
      BY <1>14, <2>2 DEF Inv, Memory, InHand
    <3> QED BY <1>1, <3>1 DEF Others, Pushing
  <2> QED BY <1>2, <1>14, <2>1, <2>2 DEF InHand, Threads
<1>18. Held(newhome)'
  <2>1. \A u \in Threads : pc'[u] # "publish"
    BY <1>1, <1>6 DEF Owning
  <2>2. ASSUME NEW s \in Shares
        PROVE  /\ ids'[s] # "twice"
               /\ ids'[s] = "held" => newhome[s] = "use"
               /\ ids'[s] = "freed" => newhome[s] # "use"
    <3>1. Held(home)
      BY DEF Inv, Memory
    <3>2. \A u \in Threads : pc[u] = "publish" => u = t
      BY <1>6 DEF Owning
    <3> QED BY <1>2, <1>1, <1>3, <1>14, <3>1, <3>2 DEF Held
  <2> QED BY <1>2, <2>1, <2>2 DEF Held, Threads
<1>19. Alone'
  BY <1>1, <1>2, AloneKept DEF Inv, Owning, Pushing
<1>20. Inv(G, d, m + 1, b, newhome, rank)'
  BY <1>13, <1>15, <1>16, <1>17, <1>18, <1>19 DEF Inv, Memory
<1> QED BY <1>20

(* The futex wake: of the threads asleep on the lock that t has set.       *)
LEMMA WakeKeeps ==
  ASSUME Assumptions, NEW F, NEW d, NEW m, NEW b, NEW home, NEW rank, NEW t \in Threads,
         Inv(F, d, m, b, home, rank), TypeOK', PtrlockWake(t)
  PROVE  Inv(F, d, m, b, home, rank)'
<1>0. Facts(F, d, m, b, t)
  BY Thread
<1>1. /\ pc[t] = "wake" /\ pc'[t] = IF Constructs[pos[t]] = "copy" THEN "copy_body" ELSE "body"
      /\ \A u \in Threads \ {t} : \/ pc'[u] = pc[u]
                                  \/ pc[u] = "asleep" /\ pc'[u] = "slow_check"
  BY DEF PtrlockWake, AfterPublish, Kind
<1>2. UNCHANGED <<region, link, threads_completed, ids, content, copyprivate, list_alloc, list_free,
                  heap, to_free, cancelled, awaited, phase, work_share, last_ws, local, pos>>
  BY DEF PtrlockWake, share_vars, team_vars, list_vars, barrier_vars, thread_vars
<1>3. \A u \in Threads : /\ pc'[u] \in Owning <=> pc[u] \in Owning
                         /\ pc'[u] \in Fresh <=> pc[u] \in Fresh
                         /\ pc'[u] \in Pushing <=> pc[u] \in Pushing
                         /\ pc'[u] \in Opening <=> pc[u] \in Opening
                         /\ pc'[u] \in Beyond <=> pc[u] \in Beyond
                         /\ \A c \in {"alloc_free", "publish", "wait", "ended", "left", "outside"} :
                              pc'[u] = c <=> pc[u] = c
  <2>1. ASSUME NEW u \in Threads
        PROVE  \/ pc'[u] = pc[u]
               \/ pc[u] \in {"asleep", "wake"} /\ pc'[u] \in {"slow_check", "body", "copy_body"}
    BY <1>1
  <2> QED BY <2>1 DEF Owning, Fresh, Pushing, Opening, Beyond
<1>4. Threaded(F, d, m)'
  <2>1. ASSUME NEW u \in Threads PROVE Place(F, d, m, u)'
    <3>0. Place(F, d, m, u)
      BY DEF Inv, Progress, Threaded
    <3>1. CASE pc'[u] = pc[u]
      BY <1>2, <3>0, <3>1 DEF Place, Fits, Uses, Uncounted, Slow, Last, Constructs
    <3>2. CASE pc[u] = "asleep" /\ pc'[u] = "slow_check"
      BY <1>2, <3>0, <3>2
      DEF Place, Fits, Uses, Uncounted, Slow, Getting, Owning, Pushing, Entered, Constructs
    <3>3. CASE u = t
      BY <1>1, <1>2, <3>0, <3>3
      DEF Place, Fits, Uses, Uncounted, Slow, Getting, Owning, Pushing, Entered, Constructs
    <3> QED BY <1>1, <3>1, <3>2, <3>3
  <2> QED BY <1>2, <2>1 DEF Threaded, Threads
<1>5. Gated(d, b)'
  <2>1. ASSUME NEW u \in Threads PROVE Gate(b, pos[u], pc[u], local[u])'
    <3>0. Gate(b, pos[u], pc[u], local[u]) /\ Fits(pos[u], pc[u])
      BY DEF Inv, Progress, Threaded, Gated, Place
    <3>1. CASE pc'[u] = pc[u]
      BY <1>2, <3>0, <3>1 DEF Gate, Last, Constructs
    <3>2. CASE pc[u] \in {"asleep", "wake"} /\ pc'[u] \in {"slow_check", "body", "copy_body"}
      BY <1>2, <3>0, <3>2 DEF Gate, Last, Constructs, Beyond
    <3> QED BY <1>1, <3>1, <3>2
  <2>2. Awaited(b)' = Awaited(b)
    BY <1>2, <1>3 DEF Awaited, Arrived, Constructs, Threads, Opening
  <2> QED BY <1>2, <1>3, <2>1, <2>2 DEF Inv, Progress, Gated, Threads, Constructs
<1>6. Completed(F, d, m)'
  <2>1. \A k : Out(k)' = Out(k) /\ MayOut(k)' = MayOut(k)
    BY <1>2, <1>3 DEF Out, MayOut, Counted, Threads
  <2> QED BY <1>2, <2>1 DEF Inv, Progress, Completed, Constructs, nthreads, Threads
<1>7. Copied(F, d, m)'
  <2>1. ASSUME NEW k \in d + 1 .. m, Constructs[k] = "copy", copyprivate[F[k]] # k
        PROVE  \E u \in Threads : pos[u] = k /\ pc'[u] \in {"wake", "copy_body"}
    <3>1. PICK u \in Threads : pos[u] = k /\ pc[u] \in {"wake", "copy_body"}
      BY <2>1 DEF Inv, Progress, Copied
    <3> QED BY <1>1, <2>1, <3>1
  <2> QED BY <1>2, <2>1 DEF Copied, Constructs, Threads
<1>8. Progress(F, d, m, b)'
  BY <1>2, <1>4, <1>5, <1>6, <1>7 DEF Inv, Progress, Last, Constructs
<1>9. Memory(F, d, m, home, rank)'
  <2>1. Lists(home, rank)'
    BY <1>2, ListsKept DEF Inv, Memory
  <2>2. InUse(F, d, m, home)'
    BY <1>2, <1>3 DEF Inv, Memory, InUse, Threads
  <2>3. InHand(home)'
    <3>1. \A u \in Threads : Hand(home, u)'
      BY <1>2, <1>3 DEF Inv, Memory, InHand, Hand, Snapshot
    <3> QED BY <1>2, <1>3, <3>1 DEF Inv, Memory, InHand, Threads
  <2>4. Held(home)'
    BY <1>2, <1>3 DEF Inv, Memory, Held, Threads
  <2> QED BY <2>1, <2>2, <2>3, <2>4 DEF Memory
<1>10. Alone'
  BY <1>2, <1>3 DEF Inv, Alone, Threads
<1> QED BY <1>8, <1>9, <1>10 DEF Inv

-----------------------------------------------------------------------------
(* Leaving a construct.                                                    *)

(* A thread that counts itself out and is not the last to do so.           *)
LEMMA NotLastKeeps ==
  ASSUME Assumptions, NEW F, NEW d, NEW m, NEW b, NEW home, NEW rank, NEW t \in Threads,
         Inv(F, d, m, b, home, rank), TypeOK', EndNowait(t),
         threads_completed[work_share[t]] + 1 # nthreads
  PROVE  Inv(F, d, m, b, home, rank)'
<1>0. Facts(F, d, m, b, t)
  BY Thread
<1>a. PICK k : k = pos[t]
  OBVIOUS
<1>1. /\ pc[t] \in {"body", "copy_end"} /\ pos'[t] = k /\ last_ws'[t] = last_ws[t] /\ pos[t] = k
      /\ work_share'[t] = work_share[t] /\ local'[t] = local[t] /\ pc'[t] = "left"
      /\ Others(t)
  BY <1>a DEF EndNowait, Goto, Others, Inv, TypeOK
<1>2. /\ UNCHANGED <<region, link, ids, content, copyprivate, list_alloc, list_free, heap, to_free,
                     cancelled, awaited, phase>>
      /\ threads_completed' = [threads_completed EXCEPT ![work_share[t]] = @ + 1]
  BY DEF EndNowait, list_vars, barrier_vars
<1>3. /\ k \in d + 1 .. m /\ k \in d .. m /\ work_share[t] = F[k] /\ F[k] \in Shares /\ k >= 1
      /\ Constructs[k] \in {"nowait", "copy"}
      /\ pc[t] = "copy_end" => Constructs[k] = "copy"
      /\ pc[t] = "body" => Constructs[k] = "nowait"
  BY <1>0, <1>1
  DEF Facts, Place, Uses, Uncounted, Entered, Getting, Fits, EndNowait, Kind
<1>4. /\ threads_completed'[F[k]] = threads_completed[F[k]] + 1
      /\ \A s \in Shares : s # F[k] => threads_completed'[s] = threads_completed[s]
      /\ threads_completed[F[k]] \in Nat
  BY <1>2, <1>3 DEF Inv, TypeOK
<1>5. Progress(F, d, m, b)'
  <2>1. Place(F, d, m, t)'
    BY <1>0, <1>1, <1>2
    DEF Facts, Place, Fits, Uses, Uncounted, Slow, Getting, Owning, Pushing, Opening, Entered, Constructs
  <2>2. Threaded(F, d, m)'
    <3>1. \A u \in Threads \ {t} : Slow(pc[u], link[work_share[u]])'
      BY <1>1, <1>2, SlowKept
    <3> QED BY <1>1, <1>2, <2>1, <3>1, ThreadedKept DEF Inv, Progress
  <2>3. Gated(d, b)'
    <3>1. Gate(b, pos[t], pc[t], local[t])'
      BY <1>0, <1>1, <1>2, <1>3 DEF Facts, Gate, Last, Constructs, Beyond, BarrierKinds
    <3> QED BY <1>1, <1>2, <3>1, GatedKept DEF Inv, Progress, TypeOK, Assumptions, Arrived, Opening
  <2>4. Copied(F, d, m)'
    BY <1>0, <1>1, <1>2, CopiedKept DEF Inv, Progress, Facts
  <2>5. ASSUME NEW j \in d + 1 .. m, Constructs[j] \in {"nowait", "copy"}
        PROVE  /\ threads_completed'[F[j]] < nthreads
               /\ Cardinality(Out(j)') <= threads_completed'[F[j]]
               /\ threads_completed'[F[j]] <= Cardinality(MayOut(j)')
    <3>1. /\ threads_completed[F[j]] < nthreads
          /\ Cardinality(Out(j)) <= threads_completed[F[j]]
          /\ threads_completed[F[j]] <= Cardinality(MayOut(j))
      BY <2>5 DEF Inv, Progress, Completed
    <3>2. CASE j = k
      <4>1. Out(k)' \subseteq Out(k) \cup {t} /\ Out(k) \subseteq Threads
        BY <1>1, <1>2 DEF Out, Counted, Others, Threads
      <4>2. MayOut(k)' = MayOut(k) \cup {t} /\ t \notin MayOut(k) /\ MayOut(k) \subseteq Threads
        <5>1. t \in MayOut(k)' /\ t \notin MayOut(k)
          BY <1>0, <1>1, <1>2 DEF MayOut, Beyond, Facts, Threads
        <5> QED BY <1>1, <1>2, <5>1 DEF MayOut, Others, Threads
      <4>3. IsFiniteSet(Out(k)) /\ IsFiniteSet(MayOut(k))
        BY <1>0, <4>1, <4>2, FS_Subset DEF Facts
      <4>4. /\ Cardinality(Out(k) \cup {t}) <= Cardinality(Out(k)) + 1
            /\ IsFiniteSet(Out(k) \cup {t})
            /\ Cardinality(Out(k) \cup {t}) \in Nat /\ Cardinality(Out(k)) \in Nat
        <5>1. IsFiniteSet(Out(k) \cup {t})
          BY <4>3, FS_AddElement
        <5>2. Cardinality(Out(k)) \in Nat /\ Cardinality(Out(k) \cup {t}) \in Nat
          BY <4>3, <5>1, FS_CardinalityType
        <5>3. Cardinality(Out(k) \cup {t}) = IF t \in Out(k) THEN Cardinality(Out(k)) ELSE Cardinality(Out(k)) + 1
          BY <4>3, FS_AddElement
        <5> QED BY <5>1, <5>2, <5>3
      <4>5. Cardinality(Out(k)') <= Cardinality(Out(k) \cup {t}) /\ Cardinality(Out(k)') \in Nat
        BY <4>1, <4>4, CardBelow
      <4>6. Cardinality(MayOut(k)') = Cardinality(MayOut(k)) + 1 /\ Cardinality(MayOut(k)) \in Nat
        BY <4>2, <4>3, FS_AddElement, FS_CardinalityType
      <4>7. threads_completed[F[k]] + 1 # nthreads /\ nthreads \in Nat
        BY <1>0, <1>3 DEF Facts
      <4> QED BY <1>4, <3>1, <3>2, <4>4, <4>5, <4>6, <4>7
    <3>3. CASE j # k
      <4>1. Out(j)' = Out(j)
        BY <1>0, <1>1, <1>2, <3>3 DEF Out, Counted, Others, Threads, Facts
      <4>2. MayOut(j)' = MayOut(j)
        BY <1>0, <1>1, <1>2, <3>3 DEF MayOut, Others, Threads, Facts
      <4>3. F[j] # F[k] /\ F[j] \in Shares
        BY <1>3, <3>3, UsedShares, <1>0 DEF Facts
      <4> QED BY <1>4, <3>1, <4>1, <4>2, <4>3
    <3> QED BY <3>2, <3>3
  <2>6. Completed(F, d, m)'
    BY <1>2, <2>5 DEF Completed, Constructs, nthreads, Threads
  <2> QED BY <1>2, <2>2, <2>3, <2>4, <2>6 DEF Inv, Progress, Last, Constructs
<1>6. Memory(F, d, m, home, rank)'
  <2>1. Lists(home, rank)'
    BY <1>2, ListsKept DEF Inv, Memory
  <2>2. InUse(F, d, m, home)'
    BY <1>0, <1>1, <1>2, InUseKept DEF Facts, Inv, Memory, Owning
  <2>3. InHand(home)'
    <3>1. Hand(home, t)'
      BY <1>1 DEF Hand, Fresh, Pushing
    <3>2. ASSUME NEW u \in Threads \ {t}, pc[u] = "publish"
          PROVE  threads_completed'[local[u]] = threads_completed[local[u]]
      <4>1. local[u] \in Shares /\ home[local[u]] = "new"
        BY <3>2 DEF Inv, Memory, InHand, Hand, Fresh
      <4>2. home[F[k]] = "use"
        BY <1>3, UsedShares
      <4> QED BY <1>4, <4>1, <4>2
    <3>3. pc[t] \notin Fresh \cup Pushing
      BY <1>1 DEF Fresh, Pushing
    <3> QED BY <1>1, <1>2, <3>1, <3>2, <3>3, InHandKept DEF Inv, Memory
  <2>4. Held(home)'
    BY <1>1, <1>2, HeldKept DEF Inv, Memory
  <2> QED BY <2>1, <2>2, <2>3, <2>4 DEF Memory
<1>7. Alone'
  BY <1>1, <1>2, AloneKept DEF Inv, Owning, Pushing
<1> QED BY <1>5, <1>6, <1>7 DEF Inv

(* When nobody is before construct k any more, only the share before it is *)
(* left to retire.                                                         *)
LEMMA OneBehind ==
  ASSUME Assumptions, NEW F, NEW d, NEW m, NEW b, NEW home, NEW rank, NEW t \in Threads,
         Inv(F, d, m, b, home, rank), pos[t] \in d + 1 .. m,
         \A u \in Threads : pos[u] >= pos[t]
  PROVE  pos[t] = d + 1
<1>0. Facts(F, d, m, b, t)
  BY Thread
<1>1. SUFFICES ASSUME pos[t] # d + 1 PROVE FALSE
  OBVIOUS
<1>2. PICK j : j = d + 1
  OBVIOUS
<1>3. j \in d + 1 .. m /\ j \in 1 .. Last /\ j < pos[t] /\ j > d
  BY <1>0, <1>1, <1>2 DEF Facts
<1>4. Constructs[j] \in {"nowait", "copy"}
  <2>1. Constructs[j] \in Kinds
    BY <1>3, Team DEF Assumptions, Inv, TypeOK
  <2>2. ASSUME Constructs[j] \in {"barrier", "cancel"} PROVE FALSE
    <3>1. CASE j <= b
      <4>1. j \in 1 .. b
        BY <1>0, <1>3, <3>1 DEF Facts
      <4>2. j <= d
        BY <2>2, <4>1 DEF Inv, Progress, Gated
      <4> QED BY <1>0, <1>3, <4>2 DEF Facts
    <3>2. CASE ~(j <= b)
      <4>1. j \in b + 1 .. Last
        BY <1>0, <1>3, <3>2 DEF Facts
      <4>2. pos[t] <= j
        BY <1>0, <2>2, <4>1 DEF Facts, Gate, BarrierKinds
      <4> QED BY <1>0, <1>3, <4>2 DEF Facts
    <3> QED BY <3>1, <3>2
  <2> QED BY <2>1, <2>2 DEF Kinds
<1>5. threads_completed[F[j]] < nthreads /\ Cardinality(Out(j)) <= threads_completed[F[j]]
  BY <1>3, <1>4 DEF Inv, Progress, Completed
<1>6. Out(j) = Threads
  <2>1. \A u \in Threads : pos[u] \in Nat
    BY <1>0 DEF Inv, TypeOK, Facts
  <2> QED BY <1>0, <1>3, <2>1 DEF Out, Counted, Facts
<1>7. F[j] \in Shares
  BY <1>0, <1>3 DEF Facts
<1>8. threads_completed[F[j]] \in Nat
  BY <1>7 DEF Inv, TypeOK
<1> QED BY <1>0, <1>5, <1>6, <1>8 DEF nthreads, Facts

(* Thread t, the last in construct k, retires the share before it.         *)
LEMMA RetireKeeps ==
  ASSUME Assumptions, NEW F, NEW d, NEW m, NEW b, NEW home, NEW rank, NEW t \in Threads,
         Inv(F, d, m, b, home, rank), TypeOK', Others(t),
         NEW k, k = d + 1, k <= m, pos[t] = k, pc[t] \in {"body", "copy_end"},
         \A u \in Threads \ {t} :
            /\ pos[u] >= k
            /\ pos[u] = k => pc[u] \in Beyond \/ (pc[u] = "wait" /\ Constructs[k] # "copy"),
         pos'[t] = k, work_share'[t] = work_share[t], local'[t] = last_ws[t],
         pc'[t] \in {"free", "free_open"}, Fits(pos[t], pc[t])',
         to_free' = work_share[t], ids' = [ids EXCEPT ![last_ws[t]] = Released(@)],
         UNCHANGED <<region, link, content, copyprivate, list_alloc, list_free, heap, cancelled>>,
         \A s \in Shares : s # F[k] => threads_completed'[s] = threads_completed[s],
         Gated(k, b)'
  PROVE  \E newhome : Inv(F, k, m, b, newhome, rank)'
<1>0. Facts(F, d, m, b, t)
  BY Thread
<1>1. work_share[t] = F[k] /\ last_ws[t] = F[d] /\ k \in d .. m /\ d \in d .. m /\ k # d /\ k \in Nat
  BY <1>0 DEF Facts, Place, Uses, Uncounted, Entered, Getting
<1>2. /\ \A j \in d .. m : F[j] \in Shares /\ home[F[j]] = "use" /\ content[F[j]] = j
      /\ \A i, j \in d .. m : F[i] = F[j] => i = j
  BY UsedShares
<1>a. PICK old : old = F[d]
  OBVIOUS
<1>3. old \in Shares /\ home[old] = "use" /\ local'[t] = old
  BY <1>a, <1>1, <1>2
<1> DEFINE newhome == [home EXCEPT ![old] = "retired"]
<1>4. /\ newhome \in [Shares -> Homes] /\ newhome[old] = "retired"
      /\ \A s \in Shares : s # old => newhome[s] = home[s]
  BY <1>3 DEF Homes, Inv, Memory, Lists
<1> HIDE DEF newhome
<1>5. ASSUME NEW u \in Threads \ {t}
      PROVE  /\ pc[u] \notin Pushing
             /\ pc[u] = "open" => Constructs[pos[u]] = "copy"
             /\ pos[u] \in Nat
             /\ Place(F, d, m, u)
  <2>1. Facts(F, d, m, b, u)
    BY Thread
  <2>2. pos[u] >= k /\ pos[u] \in Nat
    BY <2>1 DEF Facts
  <2> QED BY <1>0, <2>1, <2>2 DEF Facts, Place, Uses
<1>6. \A u \in Threads : pc[u] \notin Pushing
  BY <1>5 DEF Pushing
<1>7. Threaded(F, k, m)'
  <2>1. ASSUME NEW u \in Threads PROVE Place(F, k, m, u)'
    <3>1. CASE u = t
      BY <1>0, <1>1, <3>1
      DEF Facts, Place, Uses, Uncounted, Slow, Getting, Owning, Pushing, Opening, Entered, Last, Constructs
    <3>2. CASE u # t
      <4>1. Place(F, d, m, u) /\ pos[u] \in Nat /\ pc[u] \notin Pushing
        BY <1>5, <3>2
      <4>2. /\ pos'[u] = pos[u] /\ pc'[u] = pc[u] /\ work_share'[u] = work_share[u] /\ last_ws'[u] = last_ws[u]
        BY <3>2 DEF Others
      <4>3. Uses(F, k, m, pos[u], pc[u], work_share[u], last_ws[u])
        <5>1. Uses(F, d, m, pos[u], pc[u], work_share[u], last_ws[u])
          BY <4>1 DEF Place
        <5>2. pc[u] \in Getting => pos[u] - 1 \in k .. m
          BY <1>0, <1>1, <3>2, <4>1, <5>1 DEF Uses, Getting, Beyond, Facts
        <5>3. pc[u] \notin Getting \cup {"publish"} => pos[u] \in k .. m
          BY <1>0, <1>1, <3>2, <4>1, <5>1 DEF Uses, Facts
        <5>4. Uncounted(pos[u], pc[u]) => pos[u] # k
          BY <3>2 DEF Uncounted, Entered, Beyond
        <5>5. ~(pc[u] = "open" /\ Constructs[pos[u]] # "copy")
          BY <1>5, <3>2
        <5> QED BY <4>1, <5>1, <5>2, <5>3, <5>4, <5>5 DEF Uses
      <4>4. Fits(pos[u], pc[u])' /\ Slow(pc[u], link[work_share[u]])'
        BY <4>1, <4>2 DEF Place, Fits, Slow, Constructs
      <4> QED BY <4>1, <4>2, <4>3, <4>4 DEF Place, Uses, Uncounted, Last, Constructs
    <3> QED BY <3>1, <3>2
  <2> QED BY <2>1 DEF Threaded, Threads
<1>8. Completed(F, k, m)'
  <2>1. Completed(F, k, m)
    BY <1>0, <1>1 DEF Inv, Progress, Completed, Facts
  <2>2. \A j \in k + 1 .. m : /\ threads_completed'[F[j]] = threads_completed[F[j]]
                              /\ threads_completed[F[j]] \in Nat
    <3>1. ASSUME NEW j \in k + 1 .. m PROVE F[j] \in Shares /\ F[j] # F[k]
      BY <1>0, <1>1, <1>2 DEF Facts
    <3> QED BY <3>1 DEF Inv, TypeOK
  <2>3. \A j \in k + 1 .. m : /\ Counted(j, pos[t], pc[t])' => Counted(j, pos[t], pc[t])
                              /\ t \in MayOut(j) => t \in MayOut(j)'
    BY <1>0, <1>1 DEF Counted, MayOut, Threads, Facts
  <2> QED BY <1>0, <1>1, <2>1, <2>2, <2>3, CompletedKept DEF Facts, Inv, TypeOK, Assumptions
<1>9. Copied(F, k, m)'
  <2>1. Copied(F, k, m)
    BY <1>0, <1>1 DEF Inv, Progress, Copied, Facts
  <2>2. \A j \in k + 1 .. m : pos[t] # j
    BY <1>0, <1>1 DEF Facts
  <2> QED BY <1>0, <1>1, <2>1, <2>2, CopiedKept DEF Facts
<1>10. Progress(F, k, m, b)'
  BY <1>0, <1>1, <1>7, <1>8, <1>9 DEF Inv, Progress, Facts, Last, Constructs
<1>11. \A s \in Shares : /\ newhome[s] = "use" <=> home[s] = "use" /\ s # old
                         /\ newhome[s] = "retired" <=> home[s] = "retired" \/ s = old
                         /\ \A c \in {"alloc", "free", "new", "heap"} : newhome[s] = c <=> home[s] = c
  BY <1>3, <1>4
<1>12. Lists(newhome, rank)'
  <2>1. Lists(home, rank)'
    BY ListsKept DEF Inv, Memory
  <2>2. (list_alloc' # NULL => list_alloc' \in Shares) /\ (list_free' # NULL => list_free' \in Shares)
    BY DEF TypeOK
  <2>3. Listed(newhome, rank, "alloc", list_alloc)'
    <3>1. \A s \in Shares : newhome[s] = "alloc" <=> home[s] = "alloc"
      BY <1>11
    <3> QED BY <2>1, <2>2, <3>1 DEF Listed, Lists
  <2>4. Listed(newhome, rank, "free", list_free)'
    <3>1. \A s \in Shares : newhome[s] = "free" <=> home[s] = "free"
      BY <1>11
    <3> QED BY <2>1, <2>2, <3>1 DEF Listed, Lists
  <2> QED BY <1>4, <1>11, <2>1, <2>3, <2>4 DEF Lists
<1>13. InUse(F, k, m, newhome)'
  <2>1. InUse(F, d, m, home)
    BY DEF Inv, Memory
  <2>2. \A j \in k .. m : j \in d .. m /\ F[j] \in Shares /\ F[j] # old /\ content'[F[j]] = j
    BY <1>a, <1>0, <1>1, <1>2 DEF Facts
  <2>3. \A j \in k .. m : newhome[F[j]] = "use" /\ content'[F[j]] = j
    BY <1>2, <1>11, <2>2
  <2>4. \A j \in k .. m - 1 : link'[F[j]] = F[j + 1]
    BY <1>0, <1>1, <2>1 DEF InUse, Facts
  <2>5. link'[F[m]] = NULL => \A u \in Threads : pc'[u] \notin Owning
    BY <2>1 DEF InUse, Others, Owning
  <2>6. ASSUME NEW s \in Shares, newhome[s] = "use" PROVE \E j \in k .. m : s = F[j]
    <3>1. PICK j \in d .. m : s = F[j]
      BY <1>11, <2>1, <2>6 DEF InUse
    <3>2. s # old
      BY <1>11, <2>6
    <3> QED BY <1>a, <1>0, <1>1, <3>1, <3>2 DEF Facts
  <2>7. link'[F[m]] <= 2 /\ to_free' = F[k]
    BY <1>1, <2>1 DEF InUse
  <2> QED BY <2>3, <2>4, <2>5, <2>6, <2>7 DEF InUse, Threads
<1>14. InHand(newhome)'
  <2>1. ASSUME NEW u \in Threads
        PROVE  Hand(newhome, u)'
    <3>1. CASE u = t
      BY <1>3, <1>4, <3>1 DEF Hand, Fresh, Pushing
    <3>2. CASE u # t
      <4>1. Hand(home, u) /\ pc[u] \notin Pushing
        BY <1>5, <3>2 DEF Inv, Memory, InHand
      <4>2. pc'[u] = pc[u] /\ local'[u] = local[u] /\ work_share'[u] = work_share[u] /\ pos'[u] = pos[u]
        BY <3>2 DEF Others
      <4>3. pc[u] = "publish" => threads_completed'[local[u]] = threads_completed[local[u]]
        BY <1>1, <1>2, <4>1 DEF Hand, Fresh
      <4> QED BY <1>11, <4>1, <4>2, <4>3 DEF Hand, Snapshot, Fresh
    <3> QED BY <3>1, <3>2
  <2>2. ASSUME NEW s \in Shares, newhome[s] = "new"
        PROVE  \E u \in Threads : pc'[u] \in Fresh /\ local'[u] = s
    <3>1. PICK u \in Threads : pc[u] \in Fresh /\ local[u] = s
      BY <1>11, <2>2 DEF Inv, Memory, InHand
    <3> QED BY <3>1 DEF Others, Fresh
  <2>3. ASSUME NEW s \in Shares, newhome[s] = "retired"
        PROVE  \E u \in Threads : pc'[u] \in Pushing /\ local'[u] = s
    <3>1. home[s] # "retired"
      BY <1>6 DEF Inv, Memory, InHand
    <3> QED BY <1>3, <1>11, <2>3, <3>1 DEF Pushing
  <2> QED BY <2>1, <2>2, <2>3 DEF InHand, Threads
<1>15. Held(newhome)'
  <2>1. ASSUME NEW s \in Shares
        PROVE  /\ ids'[s] # "twice"
               /\ ids'[s] = "held" => \/ newhome[s] = "use"
                                      \/ \E u \in Threads : pc'[u] = "publish" /\ local'[u] = s
               /\ ids'[s] = "freed" => /\ newhome[s] # "use"
                                       /\ \A u \in Threads : pc'[u] = "publish" => local'[u] # s
    <3>1. Held(home)
      BY DEF Inv, Memory
    <3>2. \A u \in Threads : pc'[u] = "publish" => pc[u] = "publish" /\ local'[u] = local[u]
      BY DEF Others
    <3>3. CASE s = old
      <4>1. ids[old] \in {"none", "held"}
        BY <1>3, <3>1 DEF Held, Inv, TypeOK
      <4>2. ids'[old] \in {"none", "freed"}
        BY <1>a, <1>1, <1>3, <4>1 DEF Released, Inv, TypeOK
      <4>3. \A u \in Threads : pc'[u] = "publish" => local'[u] # s
        BY <1>3, <3>2, <3>3 DEF Inv, Memory, InHand, Hand, Fresh
      <4> QED BY <1>4, <3>3, <4>2, <4>3
    <3>4. CASE s # old
      <4>1. ids'[s] = ids[s] /\ newhome[s] = home[s]
        BY <1>a, <1>1, <1>3, <1>4, <3>4 DEF Inv, TypeOK
      <4>2. \A u \in Threads : pc[u] = "publish" => pc'[u] = "publish" /\ local'[u] = local[u]
        BY DEF Others
      <4> QED BY <3>1, <3>2, <4>1, <4>2 DEF Held
    <3> QED BY <3>3, <3>4
  <2> QED BY <2>1 DEF Held, Threads
<1>16. Alone'
  BY <1>6, AloneKept DEF Inv, Owning
<1>17. Inv(F, k, m, b, newhome, rank)'
  BY <1>10, <1>12, <1>13, <1>14, <1>15, <1>16 DEF Inv, Memory
<1> QED BY <1>17

(* The last thread to count itself out of a construct.                     *)
LEMMA LastOutKeeps ==
  ASSUME Assumptions, NEW F, NEW d, NEW m, NEW b, NEW home, NEW rank, NEW t \in Threads,
         Inv(F, d, m, b, home, rank), TypeOK', EndNowait(t),
         threads_completed[work_share[t]] + 1 = nthreads
  PROVE  \E k, newhome : Inv(F, k, m, b, newhome, rank)'
<1>0. Facts(F, d, m, b, t)
  BY Thread
<1>a. PICK k : k = pos[t]
  OBVIOUS
<1>1. /\ pc[t] \in {"body", "copy_end"} /\ pos'[t] = k /\ last_ws'[t] = last_ws[t] /\ pos[t] = k
      /\ work_share'[t] = work_share[t] /\ local'[t] = last_ws[t] /\ pc'[t] = "free"
      /\ Others(t)
  BY <1>a DEF EndNowait, Retire, Goto, Others, Inv, TypeOK
<1>2. /\ UNCHANGED <<region, link, content, copyprivate, list_alloc, list_free, heap, cancelled,
                     awaited, phase>>
      /\ threads_completed' = [threads_completed EXCEPT ![work_share[t]] = @ + 1]
      /\ to_free' = work_share[t] /\ ids' = [ids EXCEPT ![last_ws[t]] = Released(@)]
  BY DEF EndNowait, Retire, Fini, list_vars, barrier_vars
<1>3. /\ k \in d + 1 .. m /\ k \in d .. m /\ work_share[t] = F[k] /\ F[k] \in Shares /\ k >= 1
      /\ Constructs[k] \in {"nowait", "copy"}
      /\ pc[t] = "copy_end" => Constructs[k] = "copy"
      /\ pc[t] = "body" => Constructs[k] = "nowait"
  BY <1>0, <1>1
  DEF Facts, Place, Uses, Uncounted, Entered, Getting, Fits, EndNowait, Kind
<1>4. \A s \in Shares : s # F[k] => threads_completed'[s] = threads_completed[s]
  BY <1>2, <1>3 DEF Inv, TypeOK
<1>5. MayOut(k) = Threads \ {t}
  <2>1. MayOut(k) \subseteq Threads \ {t}
    BY <1>0, <1>1 DEF MayOut, Beyond, Facts
  <2>2. /\ IsFiniteSet(Threads \ {t}) /\ Cardinality(Threads \ {t}) = nthreads - 1
        /\ nthreads \in Nat
    BY <1>0, FS_RemoveElement DEF Facts, nthreads
  <2>3. threads_completed[F[k]] <= Cardinality(MayOut(k)) /\ threads_completed[F[k]] = nthreads - 1
    <3>1. threads_completed[F[k]] \in Nat
      BY <1>3 DEF Inv, TypeOK
    <3>2. threads_completed[F[k]] <= Cardinality(MayOut(k))
      BY <1>3 DEF Inv, Progress, Completed
    <3>3. threads_completed[F[k]] + 1 = nthreads
      BY <1>3
    <3> QED BY <2>2, <3>1, <3>2, <3>3
  <2>4. Cardinality(MayOut(k)) = Cardinality(Threads \ {t})
    <3>1. Cardinality(MayOut(k)) <= Cardinality(Threads \ {t}) /\ Cardinality(MayOut(k)) \in Nat
      BY <2>1, <2>2, CardBelow
    <3> QED BY <2>2, <2>3, <3>1
  <2> QED BY <2>1, <2>2, <2>4, FS_Subset
<1>6. \A u \in Threads \ {t} : pos[u] >= k /\ (pos[u] = k => pc[u] \in Beyond)
  <2>1. \A u \in Threads : pos[u] \in Int
    BY <1>0 DEF Inv, TypeOK, Facts
  <2> QED BY <1>3, <1>5, <2>1 DEF MayOut
<1>7. k = d + 1
  <2>1. \A u \in Threads : pos[u] >= pos[t]
    BY <1>0, <1>1, <1>6 DEF Facts
  <2> QED BY <1>1, <1>3, <2>1, OneBehind
<1>8. Gated(k, b)'
  <2>1. Gate(b, pos[t], pc[t], local[t])'
    BY <1>0, <1>1, <1>2, <1>3 DEF Facts, Gate, Last, Constructs, Beyond, BarrierKinds
  <2>2. Gated(d, b)'
    BY <1>1, <1>2, <2>1, GatedKept DEF Inv, Progress, TypeOK, Assumptions, Arrived, Opening
  <2> QED BY <1>0, <1>7, <2>2 DEF Gated, Facts
<1>9. Fits(pos[t], pc[t])'
  BY <1>1, <1>2, <1>3 DEF Fits, Constructs
<1>10. \E newhome : Inv(F, k, m, b, newhome, rank)'
  <2>1. k <= m
    BY <1>0, <1>3 DEF Facts
  <2> QED BY <1>1, <1>2, <1>4, <1>6, <1>7, <1>8, <1>9, <2>1, RetireKeeps
<1> QED BY <1>10

-----------------------------------------------------------------------------
(* The barrier.                                                            *)

(* Thread t arrives at the barrier of its construct; it is the last one if *)
(* the others wait for it alone.                                           *)
LEMMA Arriving ==
  ASSUME Assumptions, NEW F, NEW d, NEW m, NEW b, NEW home, NEW rank, NEW t \in Threads,
         Inv(F, d, m, b, home, rank), pc[t] \in {"body", "copy_body", "copy_arrive"},
         Constructs[pos[t]] \in BarrierKinds
  PROVE  /\ pos[t] > b /\ t \in Awaited(b)
         /\ \A u \in Threads : pc[u] \notin Opening
         /\ awaited >= 1
         /\ awaited = 1 => \A u \in Threads \ {t} : pos[u] = pos[t] /\ pc[u] \in {"wait", "ended"}
<1>0. Facts(F, d, m, b, t)
  BY Thread
<1>1. pos[t] > b /\ pos[t] \in b + 1 .. Last
  BY <1>0 DEF Facts, Gate, Place, Fits, Beyond
<1>2. t \in Awaited(b)
  BY DEF Awaited, Arrived, Opening
<1>3. \A u \in Threads : pc[u] \notin Opening
  BY <1>2 DEF Inv, Progress, Gated
<1>4. IsFiniteSet(Awaited(b)) /\ Cardinality(Awaited(b)) \in Nat /\ Cardinality(Awaited(b)) <= awaited
  <2>1. Awaited(b) \subseteq Threads
    BY DEF Awaited
  <2> QED BY <1>0, <2>1, FS_Subset, FS_CardinalityType DEF Facts, Inv, Progress, Gated
<1>5. /\ IsFiniteSet(Awaited(b) \ {t})
      /\ Cardinality(Awaited(b) \ {t}) = Cardinality(Awaited(b)) - 1
      /\ Cardinality(Awaited(b) \ {t}) \in Nat
  <2>1. IsFiniteSet(Awaited(b) \ {t}) /\ Cardinality(Awaited(b) \ {t}) = Cardinality(Awaited(b)) - 1
    BY <1>2, <1>4, FS_RemoveElement
  <2> QED BY <2>1, FS_CardinalityType
<1>6. awaited \in Int /\ awaited >= 1
  BY <1>4, <1>5 DEF Inv, TypeOK
<1>7. ASSUME awaited = 1, NEW u \in Threads \ {t}
      PROVE  pos[u] = pos[t] /\ pc[u] \in {"wait", "ended"}
  <2>0. Facts(F, d, m, b, u)
    BY Thread
  <2>1. Awaited(b) \ {t} = {}
    <3>1. Cardinality(Awaited(b) \ {t}) = 0
      BY <1>4, <1>5, <1>7
    <3> QED BY <1>5, <3>1, FS_EmptySet
  <2>2. Arrived(b, pos[u], pc[u])
    BY <1>7, <2>1 DEF Awaited
  <2>3. pc[u] \in {"wait", "ended"} /\ pos[u] > b /\ Constructs[pos[u]] \in BarrierKinds
    BY <1>3, <2>2 DEF Arrived
  <2>4. pos[u] \in b + 1 .. Last
    BY <2>0, <2>3 DEF Facts
  <2>5. pos[t] <= pos[u]
    BY <1>0, <2>3, <2>4 DEF Facts, Gate
  <2>6. pos[u] <= pos[t]
    BY <1>1, <2>0 DEF Facts, Gate
  <2> QED BY <1>0, <2>0, <2>3, <2>5, <2>6 DEF Facts
<1> QED BY <1>1, <1>2, <1>3, <1>6, <1>7

LEMMA ArrivedKept ==
  ASSUME Assumptions, NEW F, NEW d, NEW m, NEW b, NEW home, NEW rank, NEW t \in Threads,
         Inv(F, d, m, b, home, rank), pc[t] \in {"body", "copy_body", "copy_arrive"},
         Constructs[pos[t]] \in BarrierKinds,
         Others(t), UNCHANGED <<region, phase, cancelled>>, awaited' = awaited - 1,
         pos'[t] = pos[t],
         \/ pc'[t] = "wait" /\ local'[t] = phase
         \/ pc'[t] \in {"free_open", "open"} /\ awaited = 1,
         NEW e \in Nat, d <= e
  PROVE  Gated(e, b)'
<1>0. Facts(F, d, m, b, t)
  BY Thread
<1>1. /\ pos[t] > b /\ t \in Awaited(b)
      /\ \A u \in Threads : pc[u] \notin Opening
      /\ awaited = 1 => \A u \in Threads \ {t} : pos[u] = pos[t] /\ pc[u] \in {"wait", "ended"}
  BY Arriving
<1>2. \A u \in Threads : Gate(b, pos[u], pc[u], local[u])'
  <2>1. ASSUME NEW u \in Threads PROVE Gate(b, pos[u], pc[u], local[u])'
    <3>1. CASE u = t
      BY <1>0, <1>1, <3>1 DEF Facts, Gate, Last, Constructs, Beyond
    <3>2. CASE u # t
      BY <3>2 DEF Inv, Progress, Gated, Gate, Last, Constructs, Others
    <3> QED BY <3>1, <3>2
  <2> QED BY <2>1
<1>3. Awaited(b)' = Awaited(b) \ {t}
  <2>1. ASSUME NEW u \in Threads PROVE Arrived(b, pos[u], pc[u])' <=> u = t \/ Arrived(b, pos[u], pc[u])
    <3>1. CASE u = t
      BY <1>1, <3>1 DEF Arrived, Constructs, Opening
    <3>2. CASE u # t
      BY <3>2 DEF Arrived, Constructs, Others
    <3> QED BY <3>1, <3>2
  <2> QED BY <2>1 DEF Awaited, Threads
<1>4. /\ IsFiniteSet(Awaited(b) \ {t}) /\ Cardinality(Awaited(b) \ {t}) \in Nat
      /\ Cardinality(Awaited(b) \ {t}) <= awaited - 1 /\ awaited \in Int
  <2>1. IsFiniteSet(Awaited(b)) /\ Cardinality(Awaited(b)) <= awaited
    <3>1. Awaited(b) \subseteq Threads
      BY DEF Awaited
    <3> QED BY <1>0, <3>1, FS_Subset DEF Facts, Inv, Progress, Gated
  <2>2. Cardinality(Awaited(b)) \in Nat
    BY <2>1, FS_CardinalityType
  <2>3. IsFiniteSet(Awaited(b) \ {t}) /\ Cardinality(Awaited(b) \ {t}) = Cardinality(Awaited(b)) - 1
    BY <1>1, <2>1, FS_RemoveElement
  <2>4. Cardinality(Awaited(b) \ {t}) \in Nat
    BY <2>3, FS_CardinalityType
  <2> QED BY <2>1, <2>2, <2>3, <2>4 DEF Inv, TypeOK
<1>5. ASSUME NEW u \in Threads, pc'[u] \in Opening
      PROVE  Awaited(b)' = {} /\ \A v \in Threads \ {u} : pc'[v] \in {"wait", "ended"}
  <2>1. u = t /\ awaited = 1
    BY <1>1, <1>5 DEF Others, Opening
  <2>2. Cardinality(Awaited(b) \ {t}) = 0
    BY <1>4, <2>1
  <2>3. Awaited(b)' = {}
    BY <1>3, <1>4, <2>2, FS_EmptySet
  <2> QED BY <1>1, <2>1, <2>3 DEF Others
<1>6. \A k \in 1 .. b : Constructs'[k] \in {"barrier", "cancel"} => k <= e
  BY <1>0 DEF Inv, Progress, Gated, Constructs, Facts
<1> QED BY <1>2, <1>3, <1>4, <1>5, <1>6 DEF Gated, Threads

(* The threads that wait at the barrier of a construct that ends with one. *)
LEMMA ArriveWaitsKeeps ==
  ASSUME Assumptions, NEW F, NEW d, NEW m, NEW b, NEW home, NEW rank, NEW t \in Threads,
         Inv(F, d, m, b, home, rank), TypeOK', EndArrive(t), awaited # 1
  PROVE  Inv(F, d, m, b, home, rank)'
<1>0. Facts(F, d, m, b, t)
  BY Thread
<1>1. /\ pc[t] = "body" /\ pos'[t] = pos[t] /\ work_share'[t] = work_share[t]
      /\ local'[t] = phase /\ pc'[t] = "wait"
      /\ Constructs[pos[t]] \in {"barrier", "cancel"}
      /\ Others(t)
  BY DEF EndArrive, Goto, Others, Inv, TypeOK, Kind
<1>2. /\ UNCHANGED <<region, link, threads_completed, ids, content, copyprivate, list_alloc, list_free,
                     heap, to_free, cancelled, phase>>
      /\ awaited' = awaited - 1
  BY DEF EndArrive, list_vars
<1>3. Threaded(F, d, m)'
  <2>1. Place(F, d, m, t)'
    BY <1>0, <1>1, <1>2
    DEF Facts, Place, Fits, Uses, Uncounted, Slow, Getting, Owning, Pushing, Opening, Entered, Constructs,
        BarrierKinds
  <2>2. \A u \in Threads \ {t} : Slow(pc[u], link[work_share[u]])'
    BY <1>1, <1>2, SlowKept
  <2> QED BY <1>1, <1>2, <2>1, <2>2, ThreadedKept DEF Inv, Progress
<1>4. Gated(d, b)'
  BY <1>0, <1>1, <1>2, ArrivedKept DEF Facts, BarrierKinds
<1>5. Completed(F, d, m)'
  <2>1. \A j \in d + 1 .. m : /\ Counted(j, pos[t], pc[t])' => Counted(j, pos[t], pc[t])
                              /\ t \in MayOut(j) => t \in MayOut(j)'
    BY <1>0, <1>1, <1>2 DEF Facts, Counted, MayOut, Threads, Beyond
  <2>2. \A k \in d + 1 .. m : threads_completed[F[k]] \in Nat
    BY UsedShares, <1>0 DEF Inv, TypeOK, Facts
  <2> QED BY <1>0, <1>1, <1>2, <2>1, <2>2, CompletedKept DEF Inv, Progress, TypeOK, Assumptions, Facts
<1>6. Copied(F, d, m)'
  BY <1>0, <1>1, <1>2, CopiedKept DEF Inv, Progress, Facts
<1>7. Progress(F, d, m, b)'
  BY <1>2, <1>3, <1>4, <1>5, <1>6 DEF Inv, Progress, Last, Constructs
<1>8. Memory(F, d, m, home, rank)'
  BY <1>0, <1>1, <1>2, MemoryKept DEF Inv, Facts, Owning, Fresh, Pushing
<1>9. Alone'
  BY <1>1, <1>2, AloneKept DEF Inv, Owning, Pushing
<1> QED BY <1>7, <1>8, <1>9 DEF Inv

(* The last one recycles before it opens the barrier.                      *)
LEMMA ArriveLastKeeps ==
  ASSUME Assumptions, NEW F, NEW d, NEW m, NEW b, NEW home, NEW rank, NEW t \in Threads,
         Inv(F, d, m, b, home, rank), TypeOK', EndArrive(t), awaited = 1
  PROVE  \E k, newhome : Inv(F, k, m, b, newhome, rank)'
<1>0. Facts(F, d, m, b, t)
  BY Thread
<1>a. PICK k : k = pos[t]
  OBVIOUS
<1>1. /\ pc[t] = "body" /\ pos'[t] = k /\ pos[t] = k /\ work_share'[t] = work_share[t]
      /\ local'[t] = last_ws[t] /\ pc'[t] = "free_open"
      /\ Constructs[k] \in {"barrier", "cancel"}
      /\ Others(t)
  BY <1>a DEF EndArrive, Retire, Goto, Others, Inv, TypeOK, Kind
<1>2. /\ UNCHANGED <<region, link, threads_completed, content, copyprivate, list_alloc, list_free,
                     heap, cancelled, phase>>
      /\ awaited' = awaited - 1
      /\ to_free' = work_share[t] /\ ids' = [ids EXCEPT ![last_ws[t]] = Released(@)]
  BY DEF EndArrive, Retire, Fini, list_vars
<1>3. k \in d + 1 .. m /\ k \in Nat /\ k <= m /\ d <= k /\ k >= 1
  BY <1>0, <1>1 DEF Facts, Place, Uses, Uncounted, Entered, Getting, Fits
<1>4. \A u \in Threads \ {t} : pos[u] = k /\ pc[u] \in {"wait", "ended"}
  BY <1>1, Arriving DEF BarrierKinds
<1>5. k = d + 1
  <2>1. \A u \in Threads : pos[u] >= pos[t]
    BY <1>0, <1>1, <1>3, <1>4
  <2> QED BY <1>1, <1>3, <2>1, OneBehind
<1>6. Gated(k, b)'
  BY <1>1, <1>2, <1>3, ArrivedKept DEF BarrierKinds
<1>7. Fits(pos[t], pc[t])'
  BY <1>1, <1>2, <1>3 DEF Fits, Constructs
<1>8. \A u \in Threads \ {t} : /\ pos[u] >= k
                               /\ pc[u] \in Beyond \/ (pc[u] = "wait" /\ Constructs[k] # "copy")
  BY <1>1, <1>3, <1>4 DEF Beyond
<1>9. \E newhome : Inv(F, k, m, b, newhome, rank)'
  BY <1>1, <1>2, <1>3, <1>5, <1>6, <1>7, <1>8, RetireKeeps
<1> QED BY <1>9

LEMMA CopyArriveKeeps ==
  ASSUME Assumptions, NEW F, NEW d, NEW m, NEW b, NEW home, NEW rank, NEW t \in Threads,
         Inv(F, d, m, b, home, rank), TypeOK', CopyArrive(t)
  PROVE  Inv(F, d, m, b, home, rank)'
<1>0. Facts(F, d, m, b, t)
  BY Thread
<1>a. PICK k : k = pos[t]
  OBVIOUS
<1>1. /\ pc[t] \in {"copy_body", "copy_arrive"} /\ pos[t] = k /\ pos'[t] = k
      /\ work_share'[t] = work_share[t] /\ last_ws'[t] = last_ws[t]
      /\ \/ pc'[t] = "wait" /\ local'[t] = phase
         \/ pc'[t] = "open" /\ awaited = 1
      /\ Others(t)
  BY <1>a DEF CopyArrive, Goto, Others, Inv, TypeOK
<1>2. /\ UNCHANGED <<region, link, threads_completed, ids, content, list_alloc, list_free, heap, to_free,
                     cancelled, phase>>
      /\ awaited' = awaited - 1
  BY DEF CopyArrive, team_vars, list_vars
<1>3. /\ k \in d + 1 .. m /\ k \in d .. m /\ work_share[t] = F[k] /\ F[k] \in Shares
      /\ Constructs[k] = "copy"
  BY <1>0, <1>1 DEF Facts, Place, Uses, Uncounted, Entered, Getting, Fits
<1>4. /\ pc[t] = "copy_body" => copyprivate'[F[k]] = k
      /\ \A s \in Shares : copyprivate'[s] = copyprivate[s] \/ (s = F[k] /\ pc[t] = "copy_body")
  BY <1>1, <1>3 DEF CopyArrive, Inv, TypeOK
<1>5. Threaded(F, d, m)'
  <2>1. Place(F, d, m, t)'
    BY <1>0, <1>1, <1>2, <1>3
    DEF Facts, Place, Fits, Uses, Uncounted, Slow, Getting, Owning, Pushing, Opening, Entered, Constructs,
        BarrierKinds
  <2>2. \A u \in Threads \ {t} : Slow(pc[u], link[work_share[u]])'
    BY <1>1, <1>2, SlowKept
  <2> QED BY <1>1, <1>2, <2>1, <2>2, ThreadedKept DEF Inv, Progress
<1>6. Gated(d, b)'
  BY <1>0, <1>1, <1>2, <1>3, ArrivedKept DEF Facts, BarrierKinds
<1>7. Completed(F, d, m)'
  <2>1. \A j \in d + 1 .. m : /\ Counted(j, pos[t], pc[t])' => Counted(j, pos[t], pc[t])
                              /\ t \in MayOut(j) => t \in MayOut(j)'
    BY <1>0, <1>1, <1>2 DEF Facts, Counted, MayOut, Threads, Beyond
  <2>2. \A j \in d + 1 .. m : threads_completed[F[j]] \in Nat
    BY UsedShares, <1>0 DEF Inv, TypeOK, Facts
  <2> QED BY <1>0, <1>1, <1>2, <2>1, <2>2, CompletedKept DEF Inv, Progress, TypeOK, Assumptions, Facts
<1>8. Copied(F, d, m)'
  <2>1. ASSUME NEW j \in d + 1 .. m
        PROVE  /\ copyprivate[F[j]] = j => copyprivate'[F[j]] = j
               /\ pos[t] = j /\ pc[t] \in {"wake", "copy_body"} => copyprivate'[F[j]] = j
    <3>1. j \in d .. m /\ F[j] \in Shares
      BY <1>0 DEF Facts
    <3>2. F[j] = F[k] => j = k
      BY <1>3, <3>1, UsedShares
    <3> QED BY <1>1, <1>4, <3>1, <3>2
  <2> QED BY <1>0, <1>1, <1>2, <2>1, CopiedKept DEF Inv, Progress, Facts
<1>9. Progress(F, d, m, b)'
  BY <1>2, <1>5, <1>6, <1>7, <1>8 DEF Inv, Progress, Last, Constructs
<1>10. Memory(F, d, m, home, rank)'
  BY <1>0, <1>1, <1>2, MemoryKept DEF Inv, Facts, Owning, Fresh, Pushing
<1>11. Alone'
  BY <1>1, <1>2, AloneKept DEF Inv, Owning, Pushing
<1> QED BY <1>9, <1>10, <1>11 DEF Inv

(* The last thread opens the barrier: construct pos[t] is the last whose   *)
(* barrier has been opened.                                                *)
LEMMA OpenKeeps ==
  ASSUME Assumptions, NEW F, NEW d, NEW m, NEW b, NEW home, NEW rank, NEW t \in Threads,
         Inv(F, d, m, b, home, rank), TypeOK', Open(t)
  PROVE  \E k : Inv(F, d, m, k, home, rank)'
<1>0. Facts(F, d, m, b, t)
  BY Thread
<1>a. PICK k : k = pos[t]
  OBVIOUS
<1>1. /\ pc[t] = "open" /\ pos[t] = k /\ pos'[t] = k /\ local'[t] = local[t]
      /\ work_share'[t] = work_share[t] /\ last_ws'[t] = last_ws[t]
      /\ pc'[t] = IF Constructs[k] = "copy" THEN "copy_end" ELSE "left"
      /\ Others(t)
  BY <1>a DEF Open, Goto, Others, Inv, TypeOK, thread_vars, AfterBarrier, Kind
<1>2. /\ UNCHANGED <<region, link, threads_completed, ids, content, copyprivate, list_alloc, list_free,
                     heap, to_free, cancelled>>
      /\ awaited' = nthreads /\ phase' = 1 - phase
  BY DEF Open, share_vars, team_vars, list_vars
<1>3. /\ Awaited(b) = {} /\ \A u \in Threads \ {t} : pc[u] \in {"wait", "ended"}
      /\ k \in 1 .. Last /\ k >= 1 /\ Constructs[k] \in BarrierKinds
      /\ Constructs[k] # "copy" => k = d
  BY <1>0, <1>1 DEF Inv, Progress, Gated, Opening, Facts, Place, Fits, Uses, Getting
<1>4. /\ k \in b + 1 .. Last
      /\ \A u \in Threads : Arrived(b, pos[u], pc[u])
  BY <1>0, <1>1, <1>3 DEF Awaited, Arrived, Facts
<1>5. \A u \in Threads : pos[u] = k
  <2>1. ASSUME NEW u \in Threads PROVE pos[u] = k
    <3>0. Facts(F, d, m, b, u)
      BY Thread
    <3>1. pos[u] > b /\ Constructs[pos[u]] \in BarrierKinds
      BY <1>4 DEF Arrived
    <3>2. pos[u] \in b + 1 .. Last
      BY <3>0, <3>1 DEF Facts
    <3>3. k <= pos[u]
      BY <1>0, <1>1, <3>1, <3>2 DEF Facts, Gate
    <3>4. pos[u] <= k
      BY <1>3, <1>4, <3>0 DEF Facts, Gate
    <3> QED BY <1>0, <1>1, <3>0, <3>3, <3>4 DEF Facts
  <2> QED BY <2>1
<1>6. Threaded(F, d, m)'
  <2>1. Place(F, d, m, t)'
    BY <1>0, <1>1, <1>2, <1>3
    DEF Facts, Place, Fits, Uses, Uncounted, Slow, Getting, Owning, Pushing, Opening, Entered, Constructs
  <2>2. \A u \in Threads \ {t} : Slow(pc[u], link[work_share[u]])'
    BY <1>1, <1>2, SlowKept
  <2> QED BY <1>1, <1>2, <2>1, <2>2, ThreadedKept DEF Inv, Progress
<1>7. Gated(d, k)'
  <2>1. ASSUME NEW u \in Threads PROVE Gate(k, pos[u], pc[u], local[u])'
    <3>1. pos'[u] = k
      BY <1>1, <1>5 DEF Others
    <3>2. pc'[u] \in {"wait", "copy_end", "ended", "left"}
      BY <1>1, <1>3 DEF Others
    <3>3. pc'[u] = "wait" => local'[u] # phase'
      <4>1. ASSUME pc'[u] = "wait" PROVE local'[u] = phase
        <5>1. pc[u] = "wait" /\ local'[u] = local[u]
          BY <1>1, <4>1 DEF Others
        <5>2. Gate(b, pos[u], pc[u], local[u])
          BY DEF Inv, Progress, Gated
        <5> QED BY <1>3, <1>4, <1>5, <5>1, <5>2 DEF Gate
      <4>2. phase \in {0, 1}
        BY DEF Inv, TypeOK
      <4> QED BY <1>2, <4>1, <4>2
    <3> QED BY <1>0, <1>2, <1>3, <3>1, <3>2, <3>3 DEF Gate, Last, Constructs, Beyond, Facts
  <2>2. \A j \in 1 .. k : Constructs'[j] \in {"barrier", "cancel"} => j <= d
    <3>1. ASSUME NEW j \in 1 .. k, Constructs[j] \in {"barrier", "cancel"} PROVE j <= d
      <4>1. CASE j <= b
        <5>1. j \in 1 .. b
          BY <1>0, <4>1 DEF Facts
        <5> QED BY <3>1, <5>1 DEF Inv, Progress, Gated
      <4>2. CASE ~(j <= b)
        <5>1. j \in b + 1 .. Last
          BY <1>0, <1>3, <4>2 DEF Facts
        <5>2. k <= j
          BY <1>0, <1>1, <3>1, <5>1 DEF Facts, Gate, BarrierKinds
        <5>3. j = k
          BY <1>3, <5>2
        <5> QED BY <1>0, <1>3, <3>1, <5>3 DEF Facts
      <4> QED BY <4>1, <4>2
    <3> QED BY <1>2, <3>1 DEF Constructs
  <2>3. Cardinality(Awaited(k)') <= awaited'
    <3>1. Awaited(k)' \subseteq Threads
      BY <1>2 DEF Awaited, Threads
    <3> QED BY <1>0, <1>2, <3>1, CardBelow DEF Facts, nthreads
  <2>4. \A u \in Threads : pc'[u] \notin Opening
    BY <1>1, <1>3 DEF Others, Opening
  <2> QED BY <1>2, <2>1, <2>2, <2>3, <2>4 DEF Gated, Threads
<1>8. Completed(F, d, m)'
  <2>1. \A j \in d + 1 .. m : /\ Counted(j, pos[t], pc[t])' => Counted(j, pos[t], pc[t])
                              /\ t \in MayOut(j) => t \in MayOut(j)'
    BY <1>0, <1>1, <1>2, <1>3 DEF Facts, Counted, MayOut, Threads, Beyond
  <2>2. \A j \in d + 1 .. m : threads_completed[F[j]] \in Nat
    BY UsedShares, <1>0 DEF Inv, TypeOK, Facts
  <2> QED BY <1>0, <1>1, <1>2, <2>1, <2>2, CompletedKept DEF Inv, Progress, TypeOK, Assumptions, Facts
<1>9. Copied(F, d, m)'
  BY <1>0, <1>1, <1>2, CopiedKept DEF Inv, Progress, Facts
<1>10. Progress(F, d, m, k)'
  <2>1. k \in 0 .. Last
    BY <1>0, <1>3 DEF Facts
  <2> QED BY <1>2, <1>6, <1>7, <1>8, <1>9, <2>1 DEF Inv, Progress, Last, Constructs
<1>11. Memory(F, d, m, home, rank)'
  BY <1>0, <1>1, <1>2, MemoryKept DEF Inv, Facts, Owning, Fresh, Pushing
<1>12. Alone'
  BY <1>1, <1>2, AloneKept DEF Inv, Owning, Pushing
<1>13. Inv(F, d, m, k, home, rank)'
  BY <1>10, <1>11, <1>12 DEF Inv
<1> QED BY <1>13

-----------------------------------------------------------------------------
(* The end of the team.                                                    *)

(* A set of natural numbers that has 0, and the next of each of its        *)
(* members, has them all.                                                  *)
LEMMA Induction ==
  ASSUME NEW S, 0 \in S, \A i \in Nat : i \in S => i + 1 \in S
  PROVE  Nat \subseteq S
<1>1. SUFFICES ASSUME Nat \ S # {} PROVE FALSE
  OBVIOUS
<1>2. \E i \in Nat \ S : \A j \in Nat \ S : ~ <<j, i>> \in OpToRel(<, Nat)
  BY <1>1, WFMin, NatLessThanWellFounded
<1>3. \E i \in Nat \ S : \A j \in Nat \ S : ~ (j < i)
  BY <1>2 DEF OpToRel
<1>4. PICK i \in Nat \ S : \A j \in Nat \ S : ~ (j < i)
  BY <1>3
<1>5. i - 1 \in Nat /\ i - 1 < i
  BY <1>4
<1> QED BY <1>4, <1>5

(* There is a function as ChainFrom is defined, whatever the shares are    *)
(* linked to: the smallest set that has a share and what its members are   *)
(* linked to.                                                              *)
LEMMA ChainExists ==
  ASSUME SizeAssumption, link \in [Shares -> {NULL, Owned, Waited} \cup Shares]
  PROVE  ChainFrom = [ws \in Shares |-> IF link[ws] > 2 THEN {ws} \cup ChainFrom[link[ws]] ELSE {ws}]
<1> DEFINE Closed(S) == \A s \in S : link[s] > 2 => link[s] \in S
<1> DEFINE C == [ws \in Shares |-> {x \in Shares : \A S \in SUBSET Shares : ws \in S /\ Closed(S) => x \in S}]
<1>1. \A s \in Shares : link[s] > 2 <=> link[s] \in Shares
  BY Sizes DEF NULL, Owned, Waited
<1>2. ASSUME NEW ws \in Shares
      PROVE  ws \in C[ws] /\ C[ws] \in SUBSET Shares /\ Closed(C[ws])
  BY <1>1
<1>3. ASSUME NEW ws \in Shares, NEW S \in SUBSET Shares, ws \in S, Closed(S)
      PROVE  C[ws] \subseteq S
  BY <1>3
<1> HIDE DEF C
<1>4. ASSUME NEW ws \in Shares
      PROVE  C[ws] = IF link[ws] > 2 THEN {ws} \cup C[link[ws]] ELSE {ws}
  <2>1. CASE link[ws] > 2
    <3>1. link[ws] \in Shares
      BY <1>1, <2>1
    <3>2. C[ws] \subseteq {ws} \cup C[link[ws]]
      <4>1. {ws} \cup C[link[ws]] \in SUBSET Shares /\ Closed({ws} \cup C[link[ws]])
        BY <1>2, <3>1
      <4> QED BY <1>3, <4>1
    <3>3. C[link[ws]] \subseteq C[ws]
      <4>1. C[ws] \in SUBSET Shares /\ Closed(C[ws]) /\ link[ws] \in C[ws]
        BY <1>2, <2>1
      <4> QED BY <1>3, <3>1, <4>1
    <3> QED BY <1>2, <2>1, <3>2, <3>3
  <2>2. CASE ~(link[ws] > 2)
    <3>1. C[ws] \subseteq {ws}
      <4>1. {ws} \in SUBSET Shares /\ Closed({ws})
        BY <2>2
      <4> QED BY <1>3, <4>1
    <3> QED BY <1>2, <2>2, <3>1
  <2> QED BY <2>1, <2>2
<1>5. C = [ws \in Shares |-> IF link[ws] > 2 THEN {ws} \cup C[link[ws]] ELSE {ws}]
  <2>1. C = [ws \in Shares |-> C[ws]]
    BY DEF C
  <2> QED BY <1>4, <2>1
<1> QED BY <1>5 DEF ChainFrom

(* The chain of the shares in use.                                         *)
LEMMA ChainInUse ==
  ASSUME Assumptions, NEW F, NEW d, NEW m, NEW b, NEW home, NEW rank, Inv(F, d, m, b, home, rank)
  PROVE  ChainFrom[to_free] = {s \in Shares : home[s] = "use"}
<1>1. /\ F \in [0 .. Last -> Shares] /\ d \in Nat /\ m \in Nat /\ d <= m /\ m <= Last /\ Last \in Nat
      /\ to_free = F[d] /\ link[F[m]] <= 2
      /\ \A k \in d .. m - 1 : link[F[k]] = F[k + 1]
      /\ \A k \in d .. m : F[k] \in Shares
      /\ link \in [Shares -> {NULL, Owned, Waited} \cup Shares]
      /\ \A s \in Shares : home[s] = "use" <=> \E k \in d .. m : s = F[k]
  <2>1. /\ F \in [0 .. Last -> Shares] /\ d \in 0 .. Last /\ m \in d .. Last /\ Last \in Nat
        /\ link \in [Shares -> {NULL, Owned, Waited} \cup Shares] /\ InUse(F, d, m, home)
    BY Team DEF Inv, Progress, Memory, Assumptions, TypeOK
  <2>2. d \in Nat /\ m \in Nat /\ d <= m /\ m <= Last /\ \A k \in d .. m : F[k] \in Shares
    BY <2>1
  <2> QED BY <2>1, <2>2 DEF InUse
<1>2. \A ws \in Shares : ChainFrom[ws] = IF link[ws] > 2 THEN {ws} \cup ChainFrom[link[ws]] ELSE {ws}
  BY <1>1, ChainExists DEF Assumptions
<1> DEFINE S == {i \in Nat : i <= m - d => ChainFrom[F[m - i]] = {F[j] : j \in m - i .. m}}
<1>3. 0 \in S
  <2>1. ChainFrom[F[m]] = {F[m]}
    <3>1. F[m] \in Shares /\ ~(link[F[m]] > 2)
      <4>1. F[m] \in Shares /\ link[F[m]] \in {NULL, Owned, Waited} \cup Shares
        BY <1>1
      <4>2. link[F[m]] \in Int
        BY <4>1, Sizes DEF Assumptions, NULL, Owned, Waited
      <4> QED BY <1>1, <4>1, <4>2
    <3> QED BY <1>2, <3>1
  <2>2. m - 0 .. m = {m} /\ m - 0 = m
    BY <1>1
  <2> QED BY <2>1, <2>2
<1>4. ASSUME NEW i \in Nat, i \in S PROVE i + 1 \in S
  <2>1. SUFFICES ASSUME i + 1 <= m - d
                 PROVE  ChainFrom[F[m - (i + 1)]] = {F[j] : j \in m - (i + 1) .. m}
    OBVIOUS
  <2>2. PICK k : k = m - (i + 1)
    OBVIOUS
  <2>3. k \in d .. m - 1 /\ k \in d .. m /\ k + 1 = m - i /\ i <= m - d
    BY <1>1, <2>1, <2>2
  <2>4. link[F[k]] = F[k + 1] /\ F[k + 1] \in Shares /\ F[k] \in Shares /\ link[F[k]] > 2
    <3>1. link[F[k]] = F[k + 1] /\ F[k + 1] \in Shares /\ F[k] \in Shares
      BY <1>1, <2>3
    <3> QED BY <3>1, Sizes DEF Assumptions
  <2>5. ChainFrom[F[k]] = {F[k]} \cup ChainFrom[F[k + 1]]
    BY <1>2, <2>4
  <2>6. ChainFrom[F[k + 1]] = {F[j] : j \in k + 1 .. m}
    BY <1>4, <2>3
  <2>7. k .. m = {k} \cup (k + 1 .. m)
    BY <1>1, <2>3
  <2> QED BY <2>2, <2>5, <2>6, <2>7
<1>5. Nat \subseteq S
  <2> HIDE DEF S
  <2> QED BY <1>3, <1>4, Induction
<1>6. ChainFrom[F[d]] = {F[j] : j \in d .. m}
  <2>1. m - d \in Nat /\ m - (m - d) = d
    BY <1>1
  <2> QED BY <1>5, <2>1
<1> QED BY <1>1, <1>6

(* A team that has not been cancelled ends with one share in use.          *)
LEMMA OneLeft ==
  ASSUME Assumptions, NEW F, NEW d, NEW m, NEW b, NEW home, NEW rank,
         Inv(F, d, m, b, home, rank), \A t \in Threads : pc[t] = "ended", ~cancelled
  PROVE  \A s \in Shares : home[s] = "use" <=> s = work_share[Master]
<1>1. Master \in Threads
  BY Team DEF Assumptions, Inv, TypeOK
<1>2. Facts(F, d, m, b, Master)
  BY <1>1, Thread
<1>3. \A t \in Threads : pos[t] = Last
  BY DEF Inv, Progress, Threaded, Place
<1>4. m = Last /\ work_share[Master] = F[Last]
  BY <1>1, <1>2, <1>3 DEF Facts, Place, Uses, Getting
<1>5. d = Last
  <2>1. SUFFICES ASSUME d # Last PROVE FALSE
    OBVIOUS
  <2>2. PICK j : j = d + 1
    OBVIOUS
  <2>3. j \in d + 1 .. m /\ j \in 1 .. Last /\ j > d
    BY <1>2, <1>4, <2>1, <2>2 DEF Facts
  <2>4. Constructs[j] \in {"nowait", "copy"}
    <3>1. Constructs[j] \in Kinds
      BY <2>3, Team DEF Assumptions, Inv, TypeOK
    <3>2. ASSUME Constructs[j] \in {"barrier", "cancel"} PROVE FALSE
      <4>1. CASE j <= b
        <5>1. j \in 1 .. b
          BY <1>2, <2>3, <4>1 DEF Facts
        <5>2. j <= d
          BY <3>2, <5>1 DEF Inv, Progress, Gated
        <5> QED BY <1>2, <2>3, <5>2 DEF Facts
      <4>2. CASE ~(j <= b)
        <5>1. j \in b + 1 .. Last
          BY <1>2, <2>3, <4>2 DEF Facts
        <5>2. Last <= j /\ (Last = j => cancelled)
          BY <1>1, <1>2, <1>3, <3>2, <5>1 DEF Facts, Gate, BarrierKinds
        <5> QED BY <1>2, <2>3, <5>2 DEF Facts
      <4> QED BY <4>1, <4>2
    <3> QED BY <3>1, <3>2 DEF Kinds
  <2>5. threads_completed[F[j]] < nthreads /\ Cardinality(Out(j)) <= threads_completed[F[j]]
    BY <2>3, <2>4 DEF Inv, Progress, Completed
  <2>6. Out(j) = Threads
    BY <1>2, <1>3, <2>3 DEF Out, Counted, Facts
  <2>7. F[j] \in Shares
    BY <1>2, <2>3 DEF Facts
  <2>8. threads_completed[F[j]] \in Nat
    BY <2>7 DEF Inv, TypeOK
  <2> QED BY <1>2, <2>5, <2>6, <2>8 DEF nthreads, Facts
<1>6. \A s \in Shares : home[s] = "use" <=> \E k \in d .. m : s = F[k]
  BY DEF Inv, Memory, InUse
<1> QED BY <1>2, <1>4, <1>5, <1>6 DEF Facts

LEMMA TeamEndKeeps ==
  ASSUME Assumptions, NEW F, NEW d, NEW m, NEW b, NEW home, NEW rank,
         Inv(F, d, m, b, home, rank), TypeOK', TeamEnd
  PROVE  Over'
<1>1. /\ \A t \in Threads : pc[t] = "ended" /\ pc'[t] = "done"
      /\ UNCHANGED <<region, list_alloc, list_free, heap>>
  BY DEF TeamEnd, team_vars, list_vars
<1>2. \A s \in Shares : /\ home[s] = "use" => ids[s] \in {"none", "held"}
                        /\ home[s] # "use" => ids[s] \in {"none", "freed"}
  <2>1. \A t \in Threads : pc[t] # "publish"
    BY <1>1
  <2> QED BY <2>1 DEF Inv, Memory, Held, TypeOK
<1>3. \A s \in Shares : /\ ids'[s] = IF home[s] = "use" THEN Released(ids[s]) ELSE ids[s]
                        /\ home[s] # "use" => link'[s] = link[s]
  <2>1. CASE cancelled
    BY <2>1, ChainInUse DEF TeamEnd
  <2>2. CASE ~cancelled
    <3>1. \A s \in Shares : home[s] = "use" <=> s = work_share[Master]
      BY <1>1, <2>2, OneLeft
    <3>2. ids' = [ids EXCEPT ![work_share[Master]] = Released(@)] /\ link' = link
      BY <2>2 DEF TeamEnd, Fini
    <3> QED BY <3>1, <3>2 DEF Inv, TypeOK
  <2> QED BY <2>1, <2>2
<1>4. \A s \in Shares : ids'[s] \notin {"held", "twice"}
  BY <1>2, <1>3 DEF Released
<1>5. Lists(home, rank)'
  BY <1>1, <1>3, ListsKept DEF Inv, Memory
<1> QED BY <1>1, <1>4, <1>5 DEF Over, Threads

-----------------------------------------------------------------------------
(* The invariant, put together.                                            *)

LEMMA InitHolds ==
  ASSUME Assumptions, Init
  PROVE  Running
<1>1. /\ region \in Regions /\ IsFiniteSet(Threads) /\ nthreads \in Nat /\ Last \in Nat
      /\ MaxShares \in Nat /\ Chunk \in Nat /\ Chunk >= 2 /\ Chunk <= MaxShares
      /\ Shares = 3 .. MaxShares + 2 /\ Base = 3 /\ NULL = 0 /\ Base \in Shares
  BY Team, Sizes DEF Assumptions, Init, Shares, Base, NULL
<1> DEFINE own == Base + 1 .. Base + Chunk - 1
<1> DEFINE F == [k \in 0 .. Last |-> Base]
<1> DEFINE home == [s \in Shares |-> IF s = Base THEN "use" ELSE IF s \in own THEN "alloc" ELSE "heap"]
<1> DEFINE rank == [s \in Shares |-> 0 - s]
<1>2. /\ \A s \in Shares : link[s] = IF s \in own /\ s # Base + Chunk - 1 THEN s + 1 ELSE NULL
      /\ link \in [Shares -> {NULL} \cup Shares]
  <2>1. link = [s \in Shares |-> IF s \in own THEN (IF s = Base + Chunk - 1 THEN NULL ELSE s + 1) ELSE NULL]
    BY DEF Init, Chain
  <2>2. \A s \in own : s # Base + Chunk - 1 => s + 1 \in Shares
    BY <1>1
  <2> QED BY <2>1, <2>2
<1>3. TypeOK
  <2>1. pc \in [Threads -> Places]
    BY DEF Init, Places, Beyond
  <2>2. pos \in [Threads -> 0 .. Last]
    BY <1>1 DEF Init
  <2>3. /\ list_alloc \in Shares /\ heap \in Base + 1 .. MaxShares + 3 /\ chunk \in Nat \ {0}
        /\ to_free \in Shares /\ list_free = NULL
    <3>1. /\ list_alloc = Base + 1 /\ heap = Base + Chunk /\ chunk = Chunk /\ to_free = Base
          /\ list_free = NULL
      BY DEF Init
    <3>2. Base + 1 \in Shares /\ Base + Chunk \in Base + 1 .. MaxShares + 3
      BY <1>1
    <3> QED BY <1>1, <3>1, <3>2
  <2>4. /\ threads_completed \in [Shares -> Nat] /\ ids \in [Shares -> {"none", "held", "freed", "twice"}]
        /\ content \in [Shares -> Nat] /\ copyprivate \in [Shares -> Nat]
    BY DEF Init
  <2>5. /\ cancelled \in BOOLEAN /\ awaited \in Int /\ phase \in {0, 1}
    <3>1. cancelled \in BOOLEAN
      BY DEF Init
    <3>2. awaited = nthreads /\ phase = 0
      BY DEF Init
    <3> QED BY <1>1, <3>1, <3>2
  <2>6. /\ work_share \in [Threads -> Shares] /\ last_ws \in [Threads -> Shares \cup {NULL}]
        /\ local \in [Threads -> Shares \cup {0, 1}]
    BY <1>1 DEF Init
  <2> QED BY <1>1, <1>2, <2>1, <2>2, <2>3, <2>4, <2>5, <2>6 DEF TypeOK
<1>4. \A t \in Threads : pc[t] = "outside" /\ pos[t] = 0 /\ work_share[t] = Base
  BY DEF Init
<1>5. Alone
  BY <1>4 DEF Alone, Owning, Pushing
<1>6. Progress(F, 0, 0, 0)
  <2>1. F \in [0 .. Last -> Shares] /\ F[0] = Base
    BY <1>1
  <2>2. Threaded(F, 0, 0)
    BY <1>1, <1>4, <2>1
    DEF Threaded, Place, Fits, Uses, Uncounted, Slow, Getting, Owning, Pushing, Entered
  <2>3. Gated(0, 0)
    <3>1. \A t \in Threads : Gate(0, pos[t], pc[t], local[t])
      BY <1>1, <1>4 DEF Gate
    <3>2. Cardinality(Awaited(0)) <= awaited
      <4>1. Awaited(0) \subseteq Threads
        BY DEF Awaited
      <4> QED BY <1>1, <4>1, CardBelow DEF Init, nthreads
    <3> QED BY <1>4, <3>1, <3>2 DEF Gated, Opening
  <2>4. Completed(F, 0, 0) /\ Copied(F, 0, 0)
    BY DEF Completed, Copied
  <2> QED BY <1>1, <2>1, <2>2, <2>3, <2>4 DEF Progress
<1>7. /\ home \in [Shares -> Homes] /\ rank \in [Shares -> Int]
      /\ \A s \in Shares : /\ home[s] = "alloc" <=> s \in own
                           /\ home[s] = "use" <=> s = Base
                           /\ home[s] \notin {"free", "new", "retired"}
                           /\ home[s] = "heap" <=> s >= heap
                           /\ rank[s] = 0 - s
  BY <1>1 DEF Homes, Init
<1>8. Lists(home, rank)
  <2> HIDE DEF F, home, rank
  <2>1. Listed(home, rank, "alloc", list_alloc)
    <3>1. list_alloc = Base + 1 /\ list_alloc \in own /\ list_alloc \in Shares
      BY <1>1 DEF Init
    <3>2. ASSUME NEW s \in Shares, s \in own
          PROVE  /\ rank[s] <= rank[list_alloc]
                 /\ link[s] # NULL => link[s] \in Shares /\ link[s] \in own /\ rank[link[s]] = rank[s] - 1
                 /\ link[s] = NULL => \A u \in Shares : u \in own => rank[s] <= rank[u]
                 /\ s # list_alloc => \E u \in Shares : u \in own /\ link[u] = s
                 /\ \A u \in Shares : u \in own /\ rank[u] = rank[s] => u = s
      <4>1. rank[s] <= rank[list_alloc] /\ \A u \in Shares : u \in own /\ rank[u] = rank[s] => u = s
        BY <1>1, <1>7, <3>1, <3>2
      <4>2. CASE s = Base + Chunk - 1
        <5>1. link[s] = NULL /\ \A u \in Shares : u \in own => rank[s] <= rank[u]
          BY <1>1, <1>2, <1>7, <4>2
        <5>2. ASSUME s # list_alloc PROVE \E u \in Shares : u \in own /\ link[u] = s
          <6>1. s - 1 \in Shares /\ s - 1 \in own /\ s - 1 # Base + Chunk - 1
            BY <1>1, <3>1, <3>2, <5>2
          <6>2. link[s - 1] = s
            BY <1>1, <1>2, <6>1
          <6> QED BY <6>1, <6>2
        <5> QED BY <4>1, <5>1, <5>2
      <4>3. CASE s # Base + Chunk - 1
        <5>1. link[s] = s + 1 /\ s + 1 \in Shares /\ s + 1 \in own /\ s + 1 # NULL
          BY <1>1, <1>2, <3>2, <4>3
        <5>2. rank[s + 1] = rank[s] - 1
          BY <1>1, <1>7, <5>1
        <5>3. ASSUME s # list_alloc PROVE \E u \in Shares : u \in own /\ link[u] = s
          <6>1. s - 1 \in Shares /\ s - 1 \in own /\ s - 1 # Base + Chunk - 1
            BY <1>1, <3>1, <3>2, <5>3
          <6>2. link[s - 1] = s
            BY <1>1, <1>2, <6>1
          <6> QED BY <6>1, <6>2
        <5> QED BY <4>1, <5>1, <5>2, <5>3
      <4> QED BY <4>2, <4>3
    <3>3. \A s \in Shares : home[s] = "alloc" <=> s \in own
      BY <1>7
    <3> HIDE DEF own
    <3> QED BY <1>1, <3>1, <3>2, <3>3 DEF Listed
  <2>2. Listed(home, rank, "free", list_free)
    BY <1>7 DEF Listed, Init
  <2> QED BY <1>7, <2>1, <2>2 DEF Lists
<1>9. InUse(F, 0, 0, home)
  <2>1. F[0] = Base /\ to_free = Base /\ content[Base] = 0
    BY <1>1 DEF Init
  <2>2. link[Base] = NULL
    BY <1>1, <1>2
  <2> HIDE DEF F, home
  <2> QED BY <1>1, <1>4, <1>7, <2>1, <2>2 DEF InUse, Owning
<1>10. InHand(home) /\ Held(home)
  <2> HIDE DEF F, home
  <2>1. \A s \in Shares : ids[s] = "none"
    BY DEF Init
  <2> QED BY <1>4, <1>7, <2>1 DEF InHand, Hand, Held, Fresh, Pushing
<1>11. Inv(F, 0, 0, 0, home, rank)
  <2> HIDE DEF F, home, rank
  <2> QED BY <1>3, <1>5, <1>6, <1>8, <1>9, <1>10 DEF Inv, Memory
<1> QED BY <1>11 DEF Running

LEMMA TypeStep ==
  ASSUME Assumptions, NEW F, NEW d, NEW m, NEW b, NEW home, NEW rank, NEW t \in Threads,
         Inv(F, d, m, b, home, rank), Step(t) \/ Interrupted(t) \/ Cancel(t) \/ Cancelled(t)
  PROVE  TypeOK'
<1>0. Facts(F, d, m, b, t) /\ TypeOK /\ Place(F, d, m, t)
  BY Thread DEF Facts, Inv
<1>1. /\ \A s \in Shares : link[s] > 2 <=> link[s] \in Shares
      /\ nthreads \in Nat /\ MaxShares \in Nat /\ Shares = 3 .. MaxShares + 2 /\ Base = 3
      /\ Last \in Nat
  <2>1. \A s \in Shares : link[s] \in {0, 1, 2} \cup Shares
    BY <1>0 DEF TypeOK, NULL, Owned, Waited
  <2>2. MaxShares \in Nat /\ Shares = 3 .. MaxShares + 2
    BY Sizes DEF Assumptions, Shares
  <2>3. \A s \in Shares : link[s] > 2 <=> link[s] \in Shares
    BY <2>1, <2>2
  <2> QED BY <1>0, <2>2, <2>3 DEF Facts, Base
<1>2. CASE Start(t)
  <2>1. pos' \in [Threads -> 0 .. Last]
    <3>1. pos[t] + 1 \in 0 .. Last
      BY <1>0, <1>1, <1>2 DEF Start, Facts, Last
    <3> QED BY <1>0, <1>2, <3>1 DEF Start, TypeOK
  <2> QED BY <1>0, <1>2, <2>1
  DEF TypeOK, Start, Goto, share_vars, team_vars, list_vars, barrier_vars, Threads, Constructs, Last,
      Places, Getting
<1>3. CASE PtrlockLoad(t)
  <2>1. work_share' \in [Threads -> Shares]
    <3>1. link[work_share[t]] > 2 => link[work_share[t]] \in Shares
      BY <1>0, <1>1 DEF TypeOK
    <3>2. \/ work_share' = work_share
          \/ /\ link[work_share[t]] > 2
             /\ work_share' = [work_share EXCEPT ![t] = link[work_share[t]]]
      BY <1>3 DEF PtrlockLoad, Join
    <3> QED BY <1>0, <1>3, <3>1, <3>2 DEF PtrlockLoad, TypeOK
  <2>2. pc' \in [Threads -> Places \cup {"done"}]
    BY <1>0, <1>3 DEF PtrlockLoad, Join, TypeOK, Goto, Places, Getting, Entered
  <2> QED BY <1>0, <1>3, <2>1, <2>2
  DEF TypeOK, PtrlockLoad, share_vars, team_vars, list_vars, barrier_vars, Threads, Constructs, Last
<1>4. CASE PtrlockOwn(t)
  BY <1>0, <1>4
  DEF TypeOK, PtrlockOwn, Goto, team_vars, list_vars, barrier_vars, thread_vars, Threads, Constructs,
      Last, Places, Getting
<1>5. CASE PtrlockFlag(t)
  BY <1>0, <1>5
  DEF TypeOK, PtrlockFlag, Goto, team_vars, list_vars, barrier_vars, thread_vars, Threads, Constructs,
      Last, Places, Getting
<1>6. CASE PtrlockWait(t) \/ PtrlockCheck(t) \/ Interrupted(t)
  BY <1>0, <1>6
  DEF TypeOK, PtrlockWait, PtrlockCheck, Interrupted, Goto, share_vars, team_vars, list_vars, barrier_vars,
      thread_vars, Threads, Constructs, Last, Places, Getting
<1>7. CASE PtrlockReturn(t)
  <2>1. link[work_share[t]] \in Shares
    BY <1>0, <1>1, <1>7 DEF PtrlockReturn, Place, Slow, TypeOK
  <2> QED BY <1>0, <1>7, <2>1
      DEF TypeOK, PtrlockReturn, Join, Goto, share_vars, team_vars, list_vars, barrier_vars, Threads,
          Constructs, Last, Places, Entered
<1>8. CASE AllocFromList(t)
  <2>1. list_alloc \in Shares /\ link[list_alloc] \in Shares \cup {NULL}
    BY <1>0, <1>8 DEF AllocFromList, TypeOK, Inv, Memory, Lists, Listed
  <2> QED BY <1>0, <1>8, <2>1
      DEF TypeOK, AllocFromList, Goto, share_vars, barrier_vars, Threads, Constructs, Last, Places, Getting
<1>9. CASE AllocReadFree(t)
  BY <1>0, <1>9
  DEF TypeOK, AllocReadFree, Goto, share_vars, team_vars, list_vars, barrier_vars, Threads, Constructs,
      Last, Places, Getting, NULL
<1>10. CASE AllocFromFree(t)
  <2>1. /\ local[t] \in Shares /\ home[local[t]] = "free" /\ link[local[t]] # NULL
        /\ Listed(home, rank, "free", list_free)
    BY <1>10 DEF AllocFromFree, NothingToTake, Inv, Memory, InHand, Hand, Snapshot, Lists
  <2>2. link[local[t]] \in Shares /\ home[link[local[t]]] = "free"
    BY <2>1 DEF Listed
  <2>3. link[link[local[t]]] \in Shares \cup {NULL}
    BY <2>1, <2>2 DEF Listed
  <2> QED BY <1>0, <1>10, <2>1, <2>2, <2>3
      DEF TypeOK, AllocFromFree, Goto, barrier_vars, Threads, Constructs, Last, Places, Getting
<1>11. CASE AllocChunk(t)
  <2>1. /\ heap \in Nat /\ heap >= 4 /\ chunk \in Nat \ {0} /\ heap + 2 * chunk - 1 \in Shares
        /\ heap' = heap + 2 * chunk /\ chunk' = 2 * chunk /\ list_alloc' = heap + 1
        /\ local' = [local EXCEPT ![t] = heap]
        /\ link' = [s \in Shares |-> IF s \in heap + 1 .. heap + 2 * chunk - 1
                                     THEN Chain(heap + 1, heap + 2 * chunk - 1)[s] ELSE link[s]]
    BY <1>0, <1>1, <1>11 DEF AllocChunk, TypeOK
  <2>2. /\ heap \in Shares /\ heap + 1 \in Shares /\ heap' \in Base + 1 .. MaxShares + 3
        /\ chunk' \in Nat \ {0}
    BY <1>1, <2>1
  <2>3. link' \in [Shares -> {NULL, Owned, Waited} \cup Shares]
    <3>1. ASSUME NEW s \in Shares
          PROVE  (IF s \in heap + 1 .. heap + 2 * chunk - 1
                  THEN Chain(heap + 1, heap + 2 * chunk - 1)[s] ELSE link[s])
                   \in {NULL, Owned, Waited} \cup Shares
      <4>1. CASE s \in heap + 1 .. heap + 2 * chunk - 1
        <5>1. Chain(heap + 1, heap + 2 * chunk - 1)[s]
                = IF s = heap + 2 * chunk - 1 THEN NULL ELSE s + 1
          BY <4>1 DEF Chain
        <5>2. s # heap + 2 * chunk - 1 => s + 1 \in Shares
          BY <1>1, <2>1, <4>1
        <5> QED BY <4>1, <5>1, <5>2
      <4>2. CASE s \notin heap + 1 .. heap + 2 * chunk - 1
        BY <1>0, <4>2 DEF TypeOK
      <4> QED BY <4>1, <4>2
    <3> QED BY <2>1, <3>1
  <2>4. pc' \in [Threads -> Places \cup {"done"}]
    BY <1>0, <1>11 DEF AllocChunk, TypeOK, Goto, Places, Getting
  <2>5. local' \in [Threads -> Shares \cup {0, 1}] /\ list_alloc' \in Shares \cup {NULL}
    BY <1>0, <2>1, <2>2 DEF TypeOK
  <2>6. UNCHANGED <<threads_completed, ids, content, copyprivate, region, list_free, to_free, cancelled,
                    awaited, phase, work_share, last_ws, pos>>
    BY <1>11 DEF AllocChunk, barrier_vars
  <2> HIDE <1>11, <2>1
  <2> QED BY <1>0, <2>2, <2>3, <2>4, <2>5, <2>6
      DEF TypeOK, Threads, Constructs, Last
<1>12. CASE InitShare(t)
  <2>1. local[t] \in Shares /\ pos[t] \in Nat
    BY <1>0, <1>12 DEF InitShare, Inv, Memory, InHand, Hand, Fresh, Facts
  <2> QED BY <1>0, <1>12, <2>1
      DEF TypeOK, InitShare, Goto, team_vars, list_vars, barrier_vars, Threads, Constructs, Last, Places
<1>13. CASE Publish(t)
  BY <1>0, <1>13
  DEF TypeOK, Publish, AfterPublish, Goto, team_vars, list_vars, barrier_vars, thread_vars, Threads,
      Constructs, Last, Places, Entered
<1>14. CASE PtrlockWake(t)
  BY <1>0, <1>14
  DEF TypeOK, PtrlockWake, AfterPublish, share_vars, team_vars, list_vars, barrier_vars, thread_vars, Threads,
      Constructs, Last, Places, Entered, Getting
<1>15. \A i \in {"none", "held", "freed", "twice"} : Released(i) \in {"none", "held", "freed", "twice"}
  BY DEF Released
<1>16. CASE EndNowait(t)
  <2>1. ids' \in [Shares -> {"none", "held", "freed", "twice"}]
    BY <1>0, <1>15, <1>16 DEF EndNowait, Retire, Fini, TypeOK
  <2>2. pc' \in [Threads -> Places \cup {"done"}]
    BY <1>0, <1>16 DEF EndNowait, Retire, TypeOK, Goto, Places, Pushing, Beyond
  <2>3. threads_completed' \in [Shares -> Nat]
    BY <1>0, <1>16 DEF EndNowait, TypeOK
  <2>4. to_free' \in Shares /\ local' \in [Threads -> Shares \cup {0, 1}]
    BY <1>0, <1>16 DEF EndNowait, Retire, TypeOK, NULL
  <2> QED BY <1>0, <1>16, <2>1, <2>2, <2>3, <2>4
      DEF TypeOK, EndNowait, list_vars, barrier_vars, Threads, Constructs, Last
<1>17. CASE EndArrive(t)
  <2>1. ids' \in [Shares -> {"none", "held", "freed", "twice"}]
    BY <1>0, <1>15, <1>17 DEF EndArrive, Retire, Fini, TypeOK
  <2>2. pc' \in [Threads -> Places \cup {"done"}]
    BY <1>0, <1>17 DEF EndArrive, Retire, TypeOK, Goto, Places, Pushing
  <2>3. last_ws' \in [Threads -> Shares \cup {NULL}] /\ awaited' \in Int
    BY <1>0, <1>17 DEF EndArrive, TypeOK
  <2>4. to_free' \in Shares /\ local' \in [Threads -> Shares \cup {0, 1}]
    BY <1>0, <1>17 DEF EndArrive, Retire, TypeOK, NULL
  <2> QED BY <1>0, <1>17, <2>1, <2>2, <2>3, <2>4
      DEF TypeOK, EndArrive, list_vars, Threads, Constructs, Last
<1>18. CASE CopyArrive(t)
  <2>1. pos[t] \in Nat
    BY <1>0 DEF Facts
  <2>2. pc' \in [Threads -> Places \cup {"done"}]
    BY <1>0, <1>18 DEF CopyArrive, TypeOK, Goto, Places, Opening
  <2>3. copyprivate' \in [Shares -> Nat] /\ awaited' \in Int
    BY <1>0, <1>18, <2>1 DEF CopyArrive, TypeOK
  <2>4. local' \in [Threads -> Shares \cup {0, 1}]
    BY <1>0, <1>18 DEF CopyArrive, TypeOK
  <2> QED BY <1>0, <1>18, <2>2, <2>3, <2>4
      DEF TypeOK, CopyArrive, team_vars, list_vars, Threads, Constructs, Last
<1>19. CASE FreeRead(t)
  BY <1>0, <1>19
  DEF TypeOK, FreeRead, Goto, team_vars, list_vars, barrier_vars, thread_vars, Threads, Constructs, Last,
      Places, Pushing
<1>20. CASE FreePush(t)
  <2>1. local[t] \in Shares
    BY <1>20 DEF FreePush, Inv, Memory, InHand, Hand, Pushing
  <2> QED BY <1>0, <1>20, <2>1
      DEF TypeOK, FreePush, Goto, share_vars, barrier_vars, thread_vars, Threads, Constructs, Last, Places,
          Pushing, Opening, Beyond
<1>21. CASE Open(t)
  <2>1. pc' \in [Threads -> Places \cup {"done"}]
    BY <1>0, <1>21 DEF Open, AfterBarrier, TypeOK, Goto, Places, Entered, Beyond
  <2>2. awaited' \in Int /\ phase' \in {0, 1}
    BY <1>0, <1>1, <1>21 DEF Open, TypeOK
  <2> QED BY <1>0, <1>21, <2>1, <2>2
      DEF TypeOK, Open, share_vars, team_vars, list_vars, thread_vars, Threads, Constructs, Last
<1>22. CASE LeaveBarrier(t)
  BY <1>0, <1>22
  DEF TypeOK, LeaveBarrier, AfterBarrier, Goto, share_vars, team_vars, list_vars, barrier_vars, thread_vars,
      Threads, Constructs, Last, Places, Entered, Beyond
<1>23. CASE Left(t)
  BY <1>0, <1>23
  DEF TypeOK, Left, Goto, share_vars, team_vars, list_vars, barrier_vars, Threads, Constructs, Last, Places,
      Beyond
<1>24. CASE EndRegion(t) \/ Cancelled(t) \/ Cancel(t)
  BY <1>0, <1>24
  DEF TypeOK, EndRegion, Cancelled, Cancel, Goto, share_vars, team_vars, list_vars, barrier_vars,
      thread_vars, Threads, Constructs, Last, Places, Beyond
<1> QED BY <1>2, <1>3, <1>4, <1>5, <1>6, <1>7, <1>8, <1>9, <1>10, <1>11, <1>12, <1>13, <1>14,
           <1>16, <1>17, <1>18, <1>19, <1>20, <1>21, <1>22, <1>23, <1>24 DEF Step

LEMMA StepKeeps ==
  ASSUME Assumptions, NEW t \in Threads, Running,
         Step(t) \/ Interrupted(t) \/ Cancel(t) \/ Cancelled(t)
  PROVE  Running'
<1>0. PICK F, d, m, b, home, rank : Inv(F, d, m, b, home, rank)
  BY DEF Running
<1>1. TypeOK'
  BY <1>0, TypeStep
<1>2. CASE \/ Start(t) \/ PtrlockLoad(t) \/ PtrlockOwn(t) \/ PtrlockFlag(t) \/ PtrlockWait(t)
           \/ PtrlockCheck(t) \/ PtrlockReturn(t) \/ Interrupted(t) \/ PtrlockWake(t)
  <2>1. Inv(F, d, m, b, home, rank)'
    BY <1>0, <1>1, <1>2, StartKeeps, LoadKeeps, OwnKeeps, FlagKeeps, WaitKeeps, CheckKeeps, ReturnKeeps,
       InterruptedKeeps, WakeKeeps
  <2> QED BY <2>1 DEF Running
<1>3. CASE AllocReadFree(t) \/ InitShare(t) \/ FreeRead(t)
  <2>1. Inv(F, d, m, b, home, rank)'
    BY <1>0, <1>1, <1>3, ReadFreeKeeps, InitShareKeeps, FreeReadKeeps
  <2> QED BY <2>1 DEF Running
<1>4. CASE AllocFromList(t) \/ AllocFromFree(t) \/ AllocChunk(t)
  <2>1. \E newhome, newrank : Inv(F, d, m, b, newhome, newrank)'
    BY <1>0, <1>1, <1>4, FromListKeeps, FromFreeKeeps, ChunkKeeps
  <2> QED BY <2>1 DEF Running
<1>5. CASE Publish(t)
  <2>1. \E G, newhome : Inv(G, d, m + 1, b, newhome, rank)'
    BY <1>0, <1>1, <1>5, PublishKeeps
  <2> QED BY <2>1 DEF Running
<1>6. CASE FreePush(t)
  <2>1. CASE list_free = link[local[t]]
    <3>1. \E newhome, newrank : Inv(F, d, m, b, newhome, newrank)'
      BY <1>0, <1>1, <1>6, <2>1, PushedKeeps
    <3> QED BY <3>1 DEF Running
  <2>2. CASE list_free # link[local[t]]
    <3>1. Inv(F, d, m, b, home, rank)'
      BY <1>0, <1>1, <1>6, <2>2, PushFailedKeeps
    <3> QED BY <3>1 DEF Running
  <2> QED BY <2>1, <2>2
<1>7. CASE EndNowait(t)
  <2>1. CASE threads_completed[work_share[t]] + 1 = nthreads
    <3>1. \E k, newhome : Inv(F, k, m, b, newhome, rank)'
      BY <1>0, <1>1, <1>7, <2>1, LastOutKeeps
    <3> QED BY <3>1 DEF Running
  <2>2. CASE threads_completed[work_share[t]] + 1 # nthreads
    <3>1. Inv(F, d, m, b, home, rank)'
      BY <1>0, <1>1, <1>7, <2>2, NotLastKeeps
    <3> QED BY <3>1 DEF Running
  <2> QED BY <2>1, <2>2
<1>8. CASE EndArrive(t)
  <2>1. CASE awaited = 1
    <3>1. \E k, newhome : Inv(F, k, m, b, newhome, rank)'
      BY <1>0, <1>1, <1>8, <2>1, ArriveLastKeeps
    <3> QED BY <3>1 DEF Running
  <2>2. CASE awaited # 1
    <3>1. Inv(F, d, m, b, home, rank)'
      BY <1>0, <1>1, <1>8, <2>2, ArriveWaitsKeeps
    <3> QED BY <3>1 DEF Running
  <2> QED BY <2>1, <2>2
<1>9. CASE Open(t)
  <2>1. \E k : Inv(F, d, m, k, home, rank)'
    BY <1>0, <1>1, <1>9, OpenKeeps
  <2> QED BY <2>1 DEF Running
<1>10. CASE CopyArrive(t) \/ LeaveBarrier(t) \/ Left(t) \/ EndRegion(t) \/ Cancel(t) \/ Cancelled(t)
  <2>1. Inv(F, d, m, b, home, rank)'
    BY <1>0, <1>1, <1>10, CopyArriveKeeps, LeaveBarrierKeeps, LeftKeeps, EndRegionKeeps, CancelKeeps,
       CancelledKeeps
  <2> QED BY <2>1 DEF Running
<1> QED BY <1>2, <1>3, <1>4, <1>5, <1>6, <1>7, <1>8, <1>9, <1>10 DEF Step

LEMMA EndKeeps ==
  ASSUME Assumptions, Running, TeamEnd
  PROVE  Over'
<1>0. PICK F, d, m, b, home, rank : Inv(F, d, m, b, home, rank)
  BY DEF Running
<1>1. TypeOK
  BY <1>0 DEF Inv
<1>2. \A i \in {"none", "held", "freed", "twice"} : Released(i) \in {"none", "held", "freed", "twice"}
  BY DEF Released
<1>3. ids' \in [Shares -> {"none", "held", "freed", "twice"}]
  BY <1>1, <1>2 DEF TeamEnd, Fini, TypeOK
<1>4. link' \in [Shares -> {NULL, Owned, Waited} \cup Shares]
  BY <1>1 DEF TeamEnd, TypeOK
<1>5. pc' \in [Threads -> Places \cup {"done"}]
  BY <1>1 DEF TeamEnd, TypeOK
<1>6. TypeOK'
  BY <1>1, <1>3, <1>4, <1>5
  DEF TeamEnd, TypeOK, team_vars, list_vars, barrier_vars, thread_vars, Threads, Constructs, Last
<1> QED BY <1>0, <1>6, TeamEndKeeps

(* Behind the end of the team nothing happens any more.                    *)
LEMMA NothingBehind ==
  ASSUME Assumptions, Over
  PROVE  /\ ~TeamEnd
         /\ \A t \in Threads : ~(Step(t) \/ Interrupted(t) \/ Cancel(t) \/ Cancelled(t))
<1>1. Master \in Threads
  BY Team DEF Assumptions, Over, TypeOK
<1>2. ~TeamEnd
  BY <1>1 DEF Over, TeamEnd
<1>3. ASSUME NEW t \in Threads, pc[t] = "done"
      PROVE  ~(Step(t) \/ Interrupted(t) \/ Cancel(t) \/ Cancelled(t))
  BY <1>3
  DEF Step, Start, PtrlockLoad, PtrlockOwn, PtrlockFlag, PtrlockWait, PtrlockCheck, PtrlockReturn,
      AllocFromList, AllocReadFree, AllocFromFree, AllocChunk, InitShare, Publish, PtrlockWake, EndNowait,
      EndArrive, CopyArrive, FreeRead, FreePush, Open, LeaveBarrier, Left, EndRegion, Interrupted,
      Cancel, Cancelled
<1> QED BY <1>2, <1>3 DEF Over

LEMMA StutterKeeps ==
  ASSUME IInv, UNCHANGED vars
  PROVE  IInv'
<1>1. UNCHANGED <<region, link, threads_completed, ids, content, copyprivate, list_alloc, list_free, chunk,
                  heap, to_free, cancelled, awaited, phase, work_share, last_ws, local, pos, pc>>
  BY DEF vars, share_vars, team_vars, list_vars, barrier_vars, thread_vars
<1>2. TypeOK => TypeOK'
  BY <1>1 DEF TypeOK, Threads, Constructs, Last
<1>3. \A home, rank : Lists(home, rank) => Lists(home, rank)'
  BY <1>1 DEF Lists, Listed
<1>4. ASSUME Running PROVE Running'
  <2>1. PICK F, d, m, b, home, rank : Inv(F, d, m, b, home, rank)
    BY <1>4 DEF Running
  <2>2. Alone'
    BY <1>1, <2>1 DEF Inv, Alone, Threads
  <2>3. Threaded(F, d, m)'
    BY <1>1, <2>1
    DEF Inv, Progress, Threaded, Place, Fits, Uses, Uncounted, Slow, Threads, Constructs, Last
  <2>4. Gated(d, b)'
    <3>1. Awaited(b)' = Awaited(b)
      BY <1>1 DEF Awaited, Arrived, Threads, Constructs
    <3> QED BY <1>1, <2>1, <3>1 DEF Inv, Progress, Gated, Gate, Threads, Constructs, Last
  <2>5. Completed(F, d, m)'
    <3>1. \A k : Out(k)' = Out(k) /\ MayOut(k)' = MayOut(k)
      BY <1>1 DEF Out, MayOut, Counted, Threads
    <3> QED BY <1>1, <2>1, <3>1 DEF Inv, Progress, Completed, Threads, Constructs, nthreads
  <2>6. Copied(F, d, m)'
    BY <1>1, <2>1 DEF Inv, Progress, Copied, Threads, Constructs
  <2>7. Memory(F, d, m, home, rank)'
    <3>1. InUse(F, d, m, home)' /\ Held(home)'
      BY <1>1, <2>1 DEF Inv, Memory, InUse, Held, Threads
    <3>2. InHand(home)'
      BY <1>1, <2>1 DEF Inv, Memory, InHand, Hand, Snapshot, Threads
    <3> QED BY <1>3, <2>1, <3>1, <3>2 DEF Inv, Memory
  <2>8. Inv(F, d, m, b, home, rank)'
    BY <1>1, <1>2, <2>1, <2>2, <2>3, <2>4, <2>5, <2>6, <2>7 DEF Inv, Progress, Last, Constructs
  <2> QED BY <2>8 DEF Running
<1>5. ASSUME Over PROVE Over'
  <2>1. PICK home, rank : Lists(home, rank)
    BY <1>5 DEF Over
  <2>2. Lists(home, rank)'
    BY <1>3, <2>1
  <2> QED BY <1>1, <1>2, <1>5, <2>2 DEF Over, Threads
<1> QED BY <1>4, <1>5 DEF IInv

(* The invariant holds all the time.                                       *)
LEMMA Invariant ==
  ASSUME Assumptions
  PROVE  Spec => []IInv
<1>1. Init => IInv
  BY InitHolds DEF IInv
<1>2. ASSUME IInv, [Next]_vars PROVE IInv'
  <2>1. CASE UNCHANGED vars
    BY <1>2, <2>1, StutterKeeps
  <2>2. CASE Over /\ Next
    BY <1>2, <2>2, StutterKeeps, NothingBehind DEF Next
  <2>3. CASE Running /\ Next
    BY <1>2, <2>3, StepKeeps, EndKeeps, StutterKeeps DEF Next, IInv
  <2> QED BY <1>2, <2>1, <2>2, <2>3 DEF IInv
<1> QED BY <1>1, <1>2, PTL DEF Spec

-----------------------------------------------------------------------------
(* The lists, walked.                                                      *)

(* What Reach computes: more at each step, and all that the last step      *)
(* leads to.                                                               *)
LEMMA ReachIs ==
  ASSUME NEW head, MaxShares \in Nat
  PROVE  \E R : /\ R[0] = {head}
                /\ \A i \in 0 .. MaxShares - 1 : R[i + 1] = R[i] \cup {link[s] : s \in R[i] \cap Shares}
                /\ Reach(head) = R[MaxShares] \cap Shares
<1> DEFINE More(before) == before \cup {link[s] : s \in before \cap Shares}
<1> DEFINE Is(R, n) == R = [i \in 0 .. n |-> IF i = 0 THEN {head} ELSE More(R[i - 1])]
<1> DEFINE Ok == {n \in Nat : \E R : Is(R, n)}
<1>1. 0 \in Ok
  <2>1. Is([i \in 0 .. 0 |-> {head}], 0)
    OBVIOUS
  <2> QED BY <2>1
<1>2. ASSUME NEW n \in Nat, n \in Ok PROVE n + 1 \in Ok
  <2>1. PICK R : Is(R, n)
    BY <1>2
  <2> HIDE DEF More
  <2>2. ASSUME NEW i \in 0 .. n
        PROVE  R[i] = IF i = 0 THEN {head} ELSE More(R[i - 1])
    BY <2>1
  <2>3. R[0] = {head}
    BY <2>2
  <2>a. \A i \in 1 .. n : R[i] = More(R[i - 1])
    BY <2>2
  <2> DEFINE Q == [i \in 0 .. n + 1 |-> IF i <= n THEN R[i] ELSE More(R[n])]
  <2>4. \A i \in 0 .. n : Q[i] = R[i]
    OBVIOUS
  <2>5. Q[n + 1] = More(R[n])
    OBVIOUS
  <2>6. Is(Q, n + 1)
    <3>1. ASSUME NEW i \in 0 .. n + 1
          PROVE  Q[i] = IF i = 0 THEN {head} ELSE More(Q[i - 1])
      <4>1. CASE i = 0
        BY <2>3, <2>4, <4>1
      <4>2. CASE i \in 1 .. n
        <5>1. i - 1 \in 0 .. n /\ i \in 0 .. n /\ i # 0
          BY <4>2
        <5>2. Q[i] = R[i] /\ Q[i - 1] = R[i - 1]
          BY <2>4, <5>1
        <5>3. Q[i] = More(Q[i - 1])
          BY <2>a, <4>2, <5>2
        <5> QED BY <5>1, <5>3
      <4>3. CASE i = n + 1
        <5>1. i - 1 = n /\ n \in 0 .. n /\ i # 0
          BY <4>3
        <5>2. Q[i - 1] = R[n]
          BY <2>4, <5>1
        <5>3. Q[i] = More(Q[i - 1])
          BY <2>5, <4>3, <5>2
        <5> QED BY <5>1, <5>3
      <4> QED BY <4>1, <4>2, <4>3
    <3>2. Q = [i \in 0 .. n + 1 |-> Q[i]]
      OBVIOUS
    <3> HIDE DEF Q
    <3> QED BY <3>1, <3>2
  <2>7. \E T : Is(T, n + 1)
    BY <2>6
  <2> QED BY <2>7
<1>3. MaxShares \in Ok
  <2> HIDE DEF Ok
  <2> QED BY <1>1, <1>2, Induction
<1> DEFINE Rec == CHOOSE R : Is(R, MaxShares)
<1>4. Is(Rec, MaxShares)
  BY <1>3
<1>5. Reach(head) = Rec[MaxShares] \cap Shares
  BY DEF Reach
<1> HIDE DEF Rec
<1>6. /\ Rec[0] = {head}
      /\ \A i \in 0 .. MaxShares - 1 : Rec[i + 1] = Rec[i] \cup {link[s] : s \in Rec[i] \cap Shares}
  <2>1. Rec[0] = {head}
    BY <1>4
  <2>2. ASSUME NEW i \in 0 .. MaxShares - 1 PROVE Rec[i + 1] = More(Rec[i])
    <3>1. i + 1 \in 0 .. MaxShares /\ i + 1 # 0 /\ (i + 1) - 1 = i
      OBVIOUS
    <3> HIDE DEF More
    <3> QED BY <1>4, <3>1
  <2> QED BY <2>1, <2>2
<1> QED BY <1>5, <1>6

LEMMA ReachWithin ==
  ASSUME MaxShares \in Nat, NEW head, NEW S \in SUBSET Shares, head \in Shares => head \in S,
         \A s \in S : link[s] \in Shares => link[s] \in S
  PROVE  Reach(head) \subseteq S
<1>1. PICK R : /\ R[0] = {head}
               /\ \A i \in 0 .. MaxShares - 1 : R[i + 1] = R[i] \cup {link[s] : s \in R[i] \cap Shares}
               /\ Reach(head) = R[MaxShares] \cap Shares
  BY ReachIs
<1> DEFINE Ok == {n \in Nat : n <= MaxShares => R[n] \cap Shares \subseteq S}
<1>2. 0 \in Ok
  BY <1>1
<1>3. ASSUME NEW n \in Nat, n \in Ok PROVE n + 1 \in Ok
  <2>1. SUFFICES ASSUME n + 1 <= MaxShares PROVE R[n + 1] \cap Shares \subseteq S
    OBVIOUS
  <2>2. R[n] \cap Shares \subseteq S
    BY <1>3, <2>1
  <2>3. R[n + 1] = R[n] \cup {link[s] : s \in R[n] \cap Shares}
    BY <1>1, <2>1
  <2> QED BY <2>2, <2>3
<1>4. MaxShares \in Ok
  <2> HIDE DEF Ok
  <2> QED BY <1>2, <1>3, Induction
<1> QED BY <1>1, <1>4

(* The walk from the head of a list meets all of it.                       *)
LEMMA ReachAll ==
  ASSUME MaxShares \in Nat, NEW home, NEW rank \in [Shares -> Int], NEW list, NEW head \in Shares \cup {NULL},
         Listed(home, rank, list, head),
         NEW s \in Shares, home[s] = list
  PROVE  s \in Reach(head)
<1>1. PICK R : /\ R[0] = {head}
               /\ \A i \in 0 .. MaxShares - 1 : R[i + 1] = R[i] \cup {link[u] : u \in R[i] \cap Shares}
               /\ Reach(head) = R[MaxShares] \cap Shares
  BY ReachIs
<1>2. /\ head \in Shares /\ home[head] = list
      /\ \A u \in Shares : home[u] = list =>
           /\ rank[u] <= rank[head]
           /\ u # head => \E v \in Shares : home[v] = list /\ link[v] = u /\ rank[u] = rank[v] - 1
           /\ \A v \in Shares : home[v] = list /\ rank[v] = rank[u] => v = u
  <2>1. head \in Shares /\ home[head] = list
    BY DEF Listed
  <2>2. ASSUME NEW u \in Shares, home[u] = list, u # head
        PROVE  \E v \in Shares : home[v] = list /\ link[v] = u /\ rank[u] = rank[v] - 1
    <3>1. PICK v \in Shares : home[v] = list /\ link[v] = u
      BY <2>2 DEF Listed
    <3>2. link[v] # NULL
      BY <3>1 DEF NULL, Shares
    <3> QED BY <3>1, <3>2 DEF Listed
  <2> QED BY <2>1, <2>2 DEF Listed
<1> DEFINE Above(u) == {v \in Shares : home[v] = list /\ rank[v] >= rank[u]}
<1>3. IsFiniteSet(Shares) /\ Cardinality(Shares) = MaxShares
  <2>1. IsFiniteSet(3 .. MaxShares + 2) /\ Cardinality(3 .. MaxShares + 2) = MaxShares
    BY FS_Interval
  <2> QED BY <2>1 DEF Shares
<1>4. \A u : IsFiniteSet(Above(u)) /\ Cardinality(Above(u)) \in Nat /\ Cardinality(Above(u)) <= MaxShares
  <2>1. \A u : Above(u) \subseteq Shares
    OBVIOUS
  <2> HIDE DEF Above
  <2> QED BY <1>3, <2>1, FS_Subset, FS_CardinalityType
<1> DEFINE Ok == {i \in Nat : \A u \in Shares : home[u] = list /\ rank[head] - rank[u] = i =>
                     Cardinality(Above(u)) >= i + 1 /\ (i <= MaxShares => u \in R[i])}
<1>5. 0 \in Ok
  <2>1. ASSUME NEW u \in Shares, home[u] = list, rank[head] - rank[u] = 0
        PROVE  Cardinality(Above(u)) >= 1 /\ u \in R[0]
    <3>1. u = head
      <4>1. rank[u] = rank[head]
        BY <1>2, <2>1
      <4> QED BY <1>2, <2>1, <4>1
    <3>2. u \in Above(u)
      BY <2>1
    <3>3. Cardinality(Above(u)) # 0
      <4> HIDE DEF Above
      <4> QED BY <1>4, <3>2, FS_EmptySet
    <3> HIDE DEF Above
    <3> QED BY <1>1, <1>4, <3>1, <3>3
  <2> HIDE DEF Above
  <2> QED BY <2>1
<1>6. ASSUME NEW i \in Nat, i \in Ok PROVE i + 1 \in Ok
  <2>1. ASSUME NEW u \in Shares, home[u] = list, rank[head] - rank[u] = i + 1
        PROVE  Cardinality(Above(u)) >= i + 2 /\ (i + 1 <= MaxShares => u \in R[i + 1])
    <3>1. u # head
      BY <1>2, <2>1
    <3>2. PICK v \in Shares : home[v] = list /\ link[v] = u /\ rank[u] = rank[v] - 1
      BY <1>2, <2>1, <3>1
    <3>3. rank[head] - rank[v] = i
      BY <1>2, <2>1, <3>2
    <3>4. Cardinality(Above(v)) >= i + 1 /\ (i <= MaxShares => v \in R[i])
      BY <1>6, <3>2, <3>3
    <3>5. u \notin Above(v) /\ Above(v) \cup {u} \subseteq Above(u)
      BY <2>1, <3>2
    <3>6. Cardinality(Above(u)) >= i + 2
      <4> HIDE DEF Above
      <4>1. Cardinality(Above(v) \cup {u}) = Cardinality(Above(v)) + 1
        BY <1>4, <3>5, FS_AddElement
      <4>2. Cardinality(Above(v) \cup {u}) <= Cardinality(Above(u))
        BY <1>4, <3>5, CardBelow
      <4> QED BY <1>4, <3>4, <4>1, <4>2
    <3>7. ASSUME i + 1 <= MaxShares PROVE u \in R[i + 1]
      <4>1. R[i + 1] = R[i] \cup {link[w] : w \in R[i] \cap Shares}
        BY <1>1, <3>7
      <4>2. v \in R[i] \cap Shares
        BY <3>2, <3>4, <3>7
      <4> QED BY <3>2, <4>1, <4>2
    <3> QED BY <3>6, <3>7
  <2> HIDE DEF Above
  <2> QED BY <2>1
<1>7. Nat \subseteq Ok
  <2> HIDE DEF Ok
  <2> QED BY <1>5, <1>6, Induction
<1>8. PICK i : i = rank[head] - rank[s]
  OBVIOUS
<1>9. i \in Nat
  BY <1>2, <1>8
<1>10. s \in R[i] /\ i + 1 <= MaxShares
  <2>1. Cardinality(Above(s)) >= i + 1 /\ (i <= MaxShares => s \in R[i])
    <3> HIDE DEF Above
    <3> QED BY <1>7, <1>8, <1>9
  <2> HIDE DEF Above
  <2> QED BY <1>4, <1>9, <2>1
<1> DEFINE Stays == {n \in Nat : i + n <= MaxShares => s \in R[i + n]}
<1>11. 0 \in Stays
  BY <1>9, <1>10
<1>12. ASSUME NEW n \in Nat, n \in Stays PROVE n + 1 \in Stays
  <2>1. SUFFICES ASSUME i + (n + 1) <= MaxShares PROVE s \in R[i + (n + 1)]
    OBVIOUS
  <2>2. s \in R[i + n] /\ i + n \in 0 .. MaxShares - 1 /\ i + (n + 1) = (i + n) + 1
    BY <1>9, <1>12, <2>1
  <2> QED BY <1>1, <2>2
<1>13. MaxShares - i \in Stays
  <2> HIDE DEF Stays
  <2>1. Nat \subseteq Stays
    BY <1>11, <1>12, Induction
  <2> QED BY <1>9, <1>10, <2>1
<1>14. s \in R[MaxShares]
  <2>1. i + (MaxShares - i) = MaxShares
    BY <1>9
  <2> QED BY <1>13, <2>1
<1> QED BY <1>1, <1>14

-----------------------------------------------------------------------------
(* What the invariant means.                                               *)

LEMMA ListsReached ==
  ASSUME Assumptions, TypeOK, NEW home, NEW rank, Lists(home, rank)
  PROVE  /\ OnAllocList = {s \in Shares : home[s] = "alloc"}
         /\ OnFreeList = {s \in Shares : home[s] = "free"}
<1>1. MaxShares \in Nat /\ NULL \notin Shares /\ rank \in [Shares -> Int]
  BY Sizes DEF Assumptions, Lists
<1>2. ASSUME NEW list, NEW head \in Shares \cup {NULL}, Listed(home, rank, list, head)
      PROVE  Reach(head) = {s \in Shares : home[s] = list}
  <2>1. Reach(head) \subseteq {s \in Shares : home[s] = list}
    <3>1. head \in Shares => home[head] = list
      BY <1>1, <1>2 DEF Listed
    <3>2. \A s \in Shares : home[s] = list /\ link[s] \in Shares => home[link[s]] = list
      BY <1>1, <1>2 DEF Listed
    <3> QED BY <1>1, <3>1, <3>2, ReachWithin
  <2>2. ASSUME NEW s \in Shares, home[s] = list PROVE s \in Reach(head)
    BY <1>1, <1>2, <2>2, ReachAll
  <2> QED BY <2>1, <2>2
<1>3. list_alloc \in Shares \cup {NULL} /\ list_free \in Shares \cup {NULL}
  BY DEF TypeOK
<1> QED BY <1>2, <1>3 DEF Lists, OnAllocList, OnFreeList

LEMMA SameShareHolds ==
  ASSUME Assumptions, IInv
  PROVE  SameShare
<1>1. CASE Over
  BY <1>1 DEF Over, SameShare, Inside
<1>2. CASE Running
  <2>1. PICK F, d, m, b, home, rank : Inv(F, d, m, b, home, rank)
    BY <1>2 DEF Running
  <2>2. ASSUME NEW t \in Threads, pc[t] \in Inside
        PROVE  /\ content[work_share[t]] = pos[t]
               /\ pc[t] # "publish" => pos[t] \in d .. m /\ work_share[t] = F[pos[t]]
               /\ pc[t] = "publish" => pos[t] = m + 1
    <3>1. Facts(F, d, m, b, t)
      BY <2>1, Thread
    <3>2. CASE pc[t] = "publish"
      BY <2>1, <3>1, <3>2 DEF Inv, Memory, InHand, Hand, Facts, Place, Uses, Owning
    <3>3. CASE pc[t] # "publish"
      <4>1. pos[t] \in d .. m /\ work_share[t] = F[pos[t]]
        BY <2>2, <3>1, <3>3 DEF Facts, Place, Uses, Inside, Getting
      <4> QED BY <2>1, <3>3, <4>1, UsedShares
    <3> QED BY <3>2, <3>3
  <2>3. ASSUME NEW t \in Threads, NEW u \in Threads, pc[t] \in Inside, pc[u] \in Inside, pos[u] = pos[t]
        PROVE  work_share[u] = work_share[t]
    <3>1. CASE pc[t] = "publish" /\ pc[u] = "publish"
      BY <2>1, <3>1 DEF Inv, Alone, Owning
    <3>2. CASE pc[t] # "publish" /\ pc[u] # "publish"
      BY <2>2, <2>3, <3>2
    <3>3. CASE (pc[t] = "publish") # (pc[u] = "publish")
      <4>1. m \in Nat /\ d \in Nat
        BY <2>1, Thread DEF Facts
      <4> QED BY <2>2, <2>3, <3>3, <4>1
    <3> QED BY <3>1, <3>2, <3>3
  <2> QED BY <2>2, <2>3 DEF SameShare
<1> QED BY <1>1, <1>2 DEF IInv

LEMMA CopyHolds ==
  ASSUME Assumptions, IInv
  PROVE  CopyDelivered
<1>1. CASE Over
  BY <1>1 DEF Over, CopyDelivered
<1>2. CASE Running
  <2>1. PICK F, d, m, b, home, rank : Inv(F, d, m, b, home, rank)
    BY <1>2 DEF Running
  <2>2. ASSUME NEW t \in Threads, pc[t] = "copy_end"
        PROVE  copyprivate[work_share[t]] = pos[t]
    <3>1. Facts(F, d, m, b, t)
      BY <2>1, Thread
    <3>a. PICK k : k = pos[t]
      OBVIOUS
    <3>2. k \in d + 1 .. m /\ work_share[t] = F[k] /\ Constructs[k] = "copy" /\ k >= 1
      BY <2>2, <3>1, <3>a DEF Facts, Place, Uses, Uncounted, Entered, Getting, Fits
    <3>3. k = b /\ b > 0
      <4>1. CASE k \in b + 1 .. Last
        BY <2>2, <3>1, <3>2, <3>a, <4>1 DEF Facts, Gate, BarrierKinds
      <4>2. CASE k \notin b + 1 .. Last
        BY <3>1, <3>2, <3>a, <4>2 DEF Facts, Gate
      <4> QED BY <4>1, <4>2
    <3>4. ASSUME NEW u \in Threads PROVE ~(pos[u] = k /\ pc[u] \in {"wake", "copy_body"})
      <4>1. Gate(b, pos[u], pc[u], local[u])
        BY <2>1 DEF Inv, Progress, Gated
      <4> QED BY <3>3, <4>1 DEF Gate, Beyond
    <3> QED BY <2>1, <3>2, <3>4, <3>a DEF Inv, Progress, Copied
  <2> QED BY <2>2 DEF CopyDelivered
<1> QED BY <1>1, <1>2 DEF IInv

LEMMA RecycledHolds ==
  ASSUME Assumptions, IInv
  PROVE  RecycledSharesUnused
<1>1. CASE Over
  <2>1. PICK home, rank : Lists(home, rank) /\ TypeOK /\ \A t \in Threads : pc[t] = "done"
    BY <1>1 DEF Over
  <2>2. OnAllocList \cap OnFreeList = {}
    BY <2>1, ListsReached
  <2> QED BY <2>1, <2>2 DEF RecycledSharesUnused
<1>2. CASE Running
  <2>1. PICK F, d, m, b, home, rank : Inv(F, d, m, b, home, rank)
    BY <1>2 DEF Running
  <2>2. /\ OnAllocList = {s \in Shares : home[s] = "alloc"}
        /\ OnFreeList = {s \in Shares : home[s] = "free"}
    BY <2>1, ListsReached DEF Inv, Memory
  <2>3. ASSUME NEW t \in Threads
        PROVE  home[work_share[t]] \notin {"alloc", "free"}
    <3>1. Facts(F, d, m, b, t)
      BY <2>1, Thread
    <3>2. CASE pc[t] = "publish"
      BY <2>1, <3>2 DEF Inv, Memory, InHand, Hand, Fresh
    <3>3. CASE pc[t] # "publish"
      <4>1. \E k \in d .. m : work_share[t] = F[k]
        BY <3>1, <3>3 DEF Facts, Place, Uses, Getting
      <4> QED BY <2>1, <4>1, UsedShares
    <3> QED BY <3>2, <3>3
  <2>4. ASSUME NEW t \in Threads, pc[t] \in {"init", "free", "free_open", "push", "push_open"}
        PROVE  home[local[t]] \notin {"alloc", "free"}
    BY <2>1, <2>4 DEF Inv, Memory, InHand, Hand, Fresh, Pushing
  <2> QED BY <2>2, <2>3, <2>4 DEF RecycledSharesUnused
<1> QED BY <1>1, <1>2 DEF IInv

LEMMA NoShareLostHolds ==
  ASSUME Assumptions, IInv
  PROVE  NoShareLost
<1>1. CASE Over
  BY <1>1 DEF Over, NoShareLost, IdsFreedOnce
<1>2. CASE Running
  <2>1. PICK F, d, m, b, home, rank : Inv(F, d, m, b, home, rank)
    BY <1>2 DEF Running
  <2>2. IdsFreedOnce
    <3>1. Master \in Threads /\ pc[Master] # "done"
      BY <2>1, Team DEF Assumptions, Inv, TypeOK, Progress, Threaded, Place
    <3> QED BY <2>1, <3>1 DEF IdsFreedOnce, Inv, Memory, Held
  <2>3. /\ OnAllocList = {s \in Shares : home[s] = "alloc"}
        /\ OnFreeList = {s \in Shares : home[s] = "free"}
        /\ ChainFrom[to_free] = {s \in Shares : home[s] = "use"}
    BY <2>1, ListsReached, ChainInUse DEF Inv, Memory
  <2>4. ASSUME NEW s \in Base .. heap - 1
        PROVE  s \in OnAllocList \cup OnFreeList \cup ChainFrom[to_free]
                       \cup {work_share[t] : t \in {u \in Threads : pc[u] = "publish"}}
                       \cup {local[t] : t \in {u \in Threads : pc[u] \in
                                               {"init", "free", "free_open", "push", "push_open"}}}
    <3>1. s \in Shares
      BY <2>1, Sizes DEF Inv, TypeOK, Assumptions, Shares, Base
    <3>2. home[s] \in {"use", "alloc", "free", "retired", "new"}
      <4>1. home[s] \in Homes /\ (home[s] = "heap" => s >= heap) /\ heap \in Int
        BY <2>1, <3>1 DEF Inv, Memory, Lists, TypeOK, Base
      <4>2. ~(s >= heap)
        BY <4>1
      <4> QED BY <4>1, <4>2 DEF Homes
    <3>3. CASE home[s] \in {"use", "alloc", "free"}
      BY <2>3, <3>1, <3>3
    <3>4. CASE home[s] = "new"
      <4>1. PICK t \in Threads : pc[t] \in Fresh /\ local[t] = s
        BY <2>1, <3>1, <3>4 DEF Inv, Memory, InHand
      <4>2. pc[t] = "init" \/ (pc[t] = "publish" /\ work_share[t] = s)
        BY <2>1, <4>1 DEF Inv, Memory, InHand, Hand, Fresh
      <4> QED BY <4>1, <4>2
    <3>5. CASE home[s] = "retired"
      <4>1. PICK t \in Threads : pc[t] \in Pushing /\ local[t] = s
        BY <2>1, <3>1, <3>5 DEF Inv, Memory, InHand
      <4> QED BY <4>1 DEF Pushing
    <3> QED BY <3>2, <3>3, <3>4, <3>5
  <2> QED BY <2>2, <2>4 DEF NoShareLost
<1> QED BY <1>1, <1>2 DEF IInv

-----------------------------------------------------------------------------
(* The theorems.                                                           *)

(* However far apart the threads of a team run, those in one construct     *)
(* share one work share, set up for this construct by the first of them.   *)
THEOREM OneSharePerConstruct == Spec => []SameShare
<1>1. IInv => SameShare
  BY SameShareHolds, ConstantsAssumption DEF Assumptions
<1>2. Spec => []IInv
  BY Invariant, ConstantsAssumption DEF Assumptions
<1> QED BY <1>1, <1>2, PTL

(* A share on the allocation list or on the free list of a team is the     *)
(* current share of nobody, and on one of the two lists only:              *)
(* gomp_work_share_start never hands out what some thread still looks at,  *)
(* whatever the pushes of free_work_share and the one owner of the pointer *)
(* lock do to the lists.                                                   *)
THEOREM NoShareReused == Spec => []RecycledSharesUnused
<1>1. IInv => RecycledSharesUnused
  BY RecycledHolds, ConstantsAssumption DEF Assumptions
<1>2. Spec => []IInv
  BY Invariant, ConstantsAssumption DEF Assumptions
<1> QED BY <1>1, <1>2, PTL

(* Every share that the team owns is on one of its lists, in use or in the *)
(* hands of one thread, and what has been malloced for it is freed exactly *)
(* once, whether the region ends or is cancelled.                          *)
THEOREM EveryShareKept == Spec => []NoShareLost
<1>1. IInv => NoShareLost
  BY NoShareLostHolds, ConstantsAssumption DEF Assumptions
<1>2. Spec => []IInv
  BY Invariant, ConstantsAssumption DEF Assumptions
<1> QED BY <1>1, <1>2, PTL

(* Every thread leaves a single copyprivate construct with the data of the *)
(* thread that executed it.                                                *)
THEOREM CopyprivateDelivered == Spec => []CopyDelivered
<1>1. IInv => CopyDelivered
  BY CopyHolds, ConstantsAssumption DEF Assumptions
<1>2. Spec => []IInv
  BY Invariant, ConstantsAssumption DEF Assumptions
<1> QED BY <1>1, <1>2, PTL
=============================================================================
