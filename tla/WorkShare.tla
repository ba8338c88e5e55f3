------------------------------ MODULE WorkShare ------------------------------
(***************************************************************************)
(* The work-sharing queue of a team: work.c with the pointer lock of       *)
(* config/linux/ptrlock.{h,c} it hangs on, as the loop, sections and       *)
(* single copyprivate constructs use it.  Threads meet the same sequence   *)
(* of constructs, each at its own pace; the first to reach one allocates   *)
(* and initialises its work share and links it to the one before, and the  *)
(* last to leave one recycles the one before it.                           *)
(*                                                                         *)
(* A work share is an address above 2.  Its field next_ws, a pointer lock, *)
(* and its field next_free are a union in libgomp.h: both are link[ws].    *)
(* The team barrier is the one of TeamBarrier, here in three steps: to     *)
(* arrive, to open it as the last thread, to leave it.                     *)
(***************************************************************************)
EXTENDS Integers, Sequences, FiniteSets

CONSTANTS
  Master,     \* the thread that ends the team
  Regions,    \* the regions a team may be started for, each with the
              \*   team,       its threads
              \*   constructs, the kinds of those met, in order (see Kinds)
              \*   ordered,    the indices of those started with ordered = true
              \*   cancellers, the threads that may cancel the region
  Chunk,      \* initial work_share_chunk, the length of work_shares (8)
  MaxShares   \* the number of work shares the heap has room for

(* "barrier": ends with gomp_work_share_end; "cancel": ends with           *)
(* gomp_work_share_end_cancel; "nowait": ends with                         *)
(* gomp_work_share_end_nowait; "copy": single copyprivate.                 *)
Kinds == {"barrier", "cancel", "nowait", "copy"}

(* What the constants are.                                                 *)
RegionsAssumption ==
  \A r \in Regions : /\ Master \in r.team /\ IsFiniteSet(r.team) /\ r.cancellers \subseteq r.team
                     /\ r.constructs \in Seq(Kinds) /\ r.ordered \subseteq 1 .. Len(r.constructs)
SizeAssumption == MaxShares \in Nat /\ Chunk \in 2 .. MaxShares
ASSUME ConstantsAssumption == RegionsAssumption /\ SizeAssumption

NULL   == 0
Owned  == 1     \* ptrlock: "Owned by me, I get to write a pointer"
Waited == 2     \* ptrlock: "Some thread is waiting on the ptrlock"

Shares == 3 .. MaxShares + 2
Base   == 3     \* &team->work_shares[0]

VARIABLES
  region,     \* the region of this team
  link,       \* link[ws]: the union of next_ws and next_free
  threads_completed,
  ids,        \* ids[ws]: ordered_team_ids "none", "held" (malloced), "freed" or "twice"
  content,    \* content[ws]: the construct its first thread has set it up for
  copyprivate,\* copyprivate[ws]: the construct whose data it carries
  list_alloc, \* team->work_share_list_alloc
  list_free,  \* team->work_share_list_free
  chunk,      \* team->work_share_chunk
  heap,       \* the first address not yet malloced
  to_free,    \* team->work_shares_to_free
  cancelled,  \* BAR_CANCELLED of the team barrier, and team->team_cancelled
  awaited, phase,             \* the team barrier
  work_share, last_ws,        \* thr->ts.work_share and last_work_share
  local,      \* local[t]: a pointer the running function holds
  pos,        \* pos[t]: the construct t is in, or has left last
  pc

Threads    == region.team
Constructs == region.constructs
nthreads   == Cardinality(Threads)

list_vars    == <<region, list_alloc, list_free, chunk, heap>>
team_vars    == <<list_vars, to_free, cancelled>>
barrier_vars == <<awaited, phase>>
share_vars   == <<link, threads_completed, ids, content, copyprivate>>
thread_vars  == <<work_share, last_ws, local, pos>>
vars == <<share_vars, team_vars, barrier_vars, thread_vars, pc>>

Goto(t, place) == pc' = [pc EXCEPT ![t] = place]

(* A chain of free work shares at addresses first .. last.                 *)
Chain(first, last) == [s \in first .. last |-> IF s = last THEN NULL ELSE s + 1]

(* gomp_new_team; the first of the team's own shares is the current one.   *)
Init ==
  /\ region \in Regions
  /\ link = [s \in Shares |-> IF s \in Base + 1 .. Base + Chunk - 1
                              THEN Chain(Base + 1, Base + Chunk - 1)[s]
                              ELSE NULL]
  /\ threads_completed = [s \in Shares |-> 0]
  /\ ids = [s \in Shares |-> "none"]
  /\ content = [s \in Shares |-> 0]
  /\ copyprivate = [s \in Shares |-> 0]
  /\ list_alloc = Base + 1
  /\ list_free = NULL
  /\ chunk = Chunk
  /\ heap = Base + Chunk
  /\ to_free = Base
  /\ cancelled = FALSE
  /\ awaited = nthreads
  /\ phase = 0
  /\ work_share = [t \in Threads |-> Base]
  /\ last_ws = [t \in Threads |-> NULL]
  /\ local = [t \in Threads |-> NULL]
  /\ pos = [t \in Threads |-> 0]
  /\ pc = [t \in Threads |-> "outside"]

Kind(t) == Constructs[pos[t]]

-----------------------------------------------------------------------------
(* gomp_work_share_start: gomp_ptrlock_get on the current share's next_ws. *)

Start(t) ==
  /\ pc[t] = "outside"
  /\ pos[t] < Len(Constructs)
  /\ pos' = [pos EXCEPT ![t] = @ + 1]
  /\ last_ws' = [last_ws EXCEPT ![t] = work_share[t]]
  /\ Goto(t, "get")
  /\ UNCHANGED <<share_vars, team_vars, barrier_vars, work_share, local>>

(* Thread t joins the construct whose share it has found.                  *)
Join(t, ws) == /\ work_share' = [work_share EXCEPT ![t] = ws]
               /\ Goto(t, IF Kind(t) = "copy" THEN "copy_arrive" ELSE "body")

PtrlockLoad(t) ==
  /\ pc[t] = "get"
  /\ IF link[work_share[t]] > 2
     THEN Join(t, link[work_share[t]])
     ELSE Goto(t, "get_cas") /\ UNCHANGED work_share
  /\ UNCHANGED <<share_vars, team_vars, barrier_vars, last_ws, local, pos>>

(* mutant: the lock is taken with a load and a store, no compare *)
PtrlockOwn_NoCompare(t) ==
  /\ pc[t] = "get_cas"
  /\ IF link[work_share[t]] \in {NULL, Owned}
     THEN link' = [link EXCEPT ![work_share[t]] = Owned] /\ Goto(t, "alloc")
     ELSE Goto(t, "slow") /\ UNCHANGED link
  /\ UNCHANGED <<threads_completed, ids, content, copyprivate, team_vars, barrier_vars,
                 thread_vars>>

PtrlockOwn(t) ==
  /\ pc[t] = "get_cas"
  /\ IF link[work_share[t]] = NULL
     THEN link' = [link EXCEPT ![work_share[t]] = Owned] /\ Goto(t, "alloc")
     ELSE Goto(t, "slow") /\ UNCHANGED link
  /\ UNCHANGED <<threads_completed, ids, content, copyprivate, team_vars, barrier_vars,
                 thread_vars>>

(* gomp_ptrlock_get_slow: 1 becomes 2, then wait for as long as it is 2.   *)
PtrlockFlag(t) ==
  /\ pc[t] = "slow"
  /\ link' = IF link[work_share[t]] = Owned
             THEN [link EXCEPT ![work_share[t]] = Waited] ELSE link
  /\ Goto(t, "slow_wait")
  /\ UNCHANGED <<threads_completed, ids, content, copyprivate, team_vars, barrier_vars,
                 thread_vars>>

(* do_wait (2), whichever way it returns.                                  *)
PtrlockWait(t) ==
  /\ pc[t] = "slow_wait"
  /\ \/ Goto(t, IF link[work_share[t]] = Waited THEN "asleep" ELSE "slow_check")
     \/ link[work_share[t]] # Waited /\ Goto(t, "slow_check")
  /\ UNCHANGED <<share_vars, team_vars, barrier_vars, thread_vars>>

(* The load of the loop's condition, and of the pointer after the loop.    *)
PtrlockCheck(t) ==
  /\ pc[t] = "slow_check"
  /\ Goto(t, IF link[work_share[t]] = Waited THEN "slow_wait" ELSE "slow_load")
  /\ UNCHANGED <<share_vars, team_vars, barrier_vars, thread_vars>>

PtrlockReturn(t) ==
  /\ pc[t] = "slow_load"
  /\ Join(t, link[work_share[t]])
  /\ UNCHANGED <<share_vars, team_vars, barrier_vars, last_ws, local, pos>>

Interrupted(t) ==
  /\ pc[t] = "asleep"
  /\ Goto(t, "slow_check")
  /\ UNCHANGED <<share_vars, team_vars, barrier_vars, thread_vars>>

-----------------------------------------------------------------------------
(* alloc_work_share, run by the owner of the pointer lock. *)

AllocFromList(t) ==
  /\ pc[t] = "alloc"
  /\ list_alloc # NULL
  /\ local' = [local EXCEPT ![t] = list_alloc]
  /\ list_alloc' = link[list_alloc]
  /\ Goto(t, "init")
  /\ UNCHANGED <<share_vars, region, list_free, chunk, heap, to_free, cancelled, barrier_vars,
                 work_share, last_ws, pos>>

(* The read of work_share_list_free, which others may push on meanwhile.   *)
AllocReadFree(t) ==
  /\ pc[t] = "alloc"
  /\ list_alloc = NULL
  /\ local' = [local EXCEPT ![t] = list_free]
  /\ Goto(t, "alloc_free")
  /\ UNCHANGED <<share_vars, team_vars, barrier_vars, work_share, last_ws, pos>>

(* The free list was empty, or had nothing but the head that stays.        *)
NothingToTake(t) == local[t] # NULL => link[local[t]] = NULL

(* mutant: the head of the free list is taken too, and the list emptied    *)
AllocFromFree_TakesHead(t) ==
  LET head == local[t] IN
  /\ pc[t] = "alloc_free"
  /\ ~NothingToTake(t)
  /\ local' = [local EXCEPT ![t] = head]
  /\ list_alloc' = link[head]
  /\ list_free' = NULL
  /\ link' = link
  /\ Goto(t, "init")
  /\ UNCHANGED <<threads_completed, ids, content, copyprivate, region, chunk, heap, to_free,
                 cancelled, barrier_vars, work_share, last_ws, pos>>

(* All free shares but the first move to the allocation list: the first is *)
(* left so that a concurrent push never finds its head reused.             *)
AllocFromFree(t) ==
  LET head == local[t] IN
  /\ pc[t] = "alloc_free"
  /\ ~NothingToTake(t)
  /\ local' = [local EXCEPT ![t] = link[head]]
  /\ list_alloc' = link[link[head]]
  /\ link' = [link EXCEPT ![head] = NULL]
  /\ Goto(t, "init")
  /\ UNCHANGED <<threads_completed, ids, content, copyprivate, region, list_free, chunk,
                 heap, to_free, cancelled, barrier_vars, work_share, last_ws, pos>>

(* mutant: the chain of the new chunk does not skip the share returned *)
AllocChunk_KeepsFirst(t) ==
  /\ pc[t] = "alloc_free"
  /\ NothingToTake(t)
  /\ heap + 2 * chunk - 1 \in Shares
  /\ LET last == heap + 2 * chunk - 1 IN
       link' = [s \in Shares |-> IF s \in heap .. last THEN Chain(heap, last)[s] ELSE link[s]]
  /\ chunk' = 2 * chunk
  /\ heap' = heap + 2 * chunk
  /\ list_alloc' = heap
  /\ local' = [local EXCEPT ![t] = heap]
  /\ Goto(t, "init")
  /\ UNCHANGED <<threads_completed, ids, content, copyprivate, region, list_free, to_free,
                 cancelled, barrier_vars, work_share, last_ws, pos>>

(* A chunk of twice the size; its first share is returned, the others go   *)
(* to the allocation list.  MaxShares bounds the model's heap.             *)
AllocChunk(t) ==
  /\ pc[t] = "alloc_free"
  /\ NothingToTake(t)
  /\ heap + 2 * chunk - 1 \in Shares
  /\ LET last == heap + 2 * chunk - 1 IN
       link' = [s \in Shares |-> IF s \in heap + 1 .. last
                                 THEN Chain(heap + 1, last)[s] ELSE link[s]]
  /\ chunk' = 2 * chunk
  /\ heap' = heap + 2 * chunk
  /\ list_alloc' = heap + 1
  /\ local' = [local EXCEPT ![t] = heap]
  /\ Goto(t, "init")
  /\ UNCHANGED <<threads_completed, ids, content, copyprivate, region, list_free, to_free,
                 cancelled, barrier_vars, work_share, last_ws, pos>>

(* gomp_init_work_share, the rest of gomp_work_share_start, and the        *)
(* caller's own initialisation (gomp_loop_init and the like), all before   *)
(* anyone else can reach the share.  Ordered shares are taken to need more *)
(* team ids than fit inline, so that ordered_team_ids is malloced.         *)
InitShare(t) ==
  LET ws == local[t] IN
  /\ pc[t] = "init"
  /\ link' = [link EXCEPT ![ws] = NULL]
  /\ threads_completed' = [threads_completed EXCEPT ![ws] = 0]
  /\ ids' = [ids EXCEPT ![ws] = IF pos[t] \in region.ordered THEN "held" ELSE "none"]
  /\ content' = [content EXCEPT ![ws] = pos[t]]
  /\ work_share' = [work_share EXCEPT ![t] = ws]
  /\ Goto(t, "publish")
  /\ UNCHANGED <<copyprivate, team_vars, barrier_vars, last_ws, local, pos>>

AfterPublish(t) == IF Kind(t) = "copy" THEN "copy_body" ELSE "body"

(* mutant: waiters are woken only when the lock was not waited for *)
Publish_NoWake(t) ==
  /\ pc[t] = "publish"
  /\ link' = [link EXCEPT ![last_ws[t]] = work_share[t]]
  /\ Goto(t, AfterPublish(t))
  /\ UNCHANGED <<threads_completed, ids, content, copyprivate, team_vars, barrier_vars,
                 thread_vars>>

(* gomp_work_share_init_done: the exchange of gomp_ptrlock_set.            *)
Publish(t) ==
  /\ pc[t] = "publish"
  /\ link' = [link EXCEPT ![last_ws[t]] = work_share[t]]
  /\ Goto(t, IF link[last_ws[t]] # Owned THEN "wake" ELSE AfterPublish(t))
  /\ UNCHANGED <<threads_completed, ids, content, copyprivate, team_vars, barrier_vars,
                 thread_vars>>

(* gomp_ptrlock_set_slow wakes those asleep on that one pointer lock.      *)
PtrlockWake(t) ==
  /\ pc[t] = "wake"
  /\ pc' = [u \in Threads |->
              IF u = t THEN AfterPublish(t)
              ELSE IF pc[u] = "asleep" /\ work_share[u] = last_ws[t] THEN "slow_check"
              ELSE pc[u]]
  /\ UNCHANGED <<share_vars, team_vars, barrier_vars, thread_vars>>

-----------------------------------------------------------------------------
(* free_work_share: gomp_fini_work_share, then a lock-free push. *)

(* ordered_team_ids after one more gomp_fini_work_share.                   *)
Released(i) == CASE i = "none" -> "none" [] i = "held" -> "freed" [] OTHER -> "twice"

Fini(ws) == ids' = [ids EXCEPT ![ws] = Released(@)]

(* Thread t, the last to leave its construct, retires the share before it. *)
Retire(t, next) ==
  /\ to_free' = work_share[t]
  /\ local' = [local EXCEPT ![t] = last_ws[t]]
  /\ Fini(last_ws[t])
  /\ Goto(t, next)

FreeRead(t) ==
  /\ pc[t] \in {"free", "free_open"}
  /\ link' = [link EXCEPT ![local[t]] = list_free]
  /\ Goto(t, IF pc[t] = "free" THEN "push" ELSE "push_open")
  /\ UNCHANGED <<threads_completed, ids, content, copyprivate, team_vars, barrier_vars,
                 thread_vars>>

(* The compare-and-swap of the push.                                       *)
FreePush(t) ==
  /\ pc[t] \in {"push", "push_open"}
  /\ IF list_free = link[local[t]]
     THEN /\ list_free' = local[t]
          /\ Goto(t, IF pc[t] = "push" THEN "left" ELSE "open")
     ELSE /\ Goto(t, IF pc[t] = "push" THEN "free" ELSE "free_open")
          /\ UNCHANGED list_free
  /\ UNCHANGED <<share_vars, region, list_alloc, chunk, heap, to_free, cancelled, barrier_vars,
                 thread_vars>>

-----------------------------------------------------------------------------
(* Leaving a construct. *)

(* gomp_work_share_end_nowait: the count and, for the last, the recycling. *)
EndNowait(t) ==
  /\ \/ pc[t] = "body" /\ Kind(t) = "nowait"
     \/ pc[t] = "copy_end"
  /\ threads_completed' = [threads_completed EXCEPT ![work_share[t]] = @ + 1]
  /\ IF threads_completed[work_share[t]] + 1 = nthreads
     THEN Retire(t, "free")
     ELSE Goto(t, "left") /\ UNCHANGED <<to_free, ids, local>>
  /\ UNCHANGED <<link, content, copyprivate, list_vars, cancelled,
                 barrier_vars, work_share, last_ws, pos>>

(* gomp_work_share_end and gomp_work_share_end_cancel: arriving at the     *)
(* barrier; the last thread recycles before it opens it.                   *)
EndArrive(t) ==
  /\ pc[t] = "body"
  /\ Kind(t) \in {"barrier", "cancel"}
  /\ awaited' = awaited - 1
  /\ IF awaited = 1
     THEN Retire(t, "free_open")
     ELSE /\ local' = [local EXCEPT ![t] = phase]
          /\ Goto(t, "wait")
          /\ UNCHANGED <<to_free, ids>>
  /\ last_ws' = IF Kind(t) = "cancel" THEN [last_ws EXCEPT ![t] = NULL] ELSE last_ws
  /\ UNCHANGED <<link, threads_completed, content, copyprivate, list_vars, cancelled,
                 phase, work_share, pos>>

(* mutant: the data is not stored before the barrier *)
CopyArrive_NoData(t) ==
  /\ pc[t] \in {"copy_body", "copy_arrive"}
  /\ awaited' = awaited - 1
  /\ IF awaited = 1
     THEN Goto(t, "open") /\ UNCHANGED local
     ELSE local' = [local EXCEPT ![t] = phase] /\ Goto(t, "wait")
  /\ copyprivate' = copyprivate
  /\ UNCHANGED <<link, threads_completed, ids, content, team_vars, phase, work_share,
                 last_ws, pos>>

(* Single copyprivate: the first thread executes the clause and leaves the *)
(* data; its barrier, and then everybody leaves without another one.       *)
CopyArrive(t) ==
  /\ pc[t] \in {"copy_body", "copy_arrive"}
  /\ awaited' = awaited - 1
  /\ IF awaited = 1
     THEN Goto(t, "open") /\ UNCHANGED local
     ELSE local' = [local EXCEPT ![t] = phase] /\ Goto(t, "wait")
  /\ copyprivate' = IF pc[t] = "copy_body"
                    THEN [copyprivate EXCEPT ![work_share[t]] = pos[t]]
                    ELSE copyprivate
  /\ UNCHANGED <<link, threads_completed, ids, content, team_vars, phase, work_share,
                 last_ws, pos>>

AfterBarrier(t) == IF Kind(t) = "copy" THEN "copy_end" ELSE "left"

Open(t) ==
  /\ pc[t] = "open"
  /\ awaited' = nthreads
  /\ phase' = 1 - phase
  /\ Goto(t, AfterBarrier(t))
  /\ UNCHANGED <<share_vars, team_vars, thread_vars>>

LeaveBarrier(t) ==
  /\ pc[t] = "wait"
  /\ phase # local[t]
  /\ ~(cancelled /\ Kind(t) = "cancel")
  /\ Goto(t, AfterBarrier(t))
  /\ UNCHANGED <<share_vars, team_vars, barrier_vars, thread_vars>>

(* thr->ts.last_work_share = NULL, the last thing the ends do, except that *)
(* the cancellable one has done it before its barrier.                     *)
Left(t) ==
  /\ pc[t] = "left"
  /\ last_ws' = [last_ws EXCEPT ![t] = NULL]
  /\ Goto(t, "outside")
  /\ UNCHANGED <<share_vars, team_vars, barrier_vars, work_share, local, pos>>

-----------------------------------------------------------------------------
(* #pragma omp cancel parallel, and the end of the team. *)

(* The canceller, and a thread that meets a cancellation point or waits in *)
(* a cancellable barrier, branch to the end of the region.                 *)
Cancel(t) ==
  /\ t \in region.cancellers
  /\ pc[t] \in {"outside", "body"}
  /\ cancelled' = TRUE
  /\ Goto(t, "ended")
  /\ UNCHANGED <<share_vars, list_vars, to_free, barrier_vars,
                 thread_vars>>

Cancelled(t) ==
  /\ cancelled
  /\ \/ pc[t] \in {"outside", "body"}
     \/ pc[t] = "wait" /\ Kind(t) = "cancel"
  /\ Goto(t, "ended")
  /\ UNCHANGED <<share_vars, team_vars, barrier_vars, thread_vars>>

EndRegion(t) ==
  /\ pc[t] = "outside"
  /\ pos[t] = Len(Constructs)
  /\ Goto(t, "ended")
  /\ UNCHANGED <<share_vars, team_vars, barrier_vars, thread_vars>>

(* The shares from ws on, along next_ws.                                   *)
ChainFrom[ws \in Shares] == IF link[ws] > 2 THEN {ws} \cup ChainFrom[link[ws]] ELSE {ws}

(* mutant: a cancelled team is ended like any other *)
TeamEnd_IgnoresCancel ==
  /\ \A t \in Threads : pc[t] = "ended"
  /\ Fini(work_share[Master])
  /\ pc' = [t \in Threads |-> "done"]
  /\ UNCHANGED <<link, threads_completed, content, copyprivate, team_vars, barrier_vars,
                 thread_vars>>

(* gomp_team_end behind the final barrier.  Without cancellation only the  *)
(* master's current share is still in use; with it, every share from       *)
(* work_shares_to_free on, the last of which is linked to itself.          *)
TeamEnd ==
  /\ \A t \in Threads : pc[t] = "ended"
  /\ IF cancelled
     THEN LET used == ChainFrom[to_free] IN
            /\ ids' = [s \in Shares |-> IF s \in used THEN Released(ids[s]) ELSE ids[s]]
            /\ link' = [s \in Shares |-> IF s \in used /\ link[s] = NULL THEN s ELSE link[s]]
     ELSE Fini(work_share[Master]) /\ UNCHANGED link
  /\ pc' = [t \in Threads |-> "done"]
  /\ UNCHANGED <<threads_completed, content, copyprivate, team_vars, barrier_vars, thread_vars>>

-----------------------------------------------------------------------------

Step(t) == \/ Start(t) \/ PtrlockLoad(t) \/ PtrlockOwn(t) \/ PtrlockFlag(t)
           \/ PtrlockWait(t) \/ PtrlockCheck(t) \/ PtrlockReturn(t)
           \/ AllocFromList(t) \/ AllocReadFree(t) \/ AllocFromFree(t) \/ AllocChunk(t)
           \/ InitShare(t) \/ Publish(t) \/ PtrlockWake(t)
           \/ EndNowait(t) \/ EndArrive(t) \/ CopyArrive(t) \/ FreeRead(t) \/ FreePush(t)
           \/ Open(t) \/ LeaveBarrier(t) \/ Left(t) \/ EndRegion(t)

AllDone == \A t \in Threads : pc[t] = "done"

Next == \/ \E t \in Threads : Step(t) \/ Interrupted(t) \/ Cancel(t) \/ Cancelled(t)
        \/ TeamEnd
        \/ AllDone /\ UNCHANGED vars

Spec == Init /\ [][Next]_vars

(* Every thread that is not blocked runs, every construct's body ends, and *)
(* a waiter in a cancellable barrier sees the cancellation.                *)
FairSpec == /\ Spec
            /\ \A t \in UNION {r.team : r \in Regions} :
                 /\ WF_vars(t \in Threads /\ Step(t))
                 /\ WF_vars(t \in Threads /\ pc[t] = "wait" /\ Cancelled(t))
            /\ WF_vars(TeamEnd)

-----------------------------------------------------------------------------

(* The places at which a thread has joined the construct at pos.           *)
Inside == {"publish", "wake", "body", "copy_body", "copy_arrive", "copy_end", "wait", "open",
           "free", "free_open", "push", "push_open", "left"}

(* However far apart they run, all threads of one construct share one work *)
(* share, and it is the one the first of them has set up for this very     *)
(* construct: never one still in use for an older, or recycled for a newer *)
(* construct.                                                              *)
SameShare ==
  \A t \in Threads : pc[t] \in Inside =>
    /\ content[work_share[t]] = pos[t]
    /\ \A u \in Threads : pc[u] \in Inside /\ pos[u] = pos[t] => work_share[u] = work_share[t]

Reach(head) ==
  LET R[n \in 0 .. MaxShares] ==
        IF n = 0 THEN {head}
        ELSE LET before == R[n - 1] IN before \cup {link[s] : s \in before \cap Shares}
  IN  R[MaxShares] \cap Shares

OnAllocList == Reach(list_alloc)
OnFreeList  == Reach(list_free)

(* A share that can be handed out again is nobody's current share and      *)
(* carries no pointer lock anyone may still look at, and no share can be   *)
(* handed out twice: the allocation list and the free list never meet,     *)
(* while one thread takes from one end and others push on the other.       *)
RecycledSharesUnused ==
  /\ OnAllocList \cap OnFreeList = {}
  /\ \A t \in Threads : pc[t] # "done" =>
       /\ work_share[t] \notin OnAllocList \cup OnFreeList
       /\ pc[t] \in {"init", "free", "free_open", "push", "push_open"}
            => local[t] \notin OnAllocList \cup OnFreeList

(* The malloced team ids of an ordered construct are freed with its share, *)
(* once, and none is left when the team has ended, cancelled or not.       *)
IdsFreedOnce ==
  /\ \A s \in Shares : ids[s] # "twice"
  /\ (\A t \in Threads : pc[t] = "done") => \A s \in Shares : ids[s] # "held"

(* No share is lost while the team runs: every one the team owns is on one *)
(* of the two lists, in use, or in the hands of one thread.  What it holds *)
(* is released with it, once.                                              *)
NoShareLost ==
  /\ IdsFreedOnce
  /\ (\E t \in Threads : pc[t] # "done") =>
       Base .. heap - 1 \subseteq
         OnAllocList \cup OnFreeList \cup ChainFrom[to_free]
           \cup {work_share[t] : t \in {u \in Threads : pc[u] = "publish"}}
           \cup {local[t] : t \in {u \in Threads : pc[u] \in
                                   {"init", "free", "free_open", "push", "push_open"}}}

(* Every thread leaves a single copyprivate construct with the data the    *)
(* executing thread left in this construct.                                *)
CopyDelivered ==
  \A t \in Threads : pc[t] = "copy_end" => copyprivate[work_share[t]] = pos[t]

(* Every thread gets through all constructs to the end of the team: none   *)
(* sleeps on a pointer lock that has been set.                             *)
TeamEnds == <>AllDone
=============================================================================
