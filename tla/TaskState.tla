------------------------------ MODULE TaskState ------------------------------
(***************************************************************************)
(* The data of the explicit tasks of a team: libgomp.h, the queues of      *)
(* priority_queue.{h,c}, and the dependences of task.c.  TaskTeam has what *)
(* the threads do with them.                                               *)
(*                                                                         *)
(* Tasks come from GOMP_taskloop and, in a build without the ARINC layer,  *)
(* which refuses it, from GOMP_task; only the latter have dependences.     *)
(***************************************************************************)
EXTENDS Integers, Sequences, FiniteSets, SequencesExt

CONSTANTS
  MaxThreads,  \* bound: the threads of a team
  MaxTasks,    \* bound: explicit and undeferred tasks of a region
  MaxGroups,   \* bound: taskgroups of a region
  MaxQueued,   \* tasks of a team beyond which new ones are undeferred (64 per thread)
  MaxPriority, \* gomp_max_task_priority_var
  Addrs,       \* the addresses in depend clauses
  Bodies,      \* Bodies[b]: the operations of a task
  Regions      \* regions: for every thread of the team the body of its implicit task

None == 0

(* Tasks by number, the implicit task of thread t being task t.            *)
Threads    == 1 .. MaxThreads
Explicit   == MaxThreads + 1 .. MaxThreads + MaxTasks
Tasks      == Threads \cup Explicit
Groups     == 1 .. MaxGroups
Priorities == 0 .. MaxPriority

(* The elements of a task's depend clauses, those of type "out" first.     *)
Depends == {d \in Seq([addr : Addrs, is_in : BOOLEAN]) :
              \A i, j \in DOMAIN d : i < j /\ d[i].is_in => d[j].is_in}

(* The operations: a taskloop with num_tasks tasks, with or without its    *)
(* taskgroup (nogroup), if clause and copy constructors (cpyfn); a task,   *)
(* which is like one with nogroup but for its depend clauses; waiting for  *)
(* children; a taskgroup; a barrier; cancel parallel and taskgroup.        *)
IsOp(o) ==
  \/ /\ o.op \in {"taskloop", "task"} /\ o.num_tasks \in 1 .. MaxTasks
     /\ o.priority \in Priorities /\ {o.nogroup, o.if, o.cpyfn} \subseteq BOOLEAN
     /\ o.body \in DOMAIN Bodies /\ o.depend \in Depends
     /\ IF o.op = "task" THEN o.num_tasks = 1 /\ o.nogroup ELSE o.depend = <<>>
  \/ o.op \in {"taskwait", "taskgroup_start", "taskgroup_end", "barrier", "barrier_cancel",
               "cancel_parallel", "cancel_taskgroup"}

ASSUME BodiesAssumption == \A b \in DOMAIN Bodies : \A i \in DOMAIN Bodies[b] : IsOp(Bodies[b][i])
ASSUME RegionsAssumption == \A r \in Regions : Len(r) \in Threads /\ Range(r) \subseteq DOMAIN Bodies
ASSUME BoundsAssumption ==
  {MaxThreads, MaxTasks, MaxGroups, MaxQueued, MaxPriority} \subseteq Nat

VARIABLES
  info,      \* info[k]: the struct gomp_task of k, the task that runs it, and its state
  children,  \* children[k]: its children_queue
  taskwait,  \* taskwait[k]: the struct gomp_taskwait of the call that k waits in
  group,     \* group[g]: a struct gomp_taskgroup
  team,      \* nthreads, task_queue, task_count, task_queued_count, task_running_count, task_lock
  bar,       \* the barrier: generation number and bits, awaited, awaited_final
  cur,       \* cur[t]: thr->task
  ip,        \* ip[k]: the operation of its body that k is at
  pc,        \* pc[k]: the step of the library it is at there, or "run"
  loc        \* loc[k]: local variables of that operation

vars == <<info, children, taskwait, group, team, bar, cur, ip, pc, loc>>

Body(k)  == Bodies[info[k].body]
Op(k)    == Body(k)[ip[k]]
Ended(k) == ip[k] > Len(Body(k))
Place(k) == IF Ended(k) THEN "end" ELSE Op(k).op

-----------------------------------------------------------------------------
(* Priority queues: a list, or once there is a priority above 0 a tree of  *)
(* lists until it is empty again.  Lists are circular: the head is first.  *)
(* last and lasts are last_parent_depends_on of the list and of the lists  *)
(* of the tree: the last of the tasks at the front that the parent waits   *)
(* for.  The list keeps its own while there is a tree.                     *)

EmptyQueue == [tree |-> FALSE, list |-> [p \in Priorities |-> <<>>],
               last |-> None, lasts |-> [p \in Priorities |-> None]]

IsEmpty(q) == \A p \in Priorities : q.list[p] = <<>>

Members(q) == UNION {Range(q.list[p]) : p \in Priorities}

(* The lists that q has when a task of priority p is inserted.             *)
For(q, p) == IF q.tree \/ p = 0 THEN q
             ELSE [q EXCEPT !.tree = TRUE,
                            !.lasts[0] = IF q.list[0] = <<>> THEN None ELSE q.last]

InsertBegin(q, s, p) == [For(q, p) EXCEPT !.list[p] = Reverse(s) \o @]
InsertEnd(q, s, p)   == [For(q, p) EXCEPT !.list[p] = @ \o s]

LastOf(q, p)     == IF q.tree THEN q.lasts[p] ELSE q.last
SetLast(q, p, k) == IF q.tree THEN [q EXCEPT !.lasts[p] = k] ELSE [q EXCEPT !.last = k]

Without(s, k) == SelectSeq(s, LAMBDA x : x # k)
After(s, x, k) == InsertAt(s, 1 + CHOOSE i \in DOMAIN s : s[i] = x, k)

Dequeue(q, k) ==
  LET p == info[k].priority
      list == [q.list EXCEPT ![p] = Without(@, k)] IN
  [q EXCEPT !.list = list,
            !.tree = @ /\ \E r \in Priorities : list[r] # <<>>,
            !.lasts[p] = IF list[p] = <<>> THEN None ELSE @]

(* Task k can run now: it comes before those its parent does not wait for. *)
InsertReady(q, k) ==
  LET p == info[k].priority
      r == For(q, p)
      s == r.list[p]
      last == LastOf(r, p)
      placed == [r EXCEPT !.list[p] = IF s # <<>> /\ last # None /\ ~info[k].awaited
                                      THEN After(s, last, k) ELSE <<k>> \o s] IN
  IF last = None /\ info[k].awaited THEN SetLast(placed, p, k) ELSE placed

(* The parent waits for task k, which can run: it goes to the front.       *)
Upgrade(q, k) ==
  LET p == info[k].priority
      s == q.list[p]
      last == LastOf(q, p) IN
  SetLast([q EXCEPT !.list[p] = IF last # None THEN After(Without(s, k), last, k)
                                ELSE <<k>> \o Without(s, k)], p, k)

(* mutant: only the head is moved *)
Downgrade_HeadOnly(q, k) ==
  LET s == q.list[info[k].priority] IN
  [q EXCEPT !.list[info[k].priority] = IF s[1] = k THEN Append(Without(s, k), k) ELSE s]

(* Task k is about to be tied: it goes behind the waiting tasks.           *)
Downgrade(q, k) ==
  LET p == info[k].priority
      s == q.list[p]
      i == CHOOSE j \in DOMAIN s : s[j] = k
      behind == i = 1 \/ (i < Len(s) /\ info[s[i + 1]].kind = "waiting")
      moved == IF behind THEN Append(Without(s, k), k) ELSE s
      before == Without(moved, k)
      prev == IF behind THEN Last(before) ELSE s[i - 1]
      placed == [q EXCEPT !.list[p] = moved] IN
  IF ~info[k].awaited \/ LastOf(q, p) # k THEN placed
  ELSE SetLast(placed, p, IF before = <<>> THEN None
                          ELSE IF info[prev].kind = "waiting" /\ info[prev].awaited THEN prev
                          ELSE None)

(* The priorities whose first task is waiting. *)
Ready(q) == {p \in Priorities : q.list[p] # <<>> /\ info[q.list[p][1]].kind = "waiting"}

Top(S) == CHOOSE p \in S : \A r \in S : r <= p

(* priority_queue_next_task from q alone: any head if there is no waiting  *)
(* task, which the callers only look at to see that.                       *)
NextTask(q) ==
  LET p == IF ~q.tree THEN 0
           ELSE IF Ready(q) # {} THEN Top(Ready(q))
           ELSE CHOOSE r \in Priorities : q.list[r] # <<>> IN
  q.list[p][1]

(* From q, or from the team's queue if that has a task of higher priority, *)
(* or one of the same that its parent waits for.                           *)
NextOf(q) ==
  LET both == /\ q.tree /\ Ready(q) # {}
              /\ team.queue.tree /\ Ready(team.queue) # {}
      t1 == NextTask(q)
      t2 == NextTask(team.queue)
      higher == \/ info[t2].priority > info[t1].priority
                \/ /\ info[t2].priority = info[t1].priority
                   /\ info[t2].awaited /\ ~info[t1].awaited IN
  IF ~both THEN t1 ELSE IF higher THEN t2 ELSE t1

-----------------------------------------------------------------------------
(* Dependences.  The chain of an address in a depend_hash has an entry for *)
(* every task that is not over and names it, the newest first.  What comes *)
(* from the first redundant_out on only matters to undeferred tasks.       *)

NoEntries == [a \in Addrs |-> <<>>]

Live(chain) ==
  LET out == {i \in DOMAIN chain : chain[i].redundant_out} IN
  IF out = {} THEN chain ELSE SubSeq(chain, 1, (CHOOSE i \in out : \A j \in out : i <= j) - 1)

(* An element only has to wait for an entry if one of the two is an output. *)
Conflict(x, y) == ~x.is_in \/ ~y.is_in
Against(chain, d) == SelectSeq(chain, LAMBDA e : Conflict(e, d))

TasksOf(chain) == {chain[i].task : i \in DOMAIN chain}

(* mutant: the older entries of an output are not kept behind it *)
AddEntry_Forgets(chain, k, d) == <<[task |-> k, is_in |-> d.is_in, redundant_out |-> FALSE]>>

(* The entry of element d of task k goes to the front; the last output     *)
(* before it becomes redundant if it is one too, and goes behind the live. *)
AddEntry(chain, k, d) ==
  LET live == Live(chain)
      outs == SelectSeq(live, LAMBDA e : ~e.is_in)
      rest == SubSeq(chain, Len(live) + 1, Len(chain))
      entry == [task |-> k, is_in |-> d.is_in, redundant_out |-> FALSE] IN
  <<entry>> \o IF d.is_in \/ outs = <<>> THEN chain
               ELSE SelectSeq(live, LAMBDA e : e # Last(outs))
                      \o <<[Last(outs) EXCEPT !.redundant_out = TRUE]>> \o rest

(* gomp_task_handle_depend for task k with elements ds.  Of several with   *)
(* the same address the first is entered and the others are redundant; as  *)
(* outputs come first, the first is one if any is.                         *)
First(ds, a) == ds[CHOOSE i \in DOMAIN ds : ds[i].addr = a /\ \A j \in 1 .. i - 1 : ds[j].addr # a]
Named(ds)    == {ds[i].addr : i \in DOMAIN ds}

Entered(table, k, ds) ==
  [a \in Addrs |-> IF a \in Named(ds) THEN AddEntry(table[a], k, First(ds, a)) ELSE table[a]]

Dependees(table, ds) == UNION {TasksOf(Against(Live(table[a]), First(ds, a))) : a \in Named(ds)}

(* gomp_task_run_post_handle_depend_hash for task k. *)
Removed(table, k) == [a \in Addrs |-> SelectSeq(table[a], LAMBDA e : e.task # k)]

(* The tasks that a task with elements ds has to wait for, in the order in *)
(* which gomp_task_maybe_wait_for_dependencies meets them.                 *)
Awaited(table, ds) ==
  FoldLeft(LAMBDA seen, d :
             seen \o SelectSeq([i \in DOMAIN Against(table[d.addr], d) |->
                                   Against(table[d.addr], d)[i].task],
                               LAMBDA x : x \notin Range(seen)),
           <<>>, ds)

-----------------------------------------------------------------------------
(* Initially all threads are at the beginning of a region.                 *)

NewTask == [status |-> "unused", kind |-> "implicit", parent |-> None, group |-> None,
            priority |-> 0, tied |-> FALSE, ctors |-> FALSE, body |-> "none", caller |-> None,
            depend |-> <<>>, num_dependees |-> 0, dependers |-> <<>>, awaited |-> FALSE,
            depend_hash |-> NoEntries]

NewGroup == [status |-> "unused", queue |-> EmptyQueue, num_children |-> 0, waiting |-> FALSE,
             cancelled |-> FALSE, prev |-> None, sem |-> 0]

NewTaskwait == [set |-> FALSE, in_taskwait |-> FALSE, in_depend_wait |-> FALSE,
                n_depend |-> 0, sem |-> 0]

NoLocals == [child |-> None, free |-> None, cancelled |-> FALSE, left |-> 0, new_tasks |-> 0,
             do_wake |-> 0, state |-> 0, was_last |-> FALSE, state_cancelled |-> FALSE,
             waiting |-> FALSE]

Init ==
  /\ \E r \in Regions :
       /\ info = [k \in Tasks |->
                    IF k <= Len(r) THEN [NewTask EXCEPT !.status = "made", !.body = r[k]]
                                   ELSE NewTask]
       /\ team = [nthreads |-> Len(r), queue |-> EmptyQueue, count |-> 0, queued |-> 0,
                  running |-> 0, lock |-> None]
       /\ bar = [generation |-> 0, pending |-> FALSE, waiting |-> FALSE, cancelled |-> FALSE,
                 awaited |-> Len(r), awaited_final |-> Len(r)]
  /\ children = [k \in Tasks |-> EmptyQueue]
  /\ taskwait = [k \in Tasks |-> NewTaskwait]
  /\ group = [g \in Groups |-> NewGroup]
  /\ cur = [t \in Threads |-> t]
  /\ ip = [k \in Tasks |-> 1]
  /\ pc = [k \in Tasks |-> IF info[k].status = "unused" /\ k \in Threads THEN "absent" ELSE "run"]
  /\ loc = [k \in Tasks |-> NoLocals]

=============================================================================
