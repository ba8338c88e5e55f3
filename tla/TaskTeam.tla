------------------------------ MODULE TaskTeam ------------------------------
(***************************************************************************)
(* The explicit tasks of a team (task.c, taskloop.c) and the barrier in    *)
(* which its threads run them (config/linux/bar.c), on the data of         *)
(* TaskState.                                                              *)
(*                                                                         *)
(* What is done under team->task_lock keeps team.lock from the step that   *)
(* takes it to the step that gives it back.  It is one step where nobody   *)
(* reads the data without the lock.                                        *)
(***************************************************************************)
EXTENDS TaskState

(* The threads of this team. *)
Team == 1 .. team.nthreads

Goto(k, place) == pc' = [pc EXCEPT ![k] = place]

(* The compiled code goes on behind the operation. *)
Return(k) == Goto(k, "run") /\ ip' = [ip EXCEPT ![k] = @ + 1]

(* It branches to the end of the region or of the task. *)
ToEnd(k) == Goto(k, "run") /\ ip' = [ip EXCEPT ![k] = Len(Body(k)) + 1]

Cancelled(g) == bar.cancelled \/ (g # None /\ group[g].cancelled)

(* gomp_mutex_lock (&team->task_lock), or still holding it. *)
HasLock(t) == team.lock \in {None, t}

(* malloc, or room on the stack, for n tasks. *)
Used     == Cardinality({k \in Explicit : info[k].status # "unused"})
Fresh(n) == [i \in 1 .. n |-> MaxThreads + Used + i]

(* gomp_finish_task and free, of the task that is to be freed. *)
AfterFree(k) == IF loc[k].free = None THEN info
                ELSE [info EXCEPT ![loc[k].free].status = "freed"]

(* futex_wake of the threads W that sleep in the barrier, by a thread with *)
(* task k that goes on to place.                                           *)
Asleep == {t \in Team : pc[t] = "asleep"}
Wake(W, k, place) == pc' = [x \in Tasks |-> IF x \in W THEN "look"
                                            ELSE IF x = k THEN place ELSE pc[x]]

(* futex_wake of n of them, or of all that there are. *)
Some(n) == {W \in SUBSET Asleep :
              Cardinality(W) = IF n < Cardinality(Asleep) THEN n ELSE Cardinality(Asleep)}

-----------------------------------------------------------------------------
(* GOMP_taskgroup_start, and the beginning of GOMP_taskloop. *)

At(t, op) == pc[cur[t]] = "run" /\ Place(cur[t]) = op

OpenGroup(k) ==
  LET g == CHOOSE x \in Groups : group[x].status = "unused"
                                 /\ \A y \in Groups : y < x => group[y].status # "unused" IN
  /\ \E x \in Groups : group[x].status = "unused"
  /\ group' = [group EXCEPT ![g] = [NewGroup EXCEPT !.status = "made", !.prev = info[k].group]]
  /\ info' = [info EXCEPT ![k].group = g]

TaskgroupStart(t) ==
  /\ At(t, "taskgroup_start")
  /\ OpenGroup(cur[t]) /\ Return(cur[t])
  /\ UNCHANGED <<children, taskwait, team, bar, cur, loc>>

(* The flags and task_count are read without the lock. *)
TaskloopStart(t) ==
  LET k == cur[t]
      o == Op(k) IN
  /\ At(t, "taskloop")
  /\ IF bar.cancelled \/ (o.nogroup /\ Cancelled(info[k].group))
     THEN Return(k) /\ UNCHANGED <<info, group, loc>>
     ELSE /\ IF o.nogroup THEN UNCHANGED <<info, group>> ELSE OpenGroup(k)
          /\ UNCHANGED ip
          /\ IF ~o.if \/ team.count + o.num_tasks > MaxQueued
             THEN Goto(k, "undeferred") /\ loc' = [loc EXCEPT ![k].left = o.num_tasks]
             ELSE Goto(k, "insert") /\ UNCHANGED loc
  /\ UNCHANGED <<children, taskwait, team, bar, cur>>

(* Behind the tasks comes the end of the taskgroup, if there is one.       *)
Behind(k) == IF Op(k).nogroup THEN Return(k) ELSE Goto(k, "group_end") /\ UNCHANGED ip

(* All tasks of the taskloop are made, and queued under the lock.  As many *)
(* threads are woken as are not known to be busy.                          *)
TaskloopInsert(t) ==
  LET k     == cur[t]
      o     == Op(k)
      g     == info[k].group
      new   == Fresh(o.num_tasks)
      begin(q) == InsertBegin(q, new, o.priority)
      idle  == team.nthreads - team.running - (IF info[k].tied THEN 0 ELSE 1)
      wake  == IF idle > o.num_tasks THEN o.num_tasks ELSE idle IN
  /\ pc[k] = "insert" /\ team.lock = None
  /\ IF Cancelled(g) /\ ~o.cpyfn
     THEN Behind(k) /\ UNCHANGED <<info, children, group, team, bar, loc>>
     ELSE /\ Used + o.num_tasks <= MaxTasks
          /\ info' = [c \in Tasks |->
                        IF c \in Range(new)
                        THEN [NewTask EXCEPT !.status = "made", !.kind = "waiting", !.parent = k,
                                             !.group = g, !.priority = o.priority,
                                             !.tied = info[k].tied, !.ctors = o.cpyfn,
                                             !.body = o.body]
                        ELSE info[c]]
          /\ children' = [children EXCEPT ![k] = begin(@)]
          /\ group' = IF g = None THEN group
                      ELSE [group EXCEPT ![g].queue = begin(@), ![g].num_children = @ + o.num_tasks]
          /\ team' = [team EXCEPT !.queue = InsertEnd(@, new, o.priority),
                                  !.count = @ + o.num_tasks, !.queued = @ + o.num_tasks]
          /\ bar' = [bar EXCEPT !.pending = TRUE]
          /\ loc' = [loc EXCEPT ![k].left = wake]
          /\ IF wake > 0 THEN Goto(k, "wake_some") /\ UNCHANGED ip ELSE Behind(k)
  /\ UNCHANGED <<taskwait, cur>>

WakeSome(t) ==
  LET k == cur[t] IN
  /\ pc[k] = "wake_some"
  /\ \E W \in Some(loc[k].left) : Wake(W, k, IF Op(k).nogroup THEN "run" ELSE "group_end")
  /\ ip' = IF Op(k).nogroup THEN [ip EXCEPT ![k] = @ + 1] ELSE ip
  /\ loc' = [loc EXCEPT ![k].left = 0]
  /\ UNCHANGED <<info, children, taskwait, group, team, bar, cur>>

-----------------------------------------------------------------------------
(* GOMP_task. *)

(* Whether the task is deferred is decided without the lock.  An undeferred *)
(* one first waits for the tasks it depends on, if any are in the table:   *)
(* only this thread puts tasks there, so that an empty one stays empty.    *)
TaskStart(t) ==
  LET k == cur[t]
      o == Op(k) IN
  /\ At(t, "task")
  /\ IF Cancelled(info[k].group) THEN Return(k) /\ UNCHANGED loc
     ELSE /\ UNCHANGED ip
          /\ IF o.if /\ team.count <= MaxQueued THEN Goto(k, "insert_task") /\ UNCHANGED loc
             ELSE /\ loc' = [loc EXCEPT ![k].left = 1]
                  /\ Goto(k, IF o.depend # <<>> /\ info[k].depend_hash # NoEntries
                             THEN "depend" ELSE "undeferred")
  /\ UNCHANGED <<info, children, taskwait, group, team, bar, cur>>

(* A task that depends on others is put into no queue yet, and task_count  *)
(* does not count it; num_children of its taskgroup does.                  *)
TaskInsert(t) ==
  LET k    == cur[t]
      o    == Op(k)
      g    == info[k].group
      c    == Fresh(1)[1]
      on   == Dependees(info[k].depend_hash, o.depend)
      begin(q) == InsertBegin(q, <<c>>, o.priority)
      wake == team.running + (IF info[k].tied THEN 0 ELSE 1) < team.nthreads IN
  /\ pc[k] = "insert_task" /\ team.lock = None
  /\ IF Cancelled(g) /\ ~o.cpyfn
     THEN Return(k) /\ UNCHANGED <<info, children, group, team, bar, loc>>
     ELSE /\ Used < MaxTasks
          /\ info' = [x \in Tasks |->
                        IF x = c
                        THEN [NewTask EXCEPT !.status = "made", !.kind = "waiting", !.parent = k,
                                             !.group = g, !.priority = o.priority,
                                             !.tied = info[k].tied, !.ctors = o.cpyfn,
                                             !.body = o.body, !.depend = o.depend,
                                             !.num_dependees = Cardinality(on)]
                        ELSE IF x \in on THEN [info[x] EXCEPT !.dependers = Append(@, c)]
                        ELSE IF x = k THEN [info[x] EXCEPT !.depend_hash = Entered(@, c, o.depend)]
                        ELSE info[x]]
          /\ IF on # {}
             THEN /\ group' = IF g = None THEN group
                              ELSE [group EXCEPT ![g].num_children = @ + 1]
                  /\ Return(k) /\ UNCHANGED <<children, team, bar, loc>>
             ELSE /\ children' = [children EXCEPT ![k] = begin(@)]
                  /\ group' = IF g = None THEN group
                              ELSE [group EXCEPT ![g].queue = begin(@), ![g].num_children = @ + 1]
                  /\ team' = [team EXCEPT !.queue = InsertEnd(@, <<c>>, o.priority),
                                          !.count = @ + 1, !.queued = @ + 1]
                  /\ bar' = [bar EXCEPT !.pending = TRUE]
                  /\ IF wake THEN Goto(k, "wake_some") /\ UNCHANGED ip
                             /\ loc' = [loc EXCEPT ![k].left = 1]
                     ELSE Return(k) /\ UNCHANGED loc
  /\ UNCHANGED <<taskwait, cur>>

-----------------------------------------------------------------------------
(* Undeferred tasks, one after the other in the thread. *)

Undeferred(t) ==
  LET k == cur[t]
      c == MaxThreads + Used + 1 IN
  /\ pc[k] = "undeferred"
  /\ IF loc[k].left = 0
     THEN Behind(k) /\ UNCHANGED <<info, cur, loc>>
     ELSE /\ Used < MaxTasks
          /\ info' = [info EXCEPT ![c] = [NewTask EXCEPT
                        !.status = "made", !.kind = "undeferred", !.parent = k, !.caller = k,
                        !.group = info[k].group, !.priority = Op(k).priority,
                        !.tied = info[k].tied, !.body = Op(k).body,
                        !.depend = Op(k).depend]]
          /\ cur' = [cur EXCEPT ![t] = c]
          /\ loc' = [loc EXCEPT ![k].left = @ - 1]
          /\ UNCHANGED <<pc, ip>>
  /\ UNCHANGED <<children, taskwait, group, team, bar>>

(* gomp_clear_parent: the children of c that are left are orphans. *)
Orphaned(c) == [x \in Tasks |-> IF x \in Members(children[c])
                                THEN [info[x] EXCEPT !.parent = None] ELSE info[x]]

(* mutant: the children keep their pointer to the task *)
UndeferredEnd_KeepsParent(t) ==
  LET c == cur[t] IN
  /\ info[c].kind = "undeferred" /\ Ended(c) /\ pc[c] = "run"
  /\ info' = [info EXCEPT ![c].status = "freed"]
  /\ cur' = [cur EXCEPT ![t] = info[c].parent]
  /\ UNCHANGED <<children, taskwait, group, team, bar, ip, pc, loc>>

(* The end of the task; its children_queue is looked at without the lock. *)
UndeferredEnd(t) ==
  LET c == cur[t] IN
  /\ info[c].kind = "undeferred" /\ Ended(c) /\ pc[c] = "run"
  /\ IsEmpty(children[c]) \/ team.lock = None
  /\ info' = [Orphaned(c) EXCEPT ![c].status = "freed"]
  /\ children' = [children EXCEPT ![c] = EmptyQueue]
  /\ cur' = [cur EXCEPT ![t] = info[c].parent]
  /\ UNCHANGED <<taskwait, group, team, bar, ip, pc, loc>>

-----------------------------------------------------------------------------
(* Running a queued task in a task scheduling point, which is the taskwait *)
(* or the end of the taskgroup that task k is at, the undeferred task that *)
(* it makes, or else a barrier.                                            *)

InTaskwait(k) == Place(k) = "taskwait"
InDependWait(k) == Place(k) = "task"
InGroupEnd(k) == Place(k) \in {"taskgroup_end", "taskloop"}
InBarrier(k)  == Place(k) \in {"barrier", "barrier_cancel", "end"}

(* gomp_task_run_pre for c, then the unlock and c itself; or, if c has     *)
(* been cancelled, straight on to its end with the lock.                   *)
EndOf(c) == IF info[c].depend = <<>> THEN "finish" ELSE "handle_depend"

RunPre(t, c, parent) ==
  LET k == cur[t]
      g == info[c].group
      cancelled == Cancelled(g) /\ ~info[c].ctors
      counted == InBarrier(k) /\ ~cancelled IN
  /\ children' = IF parent = None THEN children
                 ELSE [children EXCEPT ![parent] = Downgrade(@, c)]
  /\ group' = IF g = None THEN group ELSE [group EXCEPT ![g].queue = Downgrade(@, c)]
  /\ bar' = [bar EXCEPT !.pending = @ /\ team.queued # 1]
  /\ team' = [team EXCEPT !.queue = Dequeue(@, c), !.queued = @ - 1,
                          !.running = IF counted THEN @ + 1 ELSE @,
                          !.lock = IF cancelled THEN t ELSE None]
  /\ info' = [AfterFree(k) EXCEPT ![c].kind = "tied", ![c].caller = k,
                                  ![c].tied = @ \/ counted,
                                  ![c].status = IF cancelled THEN "ended" ELSE @]
  /\ loc' = [loc EXCEPT ![k].child = c, ![k].free = None, ![k].cancelled = cancelled]
  /\ IF cancelled THEN Goto(k, EndOf(c)) /\ UNCHANGED cur
     ELSE IF loc[k].do_wake > 0 THEN Goto(k, "wake_new") /\ UNCHANGED cur
     ELSE Goto(k, "child") /\ cur' = [cur EXCEPT ![t] = c]
  /\ UNCHANGED <<taskwait, ip>>

(* The unlock without a task to run, before the thread waits or returns.   *)
Unlock(k) == /\ team' = [team EXCEPT !.lock = None]
             /\ info' = AfterFree(k)
(* mutant: the lock is kept when there is no task to run *)
Pause_KeepsLock(k, place) == /\ info' = AfterFree(k) /\ UNCHANGED team
                             /\ loc' = [loc EXCEPT ![k].free = None]
                             /\ Goto(k, IF loc[k].do_wake > 0 THEN "wake_new" ELSE place)
Pause(k, place) == /\ Unlock(k)
                   /\ loc' = [loc EXCEPT ![k].free = None]
                   /\ Goto(k, IF loc[k].do_wake > 0 THEN "wake_new" ELSE place)
Leave(k) == Unlock(k) /\ loc' = [loc EXCEPT ![k].free = None, ![k].do_wake = 0]

(* The threads that are woken for tasks whose dependences have been met.   *)
WakeNew(t) ==
  LET k == cur[t]
      c == loc[k].child IN
  /\ pc[k] = "wake_new"
  /\ \E W \in Some(loc[k].do_wake) :
       Wake(W, k, IF c # None THEN "child" ELSE IF InBarrier(k) THEN "handled" ELSE "sem")
  /\ cur' = IF c # None THEN [cur EXCEPT ![t] = c] ELSE cur
  /\ loc' = [loc EXCEPT ![k].do_wake = 0]
  /\ UNCHANGED <<info, children, taskwait, group, team, bar, ip>>

TaskEnd(t) ==
  LET c == cur[t] IN
  /\ c \in Explicit /\ info[c].kind = "tied" /\ Ended(c) /\ pc[c] = "run"
  /\ info' = [info EXCEPT ![c].status = "ended"]
  /\ cur' = [cur EXCEPT ![t] = info[c].caller]
  /\ Goto(info[c].caller, EndOf(c))
  /\ UNCHANGED <<children, taskwait, group, team, bar, ip, loc>>

-----------------------------------------------------------------------------
(* GOMP_taskwait. *)

TaskwaitStart(t) ==
  /\ At(t, "taskwait")
  /\ IF IsEmpty(children[cur[t]]) THEN Return(cur[t]) ELSE Goto(cur[t], "loop") /\ UNCHANGED ip
  /\ UNCHANGED <<info, children, taskwait, group, team, bar, cur, loc>>

(* With several priorities the next task can be another one's child, from  *)
(* the team's queue.  gomp_task_run_pre then works on a list that does not *)
(* hold it, which has no defined outcome: the model does not go on there.  *)
TaskwaitLoop(t) ==
  LET k == cur[t]
      q == children[k]
      c == NextOf(q) IN
  /\ pc[k] = "loop" /\ InTaskwait(k) /\ HasLock(t)
  /\ \/ /\ IsEmpty(q)
        /\ taskwait' = [taskwait EXCEPT ![k].set = FALSE]
        /\ Leave(k) /\ Return(k)
        /\ UNCHANGED <<children, group, bar, cur>>
     \/ /\ ~IsEmpty(q) /\ info[c].kind = "waiting"
        /\ c \in Members(q)
        /\ RunPre(t, c, k)
     \/ /\ ~IsEmpty(q) /\ info[c].kind # "waiting"
        /\ LET w == IF taskwait[k].set THEN taskwait[k] ELSE NewTaskwait IN
           taskwait' = [taskwait EXCEPT ![k] = [w EXCEPT !.set = TRUE, !.in_taskwait = TRUE]]
        /\ Pause(k, "sem")
        /\ UNCHANGED <<children, group, bar, cur, ip>>

TaskwaitSem(t) ==
  LET k == cur[t] IN
  /\ pc[k] = "sem" /\ (InTaskwait(k) \/ InDependWait(k)) /\ taskwait[k].sem > 0
  /\ taskwait' = [taskwait EXCEPT ![k].sem = @ - 1]
  /\ Goto(k, "loop")
  /\ UNCHANGED <<info, children, group, team, bar, cur, ip, loc>>

-----------------------------------------------------------------------------
(* gomp_task_maybe_wait_for_dependencies. *)

(* All tasks it depends on are awaited; those that can run go to the front. *)
DependStart(t) ==
  LET k == cur[t]
      order == Awaited(info[k].depend_hash, Op(k).depend)
      ready == SelectSeq(order, LAMBDA x : info[x].num_dependees = 0 /\ info[x].kind = "waiting") IN
  /\ pc[k] = "depend" /\ team.lock = None
  /\ IF order = <<>>
     THEN Goto(k, "undeferred") /\ UNCHANGED <<info, children, taskwait, team>>
     ELSE /\ info' = [x \in Tasks |-> IF x \in Range(order) THEN [info[x] EXCEPT !.awaited = TRUE]
                                      ELSE info[x]]
          /\ children' = [children EXCEPT ![k] = FoldLeft(Upgrade, @, ready)]
          /\ taskwait' = [taskwait EXCEPT ![k] =
                            [NewTaskwait EXCEPT !.set = TRUE, !.n_depend = Len(order)]]
          /\ team' = [team EXCEPT !.lock = t]
          /\ Goto(k, "loop")
  /\ UNCHANGED <<group, bar, cur, ip, loc>>

DependLoop(t) ==
  LET k == cur[t]
      c == NextTask(children[k]) IN
  /\ pc[k] = "loop" /\ InDependWait(k) /\ HasLock(t)
  /\ \/ /\ taskwait[k].n_depend = 0
        /\ taskwait' = [taskwait EXCEPT ![k].set = FALSE]
        /\ Leave(k) /\ Goto(k, "undeferred")
        /\ UNCHANGED <<children, group, bar, cur, ip>>
     \/ /\ taskwait[k].n_depend > 0 /\ info[c].kind = "waiting"
        /\ RunPre(t, c, k)
     \/ /\ taskwait[k].n_depend > 0 /\ info[c].kind # "waiting"
        /\ taskwait' = [taskwait EXCEPT ![k].in_depend_wait = TRUE]
        /\ Pause(k, "sem")
        /\ UNCHANGED <<children, group, bar, cur, ip>>

-----------------------------------------------------------------------------
(* GOMP_taskgroup_end. *)

(* num_children is read without the lock. *)
GroupEnd(t) ==
  LET k == cur[t] IN
  /\ At(t, "taskgroup_end") \/ pc[k] = "group_end"
  /\ Goto(k, IF group[info[k].group].num_children = 0 THEN "group_free" ELSE "loop")
  /\ UNCHANGED <<info, children, taskwait, group, team, bar, cur, ip, loc>>

GroupLoop(t) ==
  LET k == cur[t]
      g == info[k].group
      q == IF IsEmpty(group[g].queue) THEN children[k] ELSE group[g].queue
      c == NextOf(q)
      empty == IsEmpty(group[g].queue) IN
  /\ pc[k] = "loop" /\ InGroupEnd(k) /\ HasLock(t)
  /\ \/ /\ empty /\ group[g].num_children = 0
        /\ Leave(k) /\ Goto(k, "group_free")
        /\ UNCHANGED <<children, taskwait, group, bar, cur, ip>>
     \/ /\ ~empty \/ group[g].num_children > 0
        /\ ~IsEmpty(q) /\ info[c].kind = "waiting"
        /\ RunPre(t, c, info[c].parent)
     \/ /\ ~empty \/ group[g].num_children > 0
        /\ IsEmpty(q) \/ info[c].kind # "waiting"
        /\ group' = [group EXCEPT ![g].waiting = TRUE]
        /\ Pause(k, "sem")
        /\ UNCHANGED <<children, taskwait, bar, cur, ip>>

GroupSem(t) ==
  LET k == cur[t]
      g == info[k].group IN
  /\ pc[k] = "sem" /\ InGroupEnd(k) /\ group[g].sem > 0
  /\ group' = [group EXCEPT ![g].sem = @ - 1]
  /\ Goto(k, "loop")
  /\ UNCHANGED <<info, children, taskwait, team, bar, cur, ip, loc>>

GroupFree(t) ==
  LET k == cur[t]
      g == info[k].group IN
  /\ pc[k] = "group_free"
  /\ group' = [group EXCEPT ![g].status = "freed"]
  /\ info' = [info EXCEPT ![k].group = group[g].prev]
  /\ Return(k)
  /\ UNCHANGED <<children, taskwait, team, bar, cur, loc>>

-----------------------------------------------------------------------------
(* What the scheduling point does with a task that has been run. *)

(* gomp_sem_post for who waits in w, if the flag is set. *)
Post(w, flag) == IF w[flag] THEN [w EXCEPT ![flag] = FALSE, !.sem = @ + 1] ELSE w

(* gomp_task_run_post_handle_depend: c is over, and what it was the last   *)
(* to hold up goes into the queues; who waits for its parent's children,   *)
(* or for a taskgroup with such a task, is told.                           *)
HandleDepend(t) ==
  LET k == cur[t]
      c == loc[k].child
      p == info[c].parent
      ready == SelectSeq(info[c].dependers, LAMBDA x : info[x].num_dependees = 1)
      groups == {info[x].group : x \in Range(ready)} \ {None}
      begin(q, x) == InsertBegin(q, <<x>>, info[x].priority)
      end(q, x)   == InsertEnd(q, <<x>>, info[x].priority)
      w == taskwait[p] IN
  /\ pc[k] = "handle_depend" /\ HasLock(t)
  /\ info' = [x \in Tasks |->
                IF x = c THEN [info[x] EXCEPT !.dependers = <<>>]
                ELSE IF x \in Range(info[c].dependers) THEN [info[x] EXCEPT !.num_dependees = @ - 1]
                ELSE IF x = p THEN [info[x] EXCEPT !.depend_hash = Removed(@, c)]
                ELSE info[x]]
  /\ IF p = None THEN UNCHANGED <<children, taskwait>>
     ELSE /\ children' = [children EXCEPT ![p] = FoldLeft(InsertReady, @, ready)]
          /\ taskwait' = IF ready = <<>> \/ ~w.set THEN taskwait
                         ELSE [taskwait EXCEPT ![p] = Post(@, IF w.in_taskwait THEN "in_taskwait"
                                                              ELSE "in_depend_wait")]
  /\ group' = [g \in Groups |->
                 IF g \notin groups THEN group[g]
                 ELSE [Post(group[g], "waiting") EXCEPT
                         !.queue = FoldLeft(begin, @, SelectSeq(ready, LAMBDA x : info[x].group = g))]]
  /\ team' = [team EXCEPT !.lock = t, !.queue = FoldLeft(end, @, ready),
                          !.count = @ + Len(ready), !.queued = @ + Len(ready)]
  /\ bar' = [bar EXCEPT !.pending = @ \/ Len(ready) > 1]
  /\ loc' = [loc EXCEPT ![k].new_tasks = Len(ready)]
  /\ Goto(k, "finish")
  /\ UNCHANGED <<cur, ip>>

(* gomp_task_run_post_remove_parent, or in a taskwait and in the wait for  *)
(* dependences their own removal.                                          *)
Finish(t) ==
  LET k == cur[t]
      c == loc[k].child
      p == info[c].parent
      q == Dequeue(children[p], c)
      w == [taskwait[p] EXCEPT !.n_depend = IF info[c].awaited THEN @ - 1 ELSE @] IN
  /\ pc[k] = "finish" /\ HasLock(t)
  /\ team' = [team EXCEPT !.lock = t]
  /\ \/ /\ InTaskwait(k)
        /\ children' = [children EXCEPT ![k] = Dequeue(@, c)]
        /\ Goto(k, "leave_group") /\ UNCHANGED taskwait
     \/ /\ InDependWait(k)
        /\ children' = [children EXCEPT ![k] = q] /\ taskwait' = [taskwait EXCEPT ![k] = w]
        /\ Goto(k, "leave_group")
     \/ /\ ~InTaskwait(k) /\ ~InDependWait(k) /\ p = None
        /\ Goto(k, "leave_group") /\ UNCHANGED <<children, taskwait>>
     \/ /\ ~InTaskwait(k) /\ ~InDependWait(k) /\ p # None
        /\ children' = [children EXCEPT ![p] = q]
        /\ taskwait' = [taskwait EXCEPT ![p] =
                          IF info[c].awaited /\ w.n_depend = 0 THEN Post(w, "in_depend_wait") ELSE w]
        /\ Goto(k, IF IsEmpty(q) THEN "notify_parent" ELSE "leave_group")
  /\ UNCHANGED <<info, group, bar, cur, ip, loc>>

(* The parent's queue is empty; the parent may see that before it is told. *)
NotifyParent(t) ==
  LET k == cur[t]
      w == taskwait[info[loc[k].child].parent] IN
  /\ pc[k] = "notify_parent"
  /\ taskwait' = IF w.set
                 THEN [taskwait EXCEPT ![info[loc[k].child].parent] = Post(@, "in_taskwait")]
                 ELSE taskwait
  /\ Goto(k, "leave_group")
  /\ UNCHANGED <<info, children, group, team, bar, cur, ip, loc>>

(* gomp_clear_parent, and gomp_task_run_post_remove_taskgroup. *)
LeaveGroup(t) ==
  LET k == cur[t]
      c == loc[k].child
      g == info[c].group
      q == Dequeue(group[g].queue, c) IN
  /\ pc[k] = "leave_group"
  /\ info' = Orphaned(c)
  /\ children' = [children EXCEPT ![c] = EmptyQueue]
  /\ IF g = None THEN Goto(k, "count") /\ UNCHANGED group
     ELSE /\ group' = [group EXCEPT ![g].queue = q,
                                    ![g].num_children = IF @ > 1 THEN @ - 1 ELSE 0]
          /\ Goto(k, IF IsEmpty(q) THEN "notify_group" ELSE "count")
  /\ UNCHANGED <<taskwait, team, bar, cur, ip, loc>>

(* The group's queue is empty, and its num_children may be 0. *)
NotifyGroup(t) ==
  LET k == cur[t]
      g == info[loc[k].child].group IN
  /\ pc[k] = "notify_group"
  /\ group' = [group EXCEPT ![g] = Post(@, "waiting")]
  /\ Goto(k, "count")
  /\ UNCHANGED <<info, children, taskwait, team, bar, cur, ip, loc>>

(* gomp_team_barrier_done for a thread with that state. *)
Done(b, state) == [b EXCEPT !.generation = state + 1, !.pending = FALSE, !.waiting = FALSE,
                            !.cancelled = FALSE]

(* mutant: a cancelled task is taken for one that has been running *)
CountTask_AnyTask(t) ==
  LET k == cur[t]
      opens == InBarrier(k) /\ team.count = 1 /\ bar.waiting IN
  /\ pc[k] = "count"
  /\ loc' = [loc EXCEPT ![k].free = loc[k].child, ![k].child = None]
  /\ team' = [team EXCEPT !.count = @ - 1, !.running = IF InBarrier(k) THEN @ - 1 ELSE @,
                          !.lock = IF opens THEN None ELSE @]
  /\ bar' = IF opens THEN Done(bar, loc[k].state) ELSE bar
  /\ Goto(k, IF opens THEN "done_wake" ELSE "loop")
  /\ UNCHANGED <<info, children, taskwait, group, cur, ip>>

(* The last task of a barrier that all threads have reached opens it.  Of  *)
(* several new tasks some are for other threads.                           *)
CountTask(t) ==
  LET k == cur[t]
      new == loc[k].new_tasks
      running == team'.running
      busy == IF InBarrier(k) THEN running ELSE running + (IF info[k].tied THEN 0 ELSE 1)
      idle == team.nthreads - busy
      opens == InBarrier(k) /\ team.count = 1 /\ bar.waiting IN
  /\ pc[k] = "count"
  /\ team' = [team EXCEPT !.count = @ - 1,
                          !.running = IF InBarrier(k) /\ ~loc[k].cancelled THEN @ - 1 ELSE @,
                          !.lock = IF opens THEN None ELSE @]
  /\ loc' = [loc EXCEPT ![k].free = loc[k].child, ![k].child = None, ![k].new_tasks = 0,
                        ![k].do_wake = IF new <= 1 THEN @ ELSE IF idle > new THEN new ELSE idle]
  /\ bar' = IF opens THEN Done(bar, loc[k].state) ELSE bar
  /\ Goto(k, IF opens THEN "done_wake" ELSE "loop")
  /\ UNCHANGED <<info, children, taskwait, group, cur, ip>>

DoneWake(t) ==
  LET k == cur[t] IN
  /\ pc[k] = "done_wake"
  /\ Wake(Asleep, k, "loop")
  /\ UNCHANGED <<info, children, taskwait, group, team, bar, cur, ip, loc>>

-----------------------------------------------------------------------------
(* The barrier: gomp_team_barrier_wait, _wait_cancel and, for a thread at  *)
(* the end of the region, _wait_final.                                     *)

Cancellable(k) == Place(k) = "barrier_cancel"

LeaveBarrier(k) == IF Ended(k) THEN Goto(k, "done") /\ UNCHANGED ip ELSE Return(k)

(* A thread that is not the last one waits for the generation word to be   *)
(* other than it was at its arrival.                                       *)
StartWaiting(k, cancelled) ==
  IF Cancellable(k) /\ cancelled THEN ToEnd(k) ELSE Goto(k, "wait") /\ UNCHANGED ip

Arrive(t) ==
  LET k == cur[t]
      left == IF Ended(k) THEN bar.awaited_final ELSE bar.awaited IN
  /\ k = t /\ pc[k] = "run" /\ InBarrier(k)
  /\ loc' = [loc EXCEPT ![k].state = bar.generation, ![k].was_last = (left = 1),
                        ![k].state_cancelled = bar.cancelled, ![k].waiting = FALSE]
  /\ IF left > 1
     THEN /\ bar' = IF Ended(k) THEN [bar EXCEPT !.awaited_final = left - 1]
                                ELSE [bar EXCEPT !.awaited = left - 1]
          /\ StartWaiting(k, bar.cancelled)
     ELSE /\ bar' = [bar EXCEPT !.awaited = team.nthreads,
                                !.awaited_final = IF Ended(k) THEN team.nthreads ELSE @]
          /\ Goto(k, "last") /\ UNCHANGED ip
  /\ UNCHANGED <<info, children, taskwait, group, team, cur>>

(* mutant: tasks or not *)
LastArrived_AnyTasks(t) ==
  LET k == cur[t] IN
  /\ pc[k] = "last"
  /\ bar' = [Done(bar, loc[k].state) EXCEPT
               !.cancelled = Cancellable(k) /\ loc[k].state_cancelled]
  /\ Goto(k, "last_wake")
  /\ UNCHANGED <<info, children, taskwait, group, team, cur, ip, loc>>

(* The last one: without tasks it opens the barrier, without the lock.     *)
LastArrived(t) ==
  LET k == cur[t] IN
  /\ pc[k] = "last"
  /\ IF team.count = 0
     THEN /\ bar' = [Done(bar, loc[k].state) EXCEPT
                       !.cancelled = Cancellable(k) /\ loc[k].state_cancelled]
          /\ Goto(k, "last_wake")
     ELSE Goto(k, "enter") /\ UNCHANGED bar
  /\ UNCHANGED <<info, children, taskwait, group, team, cur, ip, loc>>

LastWake(t) ==
  LET k == cur[t] IN
  /\ pc[k] = "last_wake"
  /\ Wake(Asleep, k, IF Ended(k) THEN "done" ELSE "run")
  /\ ip' = IF Ended(k) THEN ip ELSE [ip EXCEPT ![k] = @ + 1]
  /\ UNCHANGED <<info, children, taskwait, group, team, bar, cur, loc>>

(* gomp_barrier_handle_tasks for the last one. *)
Enter(t) ==
  LET k == cur[t] IN
  /\ pc[k] = "enter" /\ team.lock = None
  /\ IF team.count = 0
     THEN /\ bar' = Done(bar, loc[k].state)
          /\ Goto(k, "enter_wake") /\ UNCHANGED team
     ELSE /\ bar' = [bar EXCEPT !.waiting = TRUE]
          /\ team' = [team EXCEPT !.lock = t]
          /\ Goto(k, "loop")
  /\ UNCHANGED <<info, children, taskwait, group, cur, ip, loc>>

EnterWake(t) ==
  LET k == cur[t] IN
  /\ pc[k] = "enter_wake"
  /\ Wake(Asleep, k, "handled")
  /\ UNCHANGED <<info, children, taskwait, group, team, bar, cur, ip, loc>>

BarrierLoop(t) ==
  LET k == cur[t]
      c == NextTask(team.queue) IN
  /\ pc[k] = "loop" /\ InBarrier(k) /\ HasLock(t)
  /\ IF IsEmpty(team.queue)
     THEN /\ Pause(k, "handled")
          /\ UNCHANGED <<children, taskwait, group, bar, cur, ip>>
     ELSE RunPre(t, c, info[c].parent)

(* Whether the thread leaves the barrier or looks again. *)
Check(k) ==
  IF /\ bar.generation = loc[k].state + 1
     /\ ~bar.pending /\ ~bar.waiting /\ ~bar.cancelled
  THEN LeaveBarrier(k) /\ UNCHANGED loc
  ELSE /\ loc' = [loc EXCEPT ![k].waiting = @ \/ bar.waiting]
       /\ Goto(k, "wait") /\ UNCHANGED ip

(* Behind gomp_barrier_handle_tasks. *)
Handled(t) ==
  LET k == cur[t] IN
  /\ pc[k] = "handled"
  /\ IF loc[k].was_last
     THEN /\ loc' = [loc EXCEPT ![k].was_last = FALSE]
          /\ StartWaiting(k, loc[k].state_cancelled)
     ELSE Check(k)
  /\ UNCHANGED <<info, children, taskwait, group, team, bar, cur>>

(* do_wait sleeps only if the word is as it was. *)
Wait(t) ==
  LET k == cur[t]
      same == /\ bar.generation = loc[k].state /\ ~bar.pending
              /\ bar.waiting = loc[k].waiting /\ bar.cancelled = loc[k].state_cancelled IN
  /\ pc[k] = "wait"
  /\ Goto(k, IF same THEN "asleep" ELSE "look")
  /\ UNCHANGED <<info, children, taskwait, group, team, bar, cur, ip, loc>>

Look(t) ==
  LET k == cur[t] IN
  /\ pc[k] = "look"
  /\ \/ /\ Cancellable(k) /\ bar.cancelled
        /\ ToEnd(k) /\ UNCHANGED loc
     \/ /\ ~(Cancellable(k) /\ bar.cancelled) /\ bar.pending
        /\ Goto(k, "loop") /\ UNCHANGED <<ip, loc>>
     \/ /\ ~(Cancellable(k) /\ bar.cancelled) /\ ~bar.pending
        /\ Check(k)
  /\ UNCHANGED <<info, children, taskwait, group, team, bar, cur>>

-----------------------------------------------------------------------------
(* GOMP_cancel. *)

CancelParallel(t) ==
  LET k == cur[t] IN
  /\ At(t, "cancel_parallel") /\ team.lock = None
  /\ bar' = [bar EXCEPT !.cancelled = TRUE]
  /\ IF bar.cancelled THEN ToEnd(k) ELSE Goto(k, "cancel_wake") /\ UNCHANGED ip
  /\ UNCHANGED <<info, children, taskwait, group, team, cur, loc>>

CancelWake(t) ==
  LET k == cur[t] IN
  /\ pc[k] = "cancel_wake"
  /\ Wake(Asleep, k, "run")
  /\ ip' = [ip EXCEPT ![k] = Len(Body(k)) + 1]
  /\ UNCHANGED <<info, children, taskwait, group, team, bar, cur, loc>>

CancelTaskgroup(t) ==
  LET k == cur[t]
      g == info[k].group IN
  /\ At(t, "cancel_taskgroup")
  /\ IF g # None /\ ~group[g].cancelled
     THEN team.lock = None /\ group' = [group EXCEPT ![g].cancelled = TRUE]
     ELSE UNCHANGED group
  /\ ToEnd(k)
  /\ UNCHANGED <<info, children, taskwait, team, bar, cur, loc>>

-----------------------------------------------------------------------------

Step(t) ==
  \/ TaskgroupStart(t) \/ TaskloopStart(t) \/ TaskloopInsert(t) \/ TaskStart(t) \/ TaskInsert(t)
  \/ WakeSome(t) \/ Undeferred(t) \/ UndeferredEnd(t) \/ TaskEnd(t)
  \/ TaskwaitStart(t) \/ TaskwaitLoop(t) \/ TaskwaitSem(t) \/ DependStart(t) \/ DependLoop(t)
  \/ GroupEnd(t) \/ GroupLoop(t) \/ GroupSem(t) \/ GroupFree(t) \/ WakeNew(t)
  \/ HandleDepend(t) \/ Finish(t) \/ NotifyParent(t) \/ LeaveGroup(t) \/ NotifyGroup(t)
  \/ CountTask(t) \/ DoneWake(t) \/ Arrive(t) \/ LastArrived(t) \/ LastWake(t) \/ Enter(t)
  \/ EnterWake(t) \/ BarrierLoop(t) \/ Handled(t) \/ Wait(t) \/ Look(t)
  \/ CancelParallel(t) \/ CancelWake(t) \/ CancelTaskgroup(t)

AllDone == \A t \in Team : pc[t] = "done"

Next == \/ \E t \in Threads : Step(t)
        \/ AllDone /\ UNCHANGED vars

Spec == Init /\ [][Next]_vars

(* The operating system runs every thread that can run. *)
FairSpec == Spec /\ \A t \in Threads : WF_vars(Step(t))

-----------------------------------------------------------------------------

(* The counters by which scheduling points decide whether there is a task  *)
(* to run, and barriers whether all are over, agree with the queues and    *)
(* the dependences: a task that waits for others counts in its taskgroup   *)
(* and is in no queue, and what it waits for will find it.                 *)
CountsAgree ==
  /\ team.queued = Cardinality(Members(team.queue))
  /\ team.lock = None =>
       /\ team.running = Cardinality({t \in Team : InBarrier(t) /\ loc[t].child # None})
       /\ team.count = Cardinality({c \in Explicit :
                                      /\ info[c].kind \in {"waiting", "tied"}
                                      /\ info[c].num_dependees = 0
                                      /\ info[c].status \in {"made", "ended"}
                                      /\ \A k \in Tasks : loc[k].free # c})
       /\ \A k \in Tasks : taskwait[k].set =>
            taskwait[k].n_depend = Cardinality({c \in Members(children[k]) : info[c].awaited}
                                               \cup {c \in Explicit : /\ info[c].parent = k
                                                                       /\ info[c].awaited
                                                                       /\ info[c].num_dependees > 0})
  /\ \A c \in Explicit :
       /\ info[c].num_dependees = Cardinality({d \in Explicit : c \in Range(info[d].dependers)})
       /\ info[c].num_dependees > 0 =>
            /\ c \notin Members(team.queue)
            /\ \A k \in Tasks : c \notin Members(children[k])

(* What depend clauses are for: a task is begun only when every earlier    *)
(* task of the same parent that names the same address is over, unless     *)
(* both only read there.                                                   *)
DependRespected ==
  \A c, d \in Explicit :
    /\ d < c /\ info[c].parent = info[d].parent /\ info[c].parent # None
    /\ info[c].kind \in {"tied", "undeferred"}
    /\ \E x \in Range(info[c].depend), y \in Range(info[d].depend) :
         x.addr = y.addr /\ Conflict(x, y)
    => info[d].status \in {"ended", "freed"}

(* priority_queue_verify: in every queue the waiting tasks come first, and *)
(* in the children_queue of a task those it waits for come before others,  *)
(* so that who looks at the head only does not sleep beside work to do.    *)
WaitingFirst ==
  /\ \A q \in {children[k] : k \in Tasks} \cup {group[g].queue : g \in Groups} :
       \A p \in Priorities : \A i, j \in DOMAIN q.list[p] :
         i < j /\ info[q.list[p][j]].kind = "waiting" => info[q.list[p][i]].kind = "waiting"
  /\ \A k \in Tasks : \A p \in Priorities : \A i, j \in DOMAIN children[k].list[p] :
       LET s == children[k].list[p] IN
       i < j /\ info[s[j]].kind = "waiting" /\ info[s[j]].awaited => info[s[i]].awaited

(* What a scheduling point is for.  A taskwait returns when all children   *)
(* of the task have ended, a taskgroup is over when all tasks in it have,  *)
(* and a barrier opens when all tasks of the team have.                    *)
WaitsForTasks ==
  [][/\ \A k \in Tasks : info[k].status = "made" /\ InTaskwait(k) /\ ip'[k] # ip[k] =>
          \A c \in Explicit : info[c].parent = k => info[c].status \in {"ended", "freed"}
     /\ \A g \in Groups : group'[g].status # group[g].status /\ group[g].status = "made" =>
          \A c \in Explicit : info'[c].group = g => info[c].status \in {"ended", "freed"}
     /\ bar'.generation # bar.generation =>
          \A c \in Explicit : info[c].status \in {"unused", "ended", "freed"}]_vars

(* No queue that is still there has a freed task in it, and no task that   *)
(* is not over points to a parent or a taskgroup that is gone.             *)
NothingDangles ==
  \A c \in Explicit :
    /\ info[c].status = "freed" =>
         /\ c \notin Members(team.queue)
         /\ \A k \in Tasks : info[k].status # "freed" => c \notin Members(children[k])
         /\ \A g \in Groups : group[g].status # "freed" => c \notin Members(group[g].queue)
    /\ info[c].status = "made" =>
         /\ info[c].parent # None => info[info[c].parent].status # "freed"
         /\ info[c].group # None => group[info[c].group].status = "made"

(* Everybody gets to the end: no wake-up is lost, nobody waits for others  *)
(* who wait for it.                                                        *)
AllFinish == <>AllDone

=============================================================================
