----------------------------- MODULE MCTaskTeam -----------------------------
(***************************************************************************)
(* TaskTeam for TLC: two or three threads, and regions in which tasks are  *)
(* waited for in every way, make tasks themselves, outlive the task that   *)
(* made them, have priorities and dependences, and are cancelled.          *)
(***************************************************************************)
EXTENDS TaskTeam

Do(op) == [op |-> op]

In(a)  == [addr |-> a, is_in |-> TRUE]
Out(a) == [addr |-> a, is_in |-> FALSE]

(* Taskloops of n tasks, and a task. *)
Loop(n, body)     == [op |-> "taskloop", num_tasks |-> n, priority |-> 0, nogroup |-> FALSE,
                      if |-> TRUE, cpyfn |-> FALSE, body |-> body, depend |-> <<>>]
Nogroup(n, body)  == [Loop(n, body) EXCEPT !.nogroup = TRUE]
Task(depend)      == [Nogroup(1, "leaf") EXCEPT !.op = "task", !.depend = depend]
By(body, task)    == [task EXCEPT !.body = body]
Urgent(loop)      == [loop EXCEPT !.priority = 1]
Copied(loop)      == [loop EXCEPT !.cpyfn = TRUE]
NotDeferred(loop) == [loop EXCEPT !.if = FALSE]

MCBodies ==
  [\* of tasks
   leaf      |-> <<>>,
   parent    |-> <<Nogroup(1, "leaf")>>,
   grouped   |-> <<Loop(1, "leaf")>>,
   canceller |-> <<Nogroup(1, "leaf"), Do("taskwait"), Do("cancel_taskgroup")>>,
   quit      |-> <<Do("cancel_taskgroup")>>,
   \* of implicit tasks
   end       |-> <<>>,
   barrier   |-> <<Do("barrier")>>,
   group     |-> <<Loop(2, "leaf"), Do("barrier")>>,
   wait      |-> <<Nogroup(1, "parent"), Do("taskwait")>>,
   groups    |-> <<Loop(1, "grouped")>>,
   leave     |-> <<Nogroup(1, "leaf"), Do("barrier")>>,
   run       |-> <<NotDeferred(Nogroup(1, "parent")), Do("taskwait")>>,
   many      |-> <<Loop(5, "leaf")>>,
   urgent    |-> <<Do("taskgroup_start"), Nogroup(1, "leaf"), Urgent(Loop(1, "leaf")),
                   Do("taskgroup_end")>>,
   cancel    |-> <<Do("taskgroup_start"), Nogroup(1, "canceller"), Copied(Nogroup(1, "leaf")),
                   Nogroup(1, "leaf"), Do("taskgroup_end")>>,
   giveup    |-> <<Copied(Nogroup(1, "leaf")), Do("cancel_parallel")>>,
   goon      |-> <<Do("barrier_cancel")>>,
   \* dependences
   chain     |-> <<Task(<<Out("a")>>), Task(<<In("a")>>), Task(<<In("a")>>), Do("taskwait")>>,
   join      |-> <<Task(<<In("a")>>), Task(<<In("a")>>), Task(<<Out("b"), Out("a"), In("a")>>)>>,
   awaits    |-> <<Task(<<Out("a")>>), Task(<<Out("a")>>), NotDeferred(Task(<<In("a")>>))>>,
   outside   |-> <<Task(<<Out("a")>>), Do("taskgroup_start"), Task(<<In("a")>>), Task(<<In("a")>>),
                   Do("taskgroup_end")>>,
   dropped   |-> <<Do("taskgroup_start"), By("quit", Task(<<Out("a")>>)), Task(<<In("a")>>),
                   Task(<<Out("a")>>), Do("taskgroup_end")>>]

MCRegions ==
  {<<"group", "barrier", "barrier">>, <<"leave", "barrier", "barrier">>,
   <<"wait", "end", "end">>, <<"groups", "end", "end">>, <<"run", "end", "end">>,
   <<"many", "end", "end">>, <<"urgent", "end">>, <<"cancel", "end">>,
   <<"giveup", "goon">>,
   <<"chain", "end", "end">>, <<"join", "end">>, <<"awaits", "end", "end">>,
   <<"outside", "end">>, <<"dropped", "end">>}
=============================================================================
