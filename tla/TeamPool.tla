------------------------------- MODULE TeamPool -------------------------------
(***************************************************************************)
(* The thread pool of team.c: one initial thread (the Master) runs a       *)
(* sequence of non-nested parallel regions and then exits; the Workers are *)
(* created when a region needs more threads than the pool holds, wait      *)
(* between regions on the dock (pool->threads_dock), and exit when a       *)
(* region leaves them without a function.  gomp_new_team, gomp_team_start, *)
(* gomp_thread_start, gomp_team_end and gomp_free_thread are whole; thread *)
(* affinity (gomp_places_list = NULL) is left out.                         *)
(*                                                                         *)
(* Both barriers, the dock and the final barrier of a team, are counters   *)
(* with a generation; sleeping on the generation is in TeamBarrier, here a *)
(* waiter simply waits.  Generations do not wrap around.                   *)
(***************************************************************************)
EXTENDS Integers, Sequences, FiniteSets

CONSTANTS
  Master,    \* the initial thread
  Workers,   \* the threads pthread_create may return
  Regions    \* Regions[r]: [threads |-> what gomp_team_start is asked for,
             \*              team |-> what gomp_new_team is asked for]

ASSUME MasterAssumption == Master \notin Workers
ASSUME RegionsAssumption ==
  Regions \in Seq([threads : Nat \ {0}, team : Nat \ {0}])

Threads   == Workers \cup {Master}
RegionIds == 1 .. Len(Regions)
TeamIds   == RegionIds            \* a region allocates at most one team
NoTeam    == 0
NULL      == 0                    \* the function of no region
Helper    == -1                   \* gomp_free_pool_helper
NoThread  == "none"
Dock      == -1                   \* pool->threads_dock, among the teams' barriers
MaxThreads == CHOOSE n \in {Regions[r].threads : r \in RegionIds} :
                \A r \in RegionIds : Regions[r].threads <= n
Ids       == 0 .. MaxThreads - 1

VARIABLES
  region,           \* the region the master is in, or has reached
  team,             \* the master's team
  index,            \* i of gomp_team_start and of gomp_free_thread
  old_threads_used, \* of gomp_team_start
  pool,             \* pool->threads_used, last_team and threads; freed
  managed,          \* gomp_managed_threads
  bar,              \* bar[b]: awaited, total and generation of barrier b
  status,           \* status[k] of team k: "none", "live" or "freed"
  thr,              \* thr[t]: ts.team, ts.team_id and fn of struct gomp_thread
  local,            \* local[t]: local_fn and team of gomp_thread_start
  at, ret, seen,    \* the barrier t is at, where t goes next, t's state
  ran,              \* ran[r][id]: how often the id has run region r's function
  pc

masterVars  == <<region, team, index, old_threads_used>>
barrierVars == <<bar, at, ret, seen>>
vars == <<masterVars, pool, managed, barrierVars, status, thr, local, ran, pc>>

Size == Regions[region].threads

Init ==
  /\ region = 1 /\ team = NoTeam /\ index = 1 /\ old_threads_used = 0
  /\ pool = [threads_used |-> 0, last_team |-> NoTeam, freed |-> FALSE,
             threads |-> [i \in Ids |-> NoThread]]
  /\ managed = 1
  /\ bar = [b \in TeamIds \cup {Dock} |-> [awaited |-> 0, total |-> 0, generation |-> 0]]
  /\ status = [k \in TeamIds |-> "none"]
  /\ thr = [t \in Threads |-> [team |-> NoTeam, id |-> 0, fn |-> NULL]]
  /\ local = [t \in Threads |-> [fn |-> NULL, team |-> NoTeam]]
  /\ at = [t \in Threads |-> Dock]
  /\ ret = [t \in Threads |-> "idle"]
  /\ seen = [t \in Threads |-> 0]
  /\ ran = [r \in RegionIds |-> [i \in Ids |-> 0]]
  /\ pc = [t \in Threads |-> IF t = Master THEN "idle" ELSE "unborn"]

Goto(t, place) == pc' = [pc EXCEPT ![t] = place]

(* Thread t calls a wait function of barrier b and then goes on at next. *)
Enter(t, b, next) == /\ at' = [at EXCEPT ![t] = b]
                     /\ ret' = [ret EXCEPT ![t] = next]
                     /\ Goto(t, "load")
                     /\ UNCHANGED seen

NewBarrier(n)    == [awaited |-> n, total |-> n, generation |-> 0]
(* gomp_barrier_reinit *)
Reinit(b, n)     == [b EXCEPT !.awaited = b.awaited + n - b.total, !.total = n]

-----------------------------------------------------------------------------
(* The barriers.  The last thread resets the counter and opens; the others *)
(* wait, except that gomp_free_pool_helper's gomp_barrier_wait_last does   *)
(* not.                                                                    *)

LoadGeneration(t) ==
  /\ pc[t] = "load"
  /\ seen' = [seen EXCEPT ![t] = bar[at[t]].generation]
  /\ Goto(t, "arrive")
  /\ UNCHANGED <<masterVars, pool, managed, bar, at, ret, status, thr, local, ran>>

Arrive(t) ==
  /\ pc[t] = "arrive"
  /\ bar' = [bar EXCEPT ![at[t]].awaited = @ - 1]
  /\ Goto(t, IF bar[at[t]].awaited = 1 THEN "reset"
             ELSE IF ret[t] = "gone" THEN "gone" ELSE "wait")
  /\ UNCHANGED <<masterVars, pool, managed, at, ret, seen, status, thr, local, ran>>

Reset(t) ==
  /\ pc[t] = "reset"
  /\ bar' = [bar EXCEPT ![at[t]].awaited = bar[at[t]].total]
  /\ Goto(t, "open")
  /\ UNCHANGED <<masterVars, pool, managed, at, ret, seen, status, thr, local, ran>>

Open(t) ==
  /\ pc[t] = "open"
  /\ bar' = [bar EXCEPT ![at[t]].generation = @ + 1]
  /\ Goto(t, ret[t])
  /\ UNCHANGED <<masterVars, pool, managed, at, ret, seen, status, thr, local, ran>>

(* The dock lets a thread go on any other generation, the final barrier    *)
(* on the next one only.                                                   *)
Pass(t) ==
  /\ pc[t] = "wait"
  /\ IF at[t] = Dock THEN bar[Dock].generation # seen[t]
                     ELSE bar[at[t]].generation = seen[t] + 1
  /\ Goto(t, ret[t])
  /\ UNCHANGED <<masterVars, pool, managed, barrierVars, status, thr, local, ran>>

-----------------------------------------------------------------------------
(* The master starts a team. *)

(* mutant: the new team's barrier counts the other threads only *)
NewTeam_OthersOnly ==
  /\ pc[Master] = "idle" /\ region \in RegionIds
  /\ team' = region
  /\ bar' = [bar EXCEPT ![region] = NewBarrier(Regions[region].team - 1)]
  /\ status' = [status EXCEPT ![region] = "live"]
  /\ Goto(Master, "team_start")
  /\ UNCHANGED <<region, index, old_threads_used, pool, managed, at, ret, seen, thr, local, ran>>

(* gomp_new_team: the team of an earlier region of the same size is used   *)
(* again, its barrier as it was left.                                      *)
NewTeam ==
  /\ pc[Master] = "idle" /\ region \in RegionIds
  /\ LET n == Regions[region].team IN
     IF pool.last_team # NoTeam /\ bar[pool.last_team].total = n
     THEN /\ team' = pool.last_team
          /\ pool' = [pool EXCEPT !.last_team = NoTeam]
          /\ UNCHANGED <<bar, status>>
     ELSE /\ team' = region
          /\ bar' = [bar EXCEPT ![region] = NewBarrier(n)]
          /\ status' = [status EXCEPT ![region] = "live"]
          /\ UNCHANGED pool
  /\ Goto(Master, "team_start")
  /\ UNCHANGED <<region, index, old_threads_used, managed, at, ret, seen, thr, local, ran>>

(* The dock is made ready for the threads that will pass it into the       *)
(* region and, when the pool shrinks, for those that will leave.           *)
TeamStart ==
  /\ pc[Master] = "team_start" /\ Size > 1
  /\ old_threads_used' = pool.threads_used
  /\ index' = 1
  /\ pool' = [pool EXCEPT !.threads_used = Size]
  /\ bar' = CASE pool.threads_used = 0    -> [bar EXCEPT ![Dock] = NewBarrier(Size)]
              [] pool.threads_used >= Size -> bar
              [] OTHER                    -> [bar EXCEPT ![Dock] = Reinit(bar[Dock], Size)]
  /\ thr' = [thr EXCEPT ![Master] = [team |-> team, id |-> 0, fn |-> NULL]]
  /\ Goto(Master, "assign")
  /\ UNCHANGED <<region, team, managed, at, ret, seen, status, local, ran>>

(* A team of one runs its function at once, whatever the pool holds. *)
TeamStartAlone ==
  /\ pc[Master] = "team_start" /\ Size = 1
  /\ thr' = [thr EXCEPT ![Master] = [team |-> team, id |-> 0, fn |-> NULL]]
  /\ local' = [local EXCEPT ![Master] = [fn |-> region, team |-> team]]
  /\ Goto(Master, "body")
  /\ UNCHANGED <<masterVars, pool, managed, barrierVars, status, ran>>

(* The next idle thread of the pool becomes a member of the team. *)
AssignIdle ==
  /\ pc[Master] = "assign" /\ index < Size /\ index < old_threads_used
  /\ thr' = [thr EXCEPT ![pool.threads[index]] = [team |-> team, id |-> index, fn |-> region]]
  /\ index' = index + 1
  /\ UNCHANGED <<region, team, old_threads_used, pool, managed, barrierVars, status, local,
                 ran, pc>>

(* Past the idle threads: the counter goes up before threads are created. *)
AssignDone ==
  /\ pc[Master] = "assign" /\ (index = Size \/ index >= old_threads_used)
  /\ IF index = Size
     THEN /\ Enter(Master, Dock, "docked")
          /\ UNCHANGED managed
     ELSE /\ managed' = managed + Size - old_threads_used - (IF old_threads_used = 0 THEN 1 ELSE 0)
          /\ Goto(Master, "create")
          /\ UNCHANGED <<at, ret, seen>>
  /\ UNCHANGED <<masterVars, pool, bar, status, thr, local, ran>>

(* pthread_create: the new thread finds in start_data what is in thr here. *)
Create ==
  /\ pc[Master] = "create" /\ index < Size
  /\ \E w \in Workers :
       /\ pc[w] = "unborn"
       /\ thr' = [thr EXCEPT ![w] = [team |-> team, id |-> index, fn |-> NULL]]
       /\ local' = [local EXCEPT ![w] = [fn |-> region, team |-> team]]
       /\ Goto(w, "start")
  /\ index' = index + 1
  /\ UNCHANGED <<region, team, old_threads_used, pool, managed, barrierVars, status, ran>>

CreateDone ==
  /\ pc[Master] = "create" /\ index = Size
  /\ Enter(Master, Dock, "docked")
  /\ UNCHANGED <<masterVars, pool, managed, bar, status, thr, local, ran>>

(* mutant: the threads that leave are still expected at the dock *)
Released_NoReinit ==
  /\ pc[Master] = "docked"
  /\ managed' = IF Size < old_threads_used THEN managed + Size - old_threads_used ELSE managed
  /\ local' = [local EXCEPT ![Master] = [fn |-> region, team |-> team]]
  /\ Goto(Master, "body")
  /\ UNCHANGED <<masterVars, pool, barrierVars, status, thr, ran>>

(* Past the dock: the dock forgets the threads that leave. *)
Released ==
  /\ pc[Master] = "docked"
  /\ IF Size < old_threads_used
     THEN /\ bar' = [bar EXCEPT ![Dock] = Reinit(bar[Dock], Size)]
          /\ managed' = managed + Size - old_threads_used
     ELSE UNCHANGED <<bar, managed>>
  /\ local' = [local EXCEPT ![Master] = [fn |-> region, team |-> team]]
  /\ Goto(Master, "body")
  /\ UNCHANGED <<masterVars, pool, at, ret, seen, status, thr, ran>>

-----------------------------------------------------------------------------
(* What every thread of the team does. *)

(* The function of the region returns; the thread goes to the end barrier. *)
RunFn(t) ==
  /\ pc[t] = "body"
  /\ ran' = [ran EXCEPT ![local[t].fn][thr[t].id] = @ + 1]
  /\ Enter(t, local[t].team, IF t = Master THEN "team_end" ELSE "finish_task")
  /\ UNCHANGED <<masterVars, pool, managed, bar, status, thr, local>>

(* mutant: every team is freed at its end *)
TeamEnd_FreesNow ==
  /\ pc[Master] = "team_end"
  /\ status' = [status EXCEPT ![team] = "freed"]
  /\ thr' = [thr EXCEPT ![Master].team = NoTeam]
  /\ team' = NoTeam
  /\ region' = region + 1
  /\ Goto(Master, "idle")
  /\ UNCHANGED <<index, old_threads_used, pool, managed, barrierVars, local, ran>>

(* gomp_team_end: a team of one is freed, another is kept as last_team and *)
(* the one that was kept before is freed.                                  *)
TeamEnd ==
  /\ pc[Master] = "team_end"
  /\ IF bar[team].total = 1
     THEN /\ status' = [status EXCEPT ![team] = "freed"]
          /\ UNCHANGED pool
     ELSE /\ status' = [k \in TeamIds |-> IF k = pool.last_team THEN "freed" ELSE status[k]]
          /\ pool' = [pool EXCEPT !.last_team = team]
  /\ thr' = [thr EXCEPT ![Master].team = NoTeam]
  /\ team' = NoTeam
  /\ region' = region + 1
  /\ Goto(Master, "idle")
  /\ UNCHANGED <<index, old_threads_used, managed, barrierVars, local, ran>>

-----------------------------------------------------------------------------
(* A worker: gomp_thread_start. *)

ThreadStart(w) ==
  /\ pc[w] = "start"
  /\ pool' = [pool EXCEPT !.threads[thr[w].id] = w]
  /\ Enter(w, Dock, "body")
  /\ UNCHANGED <<masterVars, managed, bar, status, thr, local, ran>>

(* gomp_finish_task looks into the task, which is part of the team. *)
FinishTask(w) ==
  /\ pc[w] = "finish_task"
  /\ Enter(w, Dock, "undock")
  /\ UNCHANGED <<masterVars, pool, managed, bar, status, thr, local, ran>>

(* mutant: the function of the last region is left in the thread *)
Undock_KeepsFn(w) ==
  /\ pc[w] = "undock"
  /\ local' = [local EXCEPT ![w] = [fn |-> thr[w].fn, team |-> thr[w].team]]
  /\ CASE thr[w].fn = NULL   -> Goto(w, "gone") /\ UNCHANGED <<at, ret, seen>>
       [] thr[w].fn = Helper -> Enter(w, Dock, "gone")
       [] OTHER              -> Goto(w, "body") /\ UNCHANGED <<at, ret, seen>>
  /\ UNCHANGED <<masterVars, pool, managed, bar, status, thr, ran>>

(* Out of the dock: the thread takes its function and team, and exits if   *)
(* it has no function.                                                     *)
Undock(w) ==
  /\ pc[w] = "undock"
  /\ local' = [local EXCEPT ![w] = [fn |-> thr[w].fn, team |-> thr[w].team]]
  /\ thr' = [thr EXCEPT ![w].fn = NULL]
  /\ CASE thr[w].fn = NULL   -> Goto(w, "gone") /\ UNCHANGED <<at, ret, seen>>
       [] thr[w].fn = Helper -> Enter(w, Dock, "gone")
       [] OTHER              -> Goto(w, "body") /\ UNCHANGED <<at, ret, seen>>
  /\ UNCHANGED <<masterVars, pool, managed, bar, status, ran>>

-----------------------------------------------------------------------------
(* The initial thread exits: gomp_free_thread. *)

ThreadExit ==
  /\ pc[Master] = "idle" /\ region \notin RegionIds
  /\ index' = 1
  /\ Goto(Master, IF pool.threads_used > 0 THEN "free_threads" ELSE "free_pool")
  /\ UNCHANGED <<region, team, old_threads_used, pool, managed, barrierVars, status, thr, local,
                 ran>>

AssignHelper ==
  /\ pc[Master] = "free_threads" /\ index < pool.threads_used
  /\ thr' = [thr EXCEPT ![pool.threads[index]].fn = Helper]
  /\ index' = index + 1
  /\ UNCHANGED <<region, team, old_threads_used, pool, managed, barrierVars, status, local, ran,
                 pc>>

Undocking ==
  /\ \/ /\ pc[Master] = "free_threads" /\ index >= pool.threads_used
        /\ Enter(Master, Dock, "undocked")
     \/ /\ pc[Master] = "undocked"
        /\ Enter(Master, Dock, "unmanage")
  /\ UNCHANGED <<masterVars, pool, managed, bar, status, thr, local, ran>>

Unmanage ==
  /\ pc[Master] = "unmanage"
  /\ managed' = managed + 1 - pool.threads_used
  /\ Goto(Master, "free_pool")
  /\ UNCHANGED <<masterVars, pool, barrierVars, status, thr, local, ran>>

FreePool ==
  /\ pc[Master] = "free_pool"
  /\ status' = [k \in TeamIds |-> IF k = pool.last_team THEN "freed" ELSE status[k]]
  /\ pool' = [pool EXCEPT !.freed = TRUE]
  /\ Goto(Master, "gone")
  /\ UNCHANGED <<masterVars, managed, barrierVars, thr, local, ran>>

-----------------------------------------------------------------------------

Step(t) == LoadGeneration(t) \/ Arrive(t) \/ Reset(t) \/ Open(t) \/ Pass(t) \/ RunFn(t)

MasterStep == \/ Step(Master)
              \/ NewTeam \/ TeamStart \/ TeamStartAlone \/ AssignIdle \/ AssignDone
              \/ Create \/ CreateDone \/ Released \/ TeamEnd
              \/ ThreadExit \/ AssignHelper \/ Undocking \/ Unmanage \/ FreePool

WorkerStep(w) == Step(w) \/ ThreadStart(w) \/ FinishTask(w) \/ Undock(w)

AllGone == pc[Master] = "gone" /\ \A w \in Workers : pc[w] \in {"unborn", "gone"}

Next == \/ MasterStep
        \/ \E w \in Workers : WorkerStep(w)
        \/ AllGone /\ UNCHANGED vars

Spec == Init /\ [][Next]_vars

(* The operating system runs every thread that can run. *)
FairSpec == Spec /\ WF_vars(MasterStep) /\ \A w \in Workers : WF_vars(WorkerStep(w))

-----------------------------------------------------------------------------

(* The comment before gomp_team_end, "we must wait for the other threads": *)
(* when the master is past a region, every thread of the region's team has *)
(* run the region's function to its end.                                   *)
TeamEndWaits ==
  \A r \in RegionIds : r < region
    => \A i \in 0 .. Regions[r].threads - 1 : ran[r][i] = 1

(* No member runs a region's function a second time, no thread that is not *)
(* a member runs it at all, and all that run at a time run the same region *)
(* under different ids: no thread is released with the function or the id  *)
(* of an earlier region.                                                   *)
NoStaleFunction ==
  /\ \A r \in RegionIds : \A i \in Ids :
       ran[r][i] <= IF i < Regions[r].threads THEN 1 ELSE 0
  /\ \A t, u \in Threads :
       t # u /\ pc[t] = "body" /\ pc[u] = "body"
         => local[t] = local[u] /\ thr[t].id # thr[u].id

(* Thread t is at a step that reads or writes a freed team.                *)
UsesTeam(t) ==
  \/ pc[t] \in {"load", "arrive", "reset", "open", "wait"} /\ at[t] # Dock
     /\ status[at[t]] = "freed"
  \/ pc[t] \in {"start", "body", "finish_task"} /\ status[local[t].team] = "freed"

AtDock(t) == pc[t] \in {"load", "arrive", "reset", "open", "wait"} /\ at[t] = Dock

(* No thread uses a team that gomp_team_end or gomp_free_thread has freed, *)
(* nor start_data when the master has left gomp_team_start.                *)
TeamOutlivesUse ==
  \A t \in Threads :
    /\ ~UsesTeam(t)
    /\ pc[t] = "start" => pc[Master] \in {"create", "load", "arrive", "wait"}

(* The comment in gomp_free_thread, "now it is safe to destroy the barrier *)
(* and free the pool": nobody is at the dock of a freed pool.  A thread    *)
(* that a smaller region has let go may still be there.                    *)
DockOutlivesUse == \A t \in Threads : ~(pool.freed /\ AtDock(t))

(* What is left of that comment: the dock of a freed pool is looked at by  *)
(* nobody but threads that a smaller region has let go and that have not   *)
(* seen it open yet.                                                       *)
OnlyLetGoAtFreedDock ==
  \A t \in Threads : pool.freed /\ AtDock(t) => pc[t] = "wait" /\ thr[t].fn = NULL

(* Every region ends, and every thread the library has created exits. *)
AllExit == <>(AllGone /\ managed = 1)
=============================================================================
