---------------------------- MODULE ArincServices ----------------------------
(***************************************************************************)
(* The constructs the ARINC 653 layer takes over (Arinc653.c): single on   *)
(* SINGLE_MUTEX (GOMP_single_start), critical on CRITICAL_MUTEX            *)
(* (GOMP_critical_start and _end), and the refusal of task and target,     *)
(* which ends the process (GOMP_task, GOMP_target, GOMP_target_ext).  END  *)
(* is a static variable of task.c and another of target.c.                 *)
(* A pthread mutex is its owner or "free"; a thread that locks one that it *)
(* already owns waits for ever (PTHREAD_MUTEX_DEFAULT).                    *)
(*                                                                         *)
(* Each of the Members of one team executes up to Bound constructs; single *)
(* constructs are met by all in the same order, without a barrier.         *)
(***************************************************************************)
EXTENDS Integers, FiniteSets

CONSTANTS
  Members,
  Constructs,   \* those of the program: "single", "critical", "task", "target"
  InCritical,   \* those inside of a critical construct: "task", "target"
  Bound         \* how many constructs a thread executes

Refusable == {"task", "target"}

ASSUME MembersAssumption == "free" \notin Members
ASSUME ConstructAssumption == /\ Constructs \subseteq {"single", "critical", "task", "target"}
                              /\ InCritical \subseteq Refusable
                              /\ Bound \in Nat

VARIABLES
  single_count,    \* team->single_count
  mine,            \* mine[t]: thr->ts.single_count
  ran,             \* ran[k]: how many threads have been let into single k
  SINGLE_MUTEX, CRITICAL_MUTEX,
  END, messages,   \* END[c] of the file that refuses c; its calls of perror
  exited,          \* the process is gone
  construct,       \* construct[t]: the refused construct t is at
  inside,          \* inside[t]: t is between critical_start and _end
  left,            \* left[t]: constructs t may still execute
  point

singleVars  == <<single_count, mine, ran, SINGLE_MUTEX>>
refusalVars == <<END, messages, exited, construct>>
servicesVars == <<singleVars, CRITICAL_MUTEX, refusalVars, inside, left, point>>

GoOn(t, next) == point' = [point EXCEPT ![t] = next]
Home(t) == IF inside[t] THEN "critical" ELSE "run"

ServicesInit == /\ single_count = 0
                /\ mine = [t \in Members |-> 0]
                /\ ran = [k \in 0 .. Bound |-> 0]
                /\ SINGLE_MUTEX = "free" /\ CRITICAL_MUTEX = "free"
                /\ END = [c \in Refusable |-> FALSE]
                /\ messages = [c \in Refusable |-> 0]
                /\ exited = FALSE
                /\ construct = [t \in Members |-> "none"]
                /\ inside = [t \in Members |-> FALSE]
                /\ left = [t \in Members |-> Bound]
                /\ point = [t \in Members |-> "run"]

(* Thread t meets construct c of its program. *)
Meets(t, c) == /\ point[t] = "run" /\ left[t] > 0 /\ c \in Constructs
               /\ left' = [left EXCEPT ![t] = @ - 1]

-----------------------------------------------------------------------------
(* GOMP_single_start: the thread's own number of the construct is compared *)
(* with, and stored into, the team's count.                                *)

SingleStart(t) ==
  /\ Meets(t, "single")
  /\ mine' = [mine EXCEPT ![t] = @ + 1]
  /\ GoOn(t, "single_lock")
  /\ UNCHANGED <<single_count, ran, SINGLE_MUTEX, CRITICAL_MUTEX, refusalVars, inside>>

(* mutant: the mutex is not waited for *)
SingleLock_Ignored(t) ==
  /\ point[t] = "single_lock"
  /\ GoOn(t, "single_compare")
  /\ UNCHANGED <<singleVars, CRITICAL_MUTEX, refusalVars, inside, left>>

SingleLock(t) ==
  /\ point[t] = "single_lock"
  /\ SINGLE_MUTEX = "free"
  /\ SINGLE_MUTEX' = t
  /\ GoOn(t, "single_compare")
  /\ UNCHANGED <<single_count, mine, ran, CRITICAL_MUTEX, refusalVars, inside, left>>

SingleCompare(t) ==
  /\ point[t] = "single_compare"
  /\ GoOn(t, IF single_count # mine[t] - 1 THEN "single_lost" ELSE "single_set")
  /\ UNCHANGED <<singleVars, CRITICAL_MUTEX, refusalVars, inside, left>>

SingleSet(t) ==
  /\ point[t] = "single_set"
  /\ single_count' = mine[t]
  /\ GoOn(t, "single_won")
  /\ UNCHANGED <<mine, ran, SINGLE_MUTEX, CRITICAL_MUTEX, refusalVars, inside, left>>

SingleUnlock(t) ==
  /\ point[t] \in {"single_lost", "single_won"}
  /\ SINGLE_MUTEX' = "free"
  /\ ran' = IF point[t] = "single_won" THEN [ran EXCEPT ![mine[t] - 1] = @ + 1] ELSE ran
  /\ GoOn(t, "run")
  /\ UNCHANGED <<single_count, mine, CRITICAL_MUTEX, refusalVars, inside, left>>

-----------------------------------------------------------------------------
(* GOMP_critical_start and GOMP_critical_end. *)

CriticalStart(t) ==
  /\ Meets(t, "critical")
  /\ GoOn(t, "critical_lock")
  /\ UNCHANGED <<singleVars, CRITICAL_MUTEX, refusalVars, inside>>

(* mutant: a copy of the mutex is locked, one for each thread *)
CriticalLock_OwnCopy(t) ==
  /\ point[t] = "critical_lock"
  /\ inside' = [inside EXCEPT ![t] = TRUE]
  /\ GoOn(t, "critical")
  /\ UNCHANGED <<singleVars, CRITICAL_MUTEX, refusalVars, left>>

CriticalLock(t) ==
  /\ point[t] = "critical_lock"
  /\ CRITICAL_MUTEX = "free"
  /\ CRITICAL_MUTEX' = t
  /\ inside' = [inside EXCEPT ![t] = TRUE]
  /\ GoOn(t, "critical")
  /\ UNCHANGED <<singleVars, refusalVars, left>>

CriticalEnd(t) ==
  /\ point[t] = "critical"
  /\ CRITICAL_MUTEX' = "free"
  /\ inside' = [inside EXCEPT ![t] = FALSE]
  /\ GoOn(t, "run")
  /\ UNCHANGED <<singleVars, refusalVars, left>>

-----------------------------------------------------------------------------
(* GOMP_task and GOMP_target: the first caller of each ends the process; a *)
(* later GOMP_task returns at once, a later GOMP_target goes on to the     *)
(* region.                                                                 *)

Refused(t) ==
  /\ \E c \in Refusable :
       /\ \/ Meets(t, c)
          \/ point[t] = "critical" /\ c \in InCritical /\ UNCHANGED left
       /\ construct' = [construct EXCEPT ![t] = c]
  /\ GoOn(t, "refuse_lock")
  /\ UNCHANGED <<singleVars, CRITICAL_MUTEX, END, messages, exited, inside>>

RefuseLock(t) ==
  /\ point[t] = "refuse_lock"
  /\ CRITICAL_MUTEX = "free"
  /\ CRITICAL_MUTEX' = t
  /\ GoOn(t, "refuse_check")
  /\ UNCHANGED <<singleVars, refusalVars, inside, left>>

(* mutant: the refusal is not remembered *)
RefuseCheck_ForgetsEnd(t) ==
  /\ point[t] = "refuse_check"
  /\ messages' = [messages EXCEPT ![construct[t]] = @ + 1]
  /\ GoOn(t, "refuse_exit")
  /\ UNCHANGED <<singleVars, CRITICAL_MUTEX, END, exited, construct, inside, left>>

RefuseCheck(t) ==
  /\ point[t] = "refuse_check"
  /\ IF END[construct[t]]
     THEN GoOn(t, "refuse_return") /\ UNCHANGED <<END, messages>>
     ELSE /\ END' = [END EXCEPT ![construct[t]] = TRUE]
          /\ messages' = [messages EXCEPT ![construct[t]] = @ + 1]
          /\ GoOn(t, "refuse_exit")
  /\ UNCHANGED <<singleVars, CRITICAL_MUTEX, exited, construct, inside, left>>

RefuseUnlock(t) ==
  /\ point[t] \in {"refuse_return", "refuse_exit"}
  /\ CRITICAL_MUTEX' = "free"
  /\ GoOn(t, IF point[t] = "refuse_exit" THEN "exit"
             ELSE IF construct[t] = "task" THEN Home(t) ELSE "target_region")
  /\ UNCHANGED <<singleVars, refusalVars, inside, left>>

TargetRegion(t) ==
  /\ point[t] = "target_region"
  /\ GoOn(t, Home(t))
  /\ UNCHANGED <<singleVars, CRITICAL_MUTEX, refusalVars, inside, left>>

(* mutant: the first caller carries on *)
Exit_Continues(t) ==
  /\ point[t] = "exit"
  /\ GoOn(t, Home(t))
  /\ UNCHANGED <<singleVars, CRITICAL_MUTEX, refusalVars, inside, left>>

(* exit (EXIT_FAILURE): no thread of the process runs any more. *)
Exit(t) ==
  /\ point[t] = "exit"
  /\ exited' = TRUE
  /\ point' = [u \in Members |-> "dead"]
  /\ UNCHANGED <<singleVars, CRITICAL_MUTEX, END, messages, construct, inside, left>>

-----------------------------------------------------------------------------

(* What a thread does once it is in a construct. *)
Proceed(t) == \/ SingleLock(t) \/ SingleCompare(t) \/ SingleSet(t) \/ SingleUnlock(t)
              \/ CriticalLock(t) \/ CriticalEnd(t)
              \/ RefuseLock(t) \/ RefuseCheck(t) \/ RefuseUnlock(t) \/ TargetRegion(t) \/ Exit(t)

(* The program: which construct comes next, if any. *)
Program(t) == SingleStart(t) \/ CriticalStart(t) \/ Refused(t)

(* Thread t waits for CRITICAL_MUTEX, which it holds itself.               *)
SelfLocked(t) == point[t] = "refuse_lock" /\ CRITICAL_MUTEX = t

(* The process is gone, or every thread is through or waits for a thread   *)
(* that waits for itself.                                                  *)
Stopped == \/ exited
           \/ \A t \in Members :
                \/ point[t] = "run"
                \/ point[t] \in {"critical_lock", "refuse_lock"} /\ \E u \in Members : SelfLocked(u)

ServicesNext == \/ \E t \in Members : Proceed(t) \/ Program(t)
                \/ Stopped /\ UNCHANGED servicesVars

ServicesSpec == ServicesInit /\ [][ServicesNext]_servicesVars

(* Every thread that can run does, and a critical construct ends. *)
FairServicesSpec == ServicesSpec /\ \A t \in Members : WF_servicesVars(Proceed(t))

-----------------------------------------------------------------------------

Points == {"run", "single_lock", "single_compare", "single_lost", "single_set", "single_won",
           "critical_lock", "critical", "refuse_lock", "refuse_check", "refuse_return",
           "refuse_exit", "target_region", "exit", "dead"}

ServicesTypeOK == /\ single_count \in 0 .. Bound
                  /\ mine \in [Members -> 0 .. Bound]
                  /\ ran \in [0 .. Bound -> Nat]
                  /\ SINGLE_MUTEX \in Members \cup {"free"}
                  /\ CRITICAL_MUTEX \in Members \cup {"free"}
                  /\ END \in [Refusable -> BOOLEAN]
                  /\ messages \in [Refusable -> Nat]
                  /\ exited \in BOOLEAN
                  /\ construct \in [Members -> {"none"} \cup Refusable]
                  /\ inside \in [Members -> BOOLEAN]
                  /\ left \in [Members -> 0 .. Bound]
                  /\ point \in [Members -> Points]

InSingle(t) == point[t] \in {"single_lock", "single_compare", "single_lost", "single_set",
                             "single_won"}

(* Threads that run ahead of each other through single constructs: nobody  *)
(* is let into one a second time, and one that some thread has gone past   *)
(* has been run, or its winner is about to, unless the process has ended.  *)
SingleOnce ==
  \A k \in 0 .. Bound :
    /\ ran[k] <= 1
    /\ (\E t \in Members : mine[t] > k /\ ~(mine[t] = k + 1 /\ InSingle(t)))
         => ran[k] = 1 \/ exited \/ \E t \in Members : mine[t] = k + 1 /\ point[t] = "single_won"

(* Critical constructs and the refusal's check exclude each other. *)
CriticalExclusive ==
  \A t, u \in Members :
    LET Holds(v) == point[v] \in {"critical", "refuse_check", "refuse_exit", "refuse_return"} IN
    t # u => ~(Holds(t) /\ Holds(u))

(* The comment in GOMP_task and GOMP_target, to print only one error       *)
(* message, holds of each of the two messages.  Both may be printed, by a  *)
(* thread that is refused a task and one that is refused a target.         *)
OneMessage == \A c \in Refusable : messages[c] <= 1

(* When a thread has met a forbidden construct the process ends, unless a  *)
(* thread met one inside of a critical construct: that one waits for ever  *)
(* for the mutex it holds.                                                 *)
RefusalEnds ==
  \A t \in Members : point[t] = "refuse_lock" ~> (exited \/ \E u \in Members : SelfLocked(u))
=============================================================================
