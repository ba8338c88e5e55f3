------------------------------- MODULE MCLocks -------------------------------
(***************************************************************************)
(* What threads wait for each other with, for TLC: the locks of NestLock,  *)
(* the semaphore of GompSem (S), or the constructs of ArincServices on its *)
(* two mutexes.  They share no state, so a behaviour is one of the side    *)
(* chosen at the start, with the variables of the others at rest.          *)
(***************************************************************************)
EXTENDS NestLock, ArincServices

CONSTANT MaxCount

VARIABLES side, sem, local, place

S == INSTANCE GompSem WITH pc <- place

ASSUME SemaphoreAssumption == S!MaxCountAssumption

semVars == <<sem, local, place>>
allVars == <<side, lockVars, semVars, servicesVars>>

MCInit == /\ side \in {"locks", "semaphore", "services"}
          /\ LocksInit
          /\ S!Init
          /\ ServicesInit
          /\ side # "locks" => kind = "simple"

LockSide(Action) == side = "locks" /\ Action /\ UNCHANGED <<side, semVars, servicesVars>>
SemSide(Action)  == side = "semaphore" /\ Action /\ UNCHANGED <<side, lockVars, servicesVars>>
ServicesSide(Action) == side = "services" /\ Action /\ UNCHANGED <<side, lockVars, semVars>>

MCNext == LockSide(LocksNext) \/ SemSide(S!Next) \/ ServicesSide(ServicesNext)

(* The fairness of FairLocksSpec, of the semaphore's FairSpec and of       *)
(* FairServicesSpec.                                                       *)
MCSpec ==
  /\ MCInit
  /\ [][MCNext]_allVars
  /\ \A t \in Threads :
       /\ WF_lockVars(LockSide(kind = "simple" /\ Step(t) /\ UNCHANGED <<nestVars, kind>>))
       /\ WF_lockVars(LockSide(kind # "simple" /\ NestStep(t) /\ UNCHANGED kind))
       /\ WF_lockVars(LockSide(kind # "simple" /\ Unset(t) /\ UNCHANGED kind))
       /\ SF_lockVars(LockSide(kind # "simple" /\ LastUnset(t) /\ UNCHANGED kind))
       /\ WF_semVars(SemSide(S!Step(t)))
  /\ WF_lockVars(LockSide(kind = "simple" /\ (\E t \in Threads : Unlock(t))
                            /\ UNCHANGED <<nestVars, kind>>))
  /\ \A t \in Members : WF_servicesVars(ServicesSide(Proceed(t)))

-----------------------------------------------------------------------------

(* The futex semaphore is a semaphore: each wait uses a post of its own    *)
(* and no post is lost on the way to a waiting thread.                     *)
ImplementsFairSemaphore == S!ImplementsFairSemaphore

-----------------------------------------------------------------------------

MCMembers  == {"t1", "t2", "t3"}

AllOfThem == {"single", "critical", "task", "target"}
Forbidden == {"task", "target"}
=============================================================================
