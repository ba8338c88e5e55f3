---------------------------- MODULE MCTeamBarrier ----------------------------
(***************************************************************************)
(* TeamBarrier for TLC, for one region of two threads: one of them cancels *)
(* it while the other is still in the barrier before.                      *)
(***************************************************************************)
EXTENDS TeamBarrier

MCTwoThreads == {"master", "w1"}
MCMaster  == "master"

(* A single copyprivate, and a cancel directive after it. *)
CopyThenCancel == {[barriers |-> <<"wait", "cancel">>, cancellers |-> {MCMaster},
                    loop_cancellers |-> {}]}
=============================================================================
