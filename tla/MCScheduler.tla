---------------------------- MODULE MCScheduler ----------------------------
(***************************************************************************)
(* Scheduler for TLC.                                                      *)
(***************************************************************************)
EXTENDS Scheduler

\* One class of each kind; task_classes has seven.
Classes == <<"Other", "UpdateChildren", "UpdateROAs">>
=============================================================================
