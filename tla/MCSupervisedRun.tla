-------------------------- MODULE MCSupervisedRun --------------------------
(* Values of the constants of SupervisedRun for TLC. *)
EXTENDS SupervisedRun
=============================================================================
