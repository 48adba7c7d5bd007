-------------------------- MODULE MC_TaskScheduler --------------------------
(* Instances of TaskScheduler for TLC.                                     *)
EXTENDS TaskScheduler
=============================================================================
