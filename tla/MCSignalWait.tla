---------------------------- MODULE MCSignalWait ----------------------------
(* Instances of SignalWait for TLC. *)
EXTENDS SignalWait

MCModels == {"threaded", "process"}
=============================================================================
