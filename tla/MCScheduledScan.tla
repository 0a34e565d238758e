-------------------------- MODULE MCScheduledScan --------------------------
(* Model-checking instances of ScheduledScan. *)
EXTENDS ScheduledScan

EveryFault == FaultKinds
=============================================================================
