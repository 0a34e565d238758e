-------------------------- MODULE MCRealtimeFeed --------------------------
(* Model-checking instances of RealtimeFeed. *)
EXTENDS RealtimeFeed

EveryFault == FaultKinds
=============================================================================
