--------------------------- MODULE MCOrderLedger ---------------------------
(***************************************************************************)
(* Model-checking instances of OrderLedger.  Rows do not touch each other, *)
(* so the instances have one order; the proofs are for any set of them.    *)
(***************************************************************************)
EXTENDS OrderLedger

EveryFault == FaultKinds

(* The run without process faults: only the notice subscription comes and goes. *)
SubscriptionFaults == {"tracking"}
=============================================================================
