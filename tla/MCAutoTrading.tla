--------------------------- MODULE MCAutoTrading ---------------------------
(***************************************************************************)
(* Model-checking instances of AutoTrading.  Order numbers are             *)
(* interchangeable; the symmetry is used by the run without liveness only. *)
(***************************************************************************)
EXTENDS AutoTrading, TLC

(* Silence only takes fairness away: it changes nothing that is safe. *)
EveryFault == FaultKinds \ {"silence"}

(* What the environment may do in the liveness run: KIS fails, cancels and falls *)
(* silent, but the process, its database and the user leave the session alone.   *)
ExchangeFaults == {"balance", "price", "cancel", "silence"}

Symmetry == Permutations(Orders)
=============================================================================
