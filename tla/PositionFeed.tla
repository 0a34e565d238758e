---------------------------- MODULE PositionFeed ----------------------------
(***************************************************************************)
(* What the order ledger promises to the trading session: the executed     *)
(* quantity of an order only grows, up to the ordered quantity, and every  *)
(* unit of growth is handed to the session at most once.  A handed unit    *)
(* is applied to the position, or dropped, or lost with the process.       *)
(***************************************************************************)
EXTENDS Naturals

CONSTANTS Orders, Quantity

VARIABLES
    executed,  \* units recorded for the order
    held,      \* recorded units that are on their way to the position
    position   \* units applied to the position

vars == <<executed, held, position>>

Init ==
    /\ executed = [o \in Orders |-> 0]
    /\ held = [o \in Orders |-> 0]
    /\ position = [o \in Orders |-> 0]

Record(o, k) ==
    /\ executed[o] + k <= Quantity
    /\ executed' = [executed EXCEPT ![o] = @ + k]
    /\ held' = [held EXCEPT ![o] = @ + k]
    /\ position' = position

Apply(o, k) ==
    /\ k <= held[o]
    /\ held' = [held EXCEPT ![o] = @ - k]
    /\ position' = [position EXCEPT ![o] = @ + k]
    /\ executed' = executed

Drop(o, k) ==
    /\ k <= held[o]
    /\ held' = [held EXCEPT ![o] = @ - k]
    /\ UNCHANGED <<executed, position>>

Crash ==
    /\ held' = [o \in Orders |-> 0]
    /\ UNCHANGED <<executed, position>>

Next ==
    \/ \E o \in Orders, k \in 1 .. Quantity : Record(o, k) \/ Apply(o, k) \/ Drop(o, k)
    \/ Crash

Spec == Init /\ [][Next]_vars
=============================================================================
