---------------------------- MODULE AutoTrading ----------------------------
(***************************************************************************)
(* The exit protocol of one auto-trading session: AutoTradingService sells *)
(* the position through executeSell, called by the 30-second loop          *)
(* (checkSignalsAndTrade) and by price ticks (checkSellThresholdsForStock),*)
(* and buys through executeBuy, executeImmediateBuy and executeManualOrder.*)
(* An accepted full exit marks the session autoPausePending; the mark is   *)
(* resolved by the fills (pauseSessionAfterAutoSell), by a reject, by the  *)
(* balance (applyBalanceSnapshotToSessions, reconcilePendingAutoPauses) or *)
(* by the user.  Every await is a point where the other tasks run.         *)
(*                                                                         *)
(* The order ledger is taken at its promise (module PositionFeed): it      *)
(* records portions of what the exchange filled and hands each portion to  *)
(* applyConfirmedOrderExecution once.  Prices are a choice of signal.      *)
(***************************************************************************)
EXTENDS Naturals

CONSTANTS
    Loops,     \* overlapping runs of the 30-second loop
    Triggers,  \* price-triggered sell checks
    Manuals,   \* concurrent manual-order requests
    Orders,    \* KIS order numbers
    Shares,    \* shares the account holds at first, or none, and may ever hold
    Buys,      \* which buy signals occur: subset of {"entry", "add"}
    Faults     \* subset of FaultKinds

(* "balance": a balance inquiry fails; "database": saveHistory or a look for open  *)
(* orders fails; "price": a fill carries no usable price; "restart": the process   *)
(* restarts; "user": the user pauses, resumes and stops the session; "cancel": an  *)
(* order ends unfilled; "silence": polls and notices of an order end before it.    *)
FaultKinds == {"balance", "database", "price", "restart", "user", "cancel", "silence"}

Tasks == Loops \cup Triggers \cup Manuals

ASSUME AutoTradingAssumption ==
    /\ Shares \in Nat \ {0}
    /\ Buys \subseteq {"entry", "add"}
    /\ Faults \subseteq FaultKinds
    /\ Loops \cap Triggers = {} /\ Loops \cap Manuals = {} /\ Triggers \cap Manuals = {}

VARIABLES
    status,    \* the session row: active, paused or stopped ...
    pending,   \* ... autoPausePending
    holding,   \* ... holdingQty
    stage,     \* ... scaleOutStage
    lock,      \* the session is in sellInFlightSessionIds
    real,      \* the shares in the KIS account
    kind,      \* what an order is, "none" before it is accepted
    quantity,  \* its quantity
    exch,      \* KIS's own state of it
    filled,    \* and the shares it filled
    row,       \* its trade-history row: none, open or closed
    executed,  \* and the shares the row records
    inHand,    \* recorded portions <<first share, last share>> not applied yet
    rejecting, \* rejected orders whose row is closed, session not yet looked up
    unwatched, \* orders with an open row that nobody asks about any more
    pauser,    \* where pauseSessionAfterAutoSell of the order is
    pc,        \* where a task is
    want,      \* the order a task is about to place: its kind ...
    size,      \* ... its quantity ...
    placed,    \* ... and its number, a set with at most one element
    seen       \* what a loop last read: a balance, or whether an order was open

rowVars == <<status, pending, holding, stage>>
orderVars == <<kind, quantity, exch, filled>>
ledgerVars == <<row, executed, inHand, rejecting, unwatched>>
taskVars == <<pc, want, size, placed, seen>>

vars == <<status, pending, holding, stage, lock, real, kind, quantity, exch, filled, row,
          executed, inHand, rejecting, unwatched, pauser, pc, want, size, placed, seen>>

FullExits == {"sell", "tp1-all"}          \* metadata.pauseAfterSell
StageKinds == {"tp1-all", "tp1-part"}     \* metadata.stage
ExitKinds == FullExits \cup StageKinds    \* placed by executeSell
SellKinds == ExitKinds \cup {"manual-sell"}
BuyKinds == {"buy", "manual-buy"}
Kinds == {"none"} \cup SellKinds \cup BuyKinds
Steps == {"idle", "balance", "sync", "reconcileBalance", "reconcile", "rearm", "release",
          "map", "evaluate", "check", "order", "save"}
Portions == {p \in Nat \X Nat : 0 < p[1] /\ p[1] <= p[2]}

OpenRow(o) == row[o] = "open"
HasOpenOrder == \E o \in Orders : OpenRow(o)

(* hasOpenOrderSafely: a look that fails counts as one that found an order. *)
MayFindOpenOrder == HasOpenOrder \/ "database" \in Faults

MinOf(a, b) == IF a <= b THEN a ELSE b

Init ==
    /\ status = "active" /\ pending = FALSE
    /\ holding \in {0, Shares} /\ real = holding
    /\ stage = 0
    /\ lock = FALSE
    /\ kind = [o \in Orders |-> "none"]
    /\ quantity = [o \in Orders |-> 0]
    /\ exch = [o \in Orders |-> "unsent"]
    /\ filled = [o \in Orders |-> 0]
    /\ row = [o \in Orders |-> "none"]
    /\ executed = [o \in Orders |-> 0]
    /\ inHand = [o \in Orders |-> {}]
    /\ rejecting = {} /\ unwatched = {}
    /\ pauser = [o \in Orders |-> "idle"]
    /\ pc = [t \in Tasks |-> "idle"]
    /\ want = [t \in Tasks |-> "none"]
    /\ size = [t \in Tasks |-> 0]
    /\ placed = [t \in Tasks |-> {}]
    /\ seen = [t \in Tasks |-> 0]

-----------------------------------------------------------------------------
(* The session row: the writes the handlers share. *)

Goto(t, s) == pc' = [pc EXCEPT ![t] = s]

(* A local value after its last use. *)
Forget(t) == seen' = [seen EXCEPT ![t] = 0]

(* resetPositionRisk when the position is gone, otherwise the stage stays. *)
SetHolding(n) ==
    /\ holding' = n
    /\ stage' = IF n = 0 THEN 0 ELSE stage

(* applyPausedState with AUTO_SELL. *)
ApplyPausedState == status' = "paused" /\ pending' = FALSE

-----------------------------------------------------------------------------
(* checkSignalsAndTrade up to the evaluation of the session. *)

(* The tick loads the ACTIVE sessions and asks KIS for the balance. *)
LoopTick(t) ==
    /\ t \in Loops
    /\ pc[t] = "idle"
    /\ status = "active"
    /\ Goto(t, "balance")
    /\ UNCHANGED <<rowVars, lock, real, orderVars, ledgerVars, pauser, want, size, placed, seen>>

(* getBalance answers with the shares of this moment, or fails. *)
GetBalance(t, from, to) ==
    /\ pc[t] = from
    /\ seen' = [seen EXCEPT ![t] = real]
    /\ Goto(t, to)
    /\ UNCHANGED <<rowVars, lock, real, orderVars, ledgerVars, pauser, want, size, placed>>

AfterSync == IF pending' THEN "reconcileBalance" ELSE "map"

GetBalanceFails(t) ==
    /\ "balance" \in Faults
    /\ \/ pc[t] = "balance" /\ Goto(t, IF pending THEN "reconcileBalance" ELSE "map")
       \/ pc[t] = "reconcileBalance" /\ Goto(t, "map")
    /\ UNCHANGED <<rowVars, lock, real, orderVars, ledgerVars, pauser, want, size, placed, seen>>

(* Mutant: a stock that the balance does not list is left as it is. *)
ApplyBalanceSnapshotListed(t) ==
    /\ pc[t] = "sync"
    /\ IF status = "stopped" \/ lock \/ (seen[t] = 0 /\ ~pending)
         THEN UNCHANGED rowVars
         ELSE /\ SetHolding(seen[t])
              /\ IF pending /\ seen[t] = 0 THEN ApplyPausedState
                 ELSE UNCHANGED <<status, pending>>
    /\ Goto(t, AfterSync)
    /\ Forget(t)
    /\ UNCHANGED <<lock, real, orderVars, ledgerVars, pauser, want, size, placed>>

(* applyBalanceSnapshotToSessions: the answer overwrites holdingQty, unless the *)
(* session was stopped or is inside executeSell; a pending flat session pauses. *)
ApplyBalanceSnapshot(t) ==
    /\ pc[t] = "sync"
    /\ IF status = "stopped" \/ lock
         THEN UNCHANGED rowVars
         ELSE /\ SetHolding(seen[t])
              /\ IF pending /\ seen[t] = 0 THEN ApplyPausedState
                 ELSE UNCHANGED <<status, pending>>
    /\ Goto(t, AfterSync)
    /\ Forget(t)
    /\ UNCHANGED <<lock, real, orderVars, ledgerVars, pauser, want, size, placed>>

(* reconcilePendingAutoPauses: without the guards of the sync; a flat session *)
(* is paused, a held one is looked up for open orders ...                     *)
ReconcilePendingAutoPauses(t) ==
    /\ pc[t] = "reconcile"
    /\ SetHolding(seen[t])
    /\ IF seen[t] = 0
         THEN ApplyPausedState /\ Goto(t, "map")
         ELSE UNCHANGED <<status, pending>> /\ Goto(t, "rearm")
    /\ Forget(t)
    /\ UNCHANGED <<lock, real, orderVars, ledgerVars, pauser, want, size, placed>>

(* Mutant: never re-armed. *)
RearmResidualNever(t) ==
    /\ pc[t] = "rearm"
    /\ Goto(t, "map")
    /\ UNCHANGED <<rowVars, lock, real, orderVars, ledgerVars, pauser, want, size, placed, seen>>

(* ... and is to be watched again when the look has found none ... *)
RearmResidual(t) ==
    /\ pc[t] = "rearm"
    /\ \/ MayFindOpenOrder /\ Goto(t, "map")
       \/ ~HasOpenOrder /\ Goto(t, "release")
    /\ UNCHANGED <<rowVars, lock, real, orderVars, ledgerVars, pauser, want, size, placed, seen>>

(* ... which happens after the await, whatever has been ordered in between. *)
ReleaseResidual(t) ==
    /\ pc[t] = "release"
    /\ pending' = FALSE
    /\ Goto(t, "map")
    /\ UNCHANGED <<status, holding, stage, lock, real, orderVars, ledgerVars, pauser, want,
                   size, placed, seen>>

(* getOpenOrderMap, used for the buy decision at the end of the tick. *)
GetOpenOrderMap(t) ==
    /\ pc[t] = "map"
    /\ seen' = [seen EXCEPT ![t] = IF HasOpenOrder THEN 1 ELSE 0]
    /\ Goto(t, "evaluate")
    /\ UNCHANGED <<rowVars, lock, real, orderVars, ledgerVars, pauser, want, size, placed>>

-----------------------------------------------------------------------------
(* evaluateAndExecuteSell: the price signal is a choice. *)

(* checkSellThresholdsForStock evaluates a session that is ACTIVE; the loop *)
(* evaluates the one it loaded.                                             *)
Evaluating(t) ==
    \/ t \in Loops /\ pc[t] = "evaluate"
    \/ t \in Triggers /\ pc[t] = "idle" /\ status = "active"

(* SCALE_OUT_MIN_REMAINDER_QTY, and computeScaleOutSellQty for a TP1 ratio of   *)
(* 50%: a remainder that is not worth keeping is sold with the rest.             *)
MinRemainder == 1

ScaleOutQty ==
    LET half == holding \div 2 IN IF holding - half <= MinRemainder THEN holding ELSE half

(* The guards of executeSell, which then locks the session. *)
MaySell == holding > 0 /\ ~pending /\ ~lock

ExecuteSell(t, k, n) ==
    /\ Evaluating(t)
    /\ MaySell
    /\ lock' = TRUE
    /\ want' = [want EXCEPT ![t] = k]
    /\ size' = [size EXCEPT ![t] = n]
    /\ Goto(t, "check")
    /\ Forget(t)
    /\ UNCHANGED <<rowVars, real, orderVars, ledgerVars, pauser, placed>>

(* Stop-loss, take-profit, trailing and holding-period exits sell everything; *)
(* TP1 sells a part, or all of a small position, at stage 0 only.             *)
SellAll(t) == ExecuteSell(t, "sell", holding)

TakeFirstProfit(t) ==
    /\ stage = 0
    /\ ExecuteSell(t, IF ScaleOutQty < holding THEN "tp1-part" ELSE "tp1-all", ScaleOutQty)

(* A loop without an exit signal goes on to the buy signal. *)
ExecuteBuy(t) ==
    /\ t \in Loops
    /\ pc[t] = "evaluate"
    /\ ~pending
    /\ seen[t] = 0
    /\ IF holding = 0 THEN "entry" \in Buys ELSE "add" \in Buys
    /\ want' = [want EXCEPT ![t] = "buy"]
    /\ size' = [size EXCEPT ![t] = 1]
    /\ Goto(t, "check")
    /\ Forget(t)
    /\ UNCHANGED <<rowVars, lock, real, orderVars, ledgerVars, pauser, placed>>

(* No signal, or a guard that returns. *)
TickEnds(t) ==
    /\ t \in Loops
    /\ pc[t] = "evaluate"
    /\ Goto(t, "idle")
    /\ Forget(t)
    /\ UNCHANGED <<rowVars, lock, real, orderVars, ledgerVars, pauser, want, size, placed>>

(* executeManualOrder up to its look for open orders. *)
ExecuteManualOrder(t, k, n) ==
    /\ t \in Manuals
    /\ pc[t] = "idle"
    /\ status # "stopped"
    /\ k = "manual-sell" => n <= holding
    /\ want' = [want EXCEPT ![t] = k]
    /\ size' = [size EXCEPT ![t] = n]
    /\ Goto(t, "check")
    /\ UNCHANGED <<rowVars, lock, real, orderVars, ledgerVars, pauser, placed, seen>>

(* startSession of a new session buys at once when the user asks for it: without the lock, and while *)
(* the loop may come to the same session.                                                            *)
ExecuteImmediateBuy(t) ==
    /\ t \in Manuals
    /\ pc[t] = "idle"
    /\ status = "active" /\ holding = 0 /\ \A o \in Orders : exch[o] = "unsent"
    /\ want' = [want EXCEPT ![t] = "buy"]
    /\ size' = [size EXCEPT ![t] = 1]
    /\ Goto(t, "check")
    /\ UNCHANGED <<rowVars, lock, real, orderVars, ledgerVars, pauser, placed, seen>>

-----------------------------------------------------------------------------
(* Placing the order: the same awaits in every caller. *)

(* Mutant: the unlock is not in a finally block, only on the way out of a sell *)
(* that was saved.                                                             *)
FinishWithoutFinally(t) ==
    /\ Goto(t, "idle")
    /\ want' = [want EXCEPT ![t] = "none"]
    /\ size' = [size EXCEPT ![t] = 0]
    /\ placed' = [placed EXCEPT ![t] = {}]
    /\ lock' = IF want[t] \in ExitKinds /\ pc[t] = "save" THEN FALSE ELSE lock

(* The end of a placement; executeSell unlocks in its finally block. *)
Finish(t) ==
    /\ Goto(t, "idle")
    /\ want' = [want EXCEPT ![t] = "none"]
    /\ size' = [size EXCEPT ![t] = 0]
    /\ placed' = [placed EXCEPT ![t] = {}]
    /\ lock' = IF want[t] \in ExitKinds THEN FALSE ELSE lock

(* hasOpenOrderSafely finds an open order. *)
OpenOrderFound(t) ==
    /\ pc[t] = "check"
    /\ MayFindOpenOrder
    /\ Finish(t)
    /\ UNCHANGED <<rowVars, real, orderVars, ledgerVars, pauser, seen>>

(* Mutant: the answer of hasOpenOrderSafely is not awaited. *)
NoOpenOrderUnchecked(t) ==
    /\ pc[t] = "check"
    /\ Goto(t, "order")
    /\ UNCHANGED <<rowVars, lock, real, orderVars, ledgerVars, pauser, want, size, placed, seen>>

NoOpenOrder(t) ==
    /\ pc[t] = "check"
    /\ ~HasOpenOrder
    /\ Goto(t, "order")
    /\ UNCHANGED <<rowVars, lock, real, orderVars, ledgerVars, pauser, want, size, placed, seen>>

(* KIS accepts the order, or refuses it; a thrown request ends like a refusal. *)
(* It sells no more than the account holds (external).                         *)
OrderAccepted(t, o) ==
    /\ pc[t] = "order"
    /\ want[t] \in SellKinds => size[t] <= real
    /\ exch[o] = "unsent"
    /\ exch' = [exch EXCEPT ![o] = "live"]
    /\ kind' = [kind EXCEPT ![o] = want[t]]
    /\ quantity' = [quantity EXCEPT ![o] = size[t]]
    /\ placed' = [placed EXCEPT ![t] = {o}]
    /\ Goto(t, "save")
    /\ UNCHANGED <<rowVars, lock, real, filled, ledgerVars, pauser, want, size, seen>>

OrderRefused(t) ==
    /\ pc[t] = "order"
    /\ Finish(t)
    /\ UNCHANGED <<rowVars, real, orderVars, ledgerVars, pauser, seen>>

(* Mutant: the stage advances when the order is accepted. *)
OrderSavedOptimistic(t) ==
    /\ pc[t] = "save"
    /\ row' = [o \in Orders |-> IF o \in placed[t] THEN "open" ELSE row[o]]
    /\ pending' = (pending \/ want[t] \in FullExits)
    /\ stage' = IF want[t] \in StageKinds THEN 1 ELSE stage
    /\ Finish(t)
    /\ UNCHANGED <<status, holding, real, orderVars, executed, inHand, rejecting, unwatched, pauser,
                   seen>>

(* saveHistory, and what executeSell writes when orderCash returned. *)
OrderSaved(t) ==
    /\ pc[t] = "save"
    /\ \/ row' = [o \in Orders |-> IF o \in placed[t] THEN "open" ELSE row[o]]
       \/ "database" \in Faults /\ row' = row
    /\ pending' = (pending \/ want[t] \in FullExits)
    /\ Finish(t)
    /\ UNCHANGED <<status, holding, stage, real, orderVars, executed, inHand, rejecting, unwatched,
                   pauser, seen>>

-----------------------------------------------------------------------------
(* The exchange (external): shares move one at a time. *)

ExchangeFills(o) ==
    /\ exch[o] = "live"
    /\ IF kind[o] \in SellKinds THEN real > 0 ELSE real < Shares
    /\ real' = IF kind[o] \in SellKinds THEN real - 1 ELSE real + 1
    /\ filled' = [filled EXCEPT ![o] = @ + 1]
    /\ exch' = [exch EXCEPT ![o] = IF filled[o] + 1 = quantity[o] THEN "closed" ELSE "live"]
    /\ UNCHANGED <<rowVars, lock, kind, quantity, ledgerVars, pauser, taskVars>>

ExchangeCancels(o) ==
    /\ "cancel" \in Faults
    /\ exch[o] = "live"
    /\ exch' = [exch EXCEPT ![o] = "closed"]
    /\ UNCHANGED <<rowVars, lock, real, kind, quantity, filled, ledgerVars, pauser, taskVars>>

-----------------------------------------------------------------------------
(* The ledger (its promise) and applyConfirmedOrderExecution. *)

(* Nothing asks about an order whose row is closed. *)
ForgetClosed == unwatched' = {o \in unwatched : row'[o] = "open"}

(* A report brings the row to n shares: one more, or all that were filled. *)
RecordExecution(o, n) ==
    /\ OpenRow(o)
    /\ n > executed[o]
    /\ n <= filled[o]
    /\ executed' = [executed EXCEPT ![o] = n]
    /\ row' = [row EXCEPT ![o] = IF n = quantity[o] THEN "closed" ELSE "open"]
    /\ inHand' = [inHand EXCEPT ![o] = @ \cup {<<executed[o] + 1, n>>}]
    /\ ForgetClosed
    /\ UNCHANGED <<rowVars, lock, real, orderVars, rejecting, pauser, taskVars>>

(* The poll finds that the order is over and that nothing is left to record. *)
RecordClosed(o) ==
    /\ OpenRow(o)
    /\ exch[o] = "closed"
    /\ executed[o] = filled[o]
    /\ row' = [row EXCEPT ![o] = "closed"]
    /\ ForgetClosed
    /\ UNCHANGED <<rowVars, lock, real, orderVars, executed, inHand, rejecting, pauser, taskVars>>

(* Nobody asks about an open order any more: its polling ended at                *)
(* ORDER_POLL_MAX_ATTEMPTS, or a notice cleared its timer, or it never had one,  *)
(* and no notice comes.  A report may still come by chance; none has to.         *)
ReportsEnd(o) ==
    /\ "silence" \in Faults
    /\ OpenRow(o)
    /\ o \notin unwatched
    /\ unwatched' = unwatched \cup {o}
    /\ UNCHANGED <<rowVars, lock, real, orderVars, row, executed, inHand, rejecting, pauser, taskVars>>

(* Buys add to the holding and begin a new cycle of stages; sells take from it; *)
(* the first portion of a TP1 order advances the stage of what is left.         *)
ApplyToSession(o, p) ==
    LET n == p[2] - p[1] + 1 IN
    IF kind[o] \in BuyKinds
      THEN holding' = holding + n /\ stage' = 0
      ELSE LET left == holding - MinOf(n, holding) IN
           /\ holding' = left
           /\ stage' = IF left = 0 THEN 0
                       ELSE IF kind[o] \in StageKinds /\ p[1] = 1 THEN 1 ELSE stage

(* A full exit that is fully executed with nothing held goes on to pause. *)
ApplyConfirmedOrderExecution(o, p) ==
    /\ p \in inHand[o]
    /\ inHand' = [inHand EXCEPT ![o] = @ \ {p}]
    /\ \/ /\ ApplyToSession(o, p)
          /\ pauser' = [pauser EXCEPT ![o] =
               IF kind[o] \in FullExits /\ p[2] = quantity[o] /\ holding' = 0 THEN "balance" ELSE @]
       \/ "price" \in Faults /\ UNCHANGED <<holding, stage, pauser>>
    /\ UNCHANGED <<status, pending, lock, real, orderVars, row, executed, rejecting, unwatched,
                   taskVars>>

(* A reject notice: markOrderRejected closes the row of an unfilled order ... *)
MarkOrderRejected(o) ==
    /\ "cancel" \in Faults
    /\ OpenRow(o)
    /\ exch[o] = "live"
    /\ filled[o] = 0
    /\ exch' = [exch EXCEPT ![o] = "closed"]
    /\ row' = [row EXCEPT ![o] = "closed"]
    /\ rejecting' = IF kind[o] \in FullExits THEN rejecting \cup {o} ELSE rejecting
    /\ ForgetClosed
    /\ UNCHANGED <<rowVars, lock, real, kind, quantity, filled, executed, inHand, pauser, taskVars>>

(* ... and the handler releases the session that was waiting for the fill. *)
ReleaseAfterReject(o) ==
    /\ o \in rejecting
    /\ rejecting' = rejecting \ {o}
    /\ pending' = FALSE
    /\ UNCHANGED <<status, holding, stage, lock, real, orderVars, row, executed, inHand, unwatched,
                   pauser, taskVars>>

-----------------------------------------------------------------------------
(* pauseSessionAfterAutoSell, two seconds later. *)

PauserBalance(o) ==
    /\ pauser[o] = "balance"
    /\ \/ pauser' = [pauser EXCEPT ![o] = IF real > 0 THEN "held" ELSE "flat"]
       \/ "balance" \in Faults /\ pauser' = [pauser EXCEPT ![o] = "idle"]
    /\ UNCHANGED <<rowVars, lock, real, orderVars, ledgerVars, taskVars>>

(* Still held: the open orders are looked up ... *)
PauserHeld(o) ==
    /\ pauser[o] = "held"
    /\ \/ MayFindOpenOrder /\ pauser' = [pauser EXCEPT ![o] = "idle"]
       \/ ~HasOpenOrder /\ pauser' = [pauser EXCEPT ![o] = "release"]
    /\ UNCHANGED <<rowVars, lock, real, orderVars, ledgerVars, taskVars>>

(* ... and after that await the session is watched again. *)
PauserReleases(o) ==
    /\ pauser[o] = "release"
    /\ pauser' = [pauser EXCEPT ![o] = "idle"]
    /\ pending' = FALSE
    /\ UNCHANGED <<status, holding, stage, lock, real, orderVars, ledgerVars, taskVars>>

(* Whatever the status is by now: a paused session keeps it, others become it. *)
PauserFlat(o) ==
    /\ pauser[o] = "flat"
    /\ pauser' = [pauser EXCEPT ![o] = "idle"]
    /\ ApplyPausedState
    /\ UNCHANGED <<holding, stage, lock, real, orderVars, ledgerVars, taskVars>>

-----------------------------------------------------------------------------
(* The user and the process. *)

PauseSession ==
    /\ "user" \in Faults
    /\ ApplyPausedState
    /\ UNCHANGED <<holding, stage, lock, real, orderVars, ledgerVars, pauser, taskVars>>

ResumeSession ==
    /\ "user" \in Faults
    /\ status' = "active" /\ pending' = FALSE
    /\ UNCHANGED <<holding, stage, lock, real, orderVars, ledgerVars, pauser, taskVars>>

StopSession ==
    /\ "user" \in Faults
    /\ status' = "stopped" /\ pending' = FALSE
    /\ UNCHANGED <<holding, stage, lock, real, orderVars, ledgerVars, pauser, taskVars>>

(* A restart keeps the rows and loses the lock and every handler; open orders are *)
(* polled anew.                                                                   *)
Restart ==
    /\ "restart" \in Faults
    /\ lock' = FALSE
    /\ inHand' = [o \in Orders |-> {}]
    /\ rejecting' = {} /\ unwatched' = {}
    /\ pauser' = [o \in Orders |-> "idle"]
    /\ pc' = [t \in Tasks |-> "idle"]
    /\ want' = [t \in Tasks |-> "none"]
    /\ size' = [t \in Tasks |-> 0]
    /\ placed' = [t \in Tasks |-> {}]
    /\ seen' = [t \in Tasks |-> 0]
    /\ UNCHANGED <<rowVars, real, orderVars, row, executed>>

-----------------------------------------------------------------------------
BalanceAnswers(t) ==
    \/ GetBalance(t, "balance", "sync") \/ GetBalance(t, "reconcileBalance", "reconcile")

LoopStep(t) ==
    \/ LoopTick(t) \/ ApplyBalanceSnapshot(t)
    \/ ReconcilePendingAutoPauses(t) \/ RearmResidual(t) \/ ReleaseResidual(t)
    \/ GetOpenOrderMap(t)

Decide(t) ==
    \/ SellAll(t) \/ TakeFirstProfit(t) \/ ExecuteBuy(t) \/ TickEnds(t)
    \/ \E k \in {"manual-sell", "manual-buy"}, n \in 1 .. Shares : ExecuteManualOrder(t, k, n)
    \/ ExecuteImmediateBuy(t)

Place(t) ==
    \/ OpenOrderFound(t) \/ NoOpenOrder(t) \/ OrderRefused(t) \/ OrderSaved(t)
    \/ \E o \in Orders : OrderAccepted(t, o)

Exchange(o) == ExchangeFills(o) \/ ExchangeCancels(o)

Report(o) == RecordClosed(o) \/ \E n \in 1 .. Shares : RecordExecution(o, n)

FollowUp(o) ==
    ReleaseAfterReject(o) \/ \E p \in inHand[o] : ApplyConfirmedOrderExecution(o, p)

Pauser(o) == PauserBalance(o) \/ PauserHeld(o) \/ PauserReleases(o) \/ PauserFlat(o)

Next ==
    \/ \E t \in Tasks : \/ BalanceAnswers(t) \/ GetBalanceFails(t) \/ LoopStep(t)
                        \/ Decide(t) \/ Place(t)
    \/ \E o \in Orders : \/ Exchange(o) \/ MarkOrderRejected(o) \/ Report(o) \/ ReportsEnd(o)
                         \/ FollowUp(o) \/ Pauser(o)
    \/ PauseSession \/ ResumeSession \/ StopSession \/ Restart

Spec == Init /\ [][Next]_vars

(* setInterval fires and every await settles; the balance inquiry succeeds now  *)
(* and then; the exchange ends each day order.  An order is reported as long as  *)
(* somebody asks about it: polling may give up (PollingSettles of OrderLedger).  *)
FairSpec ==
    /\ Spec
    /\ \A t \in Tasks : WF_vars(Place(t))
    /\ \A t \in Loops : /\ WF_vars(LoopStep(t)) /\ WF_vars(TickEnds(t))
                        /\ SF_vars(GetBalance(t, "balance", "sync"))
                        /\ SF_vars(GetBalance(t, "reconcileBalance", "reconcile"))
    /\ \A o \in Orders : /\ WF_vars(Exchange(o)) /\ WF_vars(o \notin unwatched /\ Report(o))
                         /\ WF_vars(FollowUp(o)) /\ WF_vars(Pauser(o))

-----------------------------------------------------------------------------
(* Properties. *)

(* Every variable keeps its type: whatever is synchronised, bought, sold or lost, no count goes below zero. *)
TypeOK ==
    /\ status \in {"active", "paused", "stopped"}
    /\ pending \in BOOLEAN
    /\ holding \in Nat
    /\ stage \in {0, 1}
    /\ lock \in BOOLEAN
    /\ real \in 0 .. Shares
    /\ kind \in [Orders -> Kinds]
    /\ quantity \in [Orders -> Nat]
    /\ exch \in [Orders -> {"unsent", "live", "closed"}]
    /\ filled \in [Orders -> Nat]
    /\ row \in [Orders -> {"none", "open", "closed"}]
    /\ executed \in [Orders -> Nat]
    /\ inHand \in [Orders -> SUBSET Portions]
    /\ rejecting \subseteq Orders /\ unwatched \subseteq Orders
    /\ pauser \in [Orders -> {"idle", "balance", "held", "release", "flat"}]
    /\ pc \in [Tasks -> Steps]
    /\ want \in [Tasks -> Kinds]
    /\ size \in [Tasks -> Nat]
    /\ placed \in [Tasks -> SUBSET Orders]
    /\ seen \in [Tasks -> 0 .. Shares]

Selling(t) == pc[t] \in {"check", "order", "save"} /\ want[t] \in ExitKinds

(* sellInFlightSessionIds serialises executeSell: the lock is held exactly while *)
(* one task is inside, through every early return, refusal and restart.          *)
SellLockIsOwned ==
    /\ lock <=> \E t \in Tasks : Selling(t)
    /\ \A t, u \in Tasks : Selling(t) /\ Selling(u) => t = u

(* An exit order that is live at KIS and known to the engine: its row is open, *)
(* or executeSell is about to save it.                                         *)
KnownLiveExit(o) ==
    /\ exch[o] = "live"
    /\ kind[o] \in ExitKinds
    /\ OpenRow(o) \/ \E t \in Tasks : o \in placed[t]

(* The loop, the ticks and the re-arming never have two exit orders live for the *)
(* session: lock, open-order check and autoPausePending together exclude it.     *)
OneLiveExit ==
    \A o, q \in Orders : KnownLiveExit(o) /\ KnownLiveExit(q) => o = q

(* scaleOutStage advances only when a TP1 order has filled: an accepted order    *)
(* that never fills does not use up the take-profit.                             *)
StageAfterFill ==
    [][stage = 0 /\ stage' = 1
         => \E o \in Orders : kind[o] \in StageKinds /\ executed[o] > 0]_vars

(* A row that stays open unasked keeps a session that still has shares waiting:  *)
(* hasOpenOrder finds it for ever, on purpose, so that nothing is sold twice.    *)
Forsaken == real > 0 /\ \E o \in unwatched : OpenRow(o)

(* A session that waits for its exit does not wait for ever: the exit fills, is  *)
(* rejected or ends, and the session pauses or is watched again, unless from     *)
(* some time on an open row is forsaken.                                         *)
PendingResolves == []<>~Forsaken => (pending ~> ~pending \/ status # "active")

(* Whatever fills without a price, before or after a balance that was on its     *)
(* way, or unreported: an active session in the end holds what the account does. *)
HoldingCatchesUp == <>[](holding = real \/ status # "active")
=============================================================================
