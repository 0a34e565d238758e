------------------------- MODULE AutoTradingProofs -------------------------
(***************************************************************************)
(* Theorems about AutoTrading for any number of loops, price triggers,     *)
(* manual orders, orders and shares, and for every set of faults.          *)
(***************************************************************************)
EXTENDS AutoTrading, TLAPS

(***************************************************************************)
(* The strengthening.  PlacedIsUnsaved says what an order is between its   *)
(* acceptance and its row; LockGuards adds to the owned lock that nobody   *)
(* sells while the session waits for an exit; NoExitUnderway says that a   *)
(* seller past its look for open orders still has no other exit open.      *)
(* HandedIsExecuted bounds a portion on its way to the session by its row. *)
(***************************************************************************)
PlacedIsUnsaved ==
    /\ \A t \in Tasks : \A o \in placed[t] :
          pc[t] = "save" /\ kind[o] = want[t] /\ row[o] = "none" /\ exch[o] # "unsent"
    /\ \A t, u \in Tasks : \A o \in placed[t] : o \in placed[u] => t = u
    /\ \A t \in Tasks : \A o, q \in placed[t] : o = q
    /\ \A o \in Orders : row[o] # "none" => exch[o] # "unsent"

LockGuards == SellLockIsOwned /\ (pending => ~lock)

SavedLiveExit(o) == exch[o] = "live" /\ kind[o] \in ExitKinds /\ OpenRow(o)

NoExitUnderway ==
    \A t \in Tasks : Selling(t) /\ pc[t] \in {"order", "save"}
                        => \A o \in Orders : ~SavedLiveExit(o)

OneSavedExit == \A o, q \in Orders : SavedLiveExit(o) /\ SavedLiveExit(q) => o = q

HandedIsExecuted == \A o \in Orders : \A p \in inHand[o] : p[2] <= executed[o]

ControlInv == PlacedIsUnsaved /\ LockGuards /\ NoExitUnderway /\ OneSavedExit

IInv == TypeOK /\ HandedIsExecuted /\ ControlInv
-----------------------------------------------------------------------------
(* Every initial state satisfies the invariant. *)
LEMMA InitInv == Init => IInv
<1> SUFFICES ASSUME Init PROVE IInv
  OBVIOUS
<1>1. TypeOK
  <2>1. status \in {"active", "paused", "stopped"} /\ pending \in BOOLEAN /\ lock \in BOOLEAN
    BY DEF Init
  <2>2. holding \in Nat /\ stage \in {0, 1} /\ real \in 0 .. Shares
    BY AutoTradingAssumption DEF Init
  <2>3. /\ kind \in [Orders -> Kinds]
        /\ quantity \in [Orders -> Nat] /\ filled \in [Orders -> Nat] /\ executed \in [Orders -> Nat]
        /\ exch \in [Orders -> {"unsent", "live", "closed"}]
        /\ row \in [Orders -> {"none", "open", "closed"}]
        /\ inHand \in [Orders -> SUBSET Portions]
        /\ rejecting \subseteq Orders /\ unwatched \subseteq Orders
        /\ pauser \in [Orders -> {"idle", "balance", "held", "release", "flat"}]
    BY DEF Init, Kinds
  <2>4. /\ pc \in [Tasks -> Steps] /\ want \in [Tasks -> Kinds] /\ size \in [Tasks -> Nat]
        /\ placed \in [Tasks -> SUBSET Orders] /\ seen \in [Tasks -> 0 .. Shares]
    BY AutoTradingAssumption DEF Init, Kinds, Steps
  <2> QED
    BY <2>1, <2>2, <2>3, <2>4 DEF TypeOK
<1>2. HandedIsExecuted
  BY DEF Init, HandedIsExecuted
<1>3. ControlInv
  BY DEF Init, ControlInv, PlacedIsUnsaved, LockGuards, SellLockIsOwned, Selling, NoExitUnderway,
         OneSavedExit, SavedLiveExit, OpenRow
<1> QED
  BY <1>1, <1>2, <1>3 DEF IInv

-----------------------------------------------------------------------------
(* Every step keeps the types: one step for each action. *)
LEMMA TypeStep == ASSUME TypeOK, Next PROVE TypeOK'
<1> USE AutoTradingAssumption DEF rowVars, orderVars, ledgerVars, taskVars, Kinds, SellKinds, ExitKinds,
        FullExits, StageKinds, BuyKinds, Steps, Goto, Forget
<1>1. ASSUME NEW t \in Tasks, LoopTick(t) PROVE TypeOK'
  BY <1>1 DEF TypeOK, LoopTick
<1>2. ASSUME NEW t \in Tasks, BalanceAnswers(t) PROVE TypeOK'
  BY <1>2 DEF TypeOK, BalanceAnswers, GetBalance
<1>3. ASSUME NEW t \in Tasks, GetBalanceFails(t) PROVE TypeOK'
  BY <1>3 DEF TypeOK, GetBalanceFails
<1>4. ASSUME NEW t \in Tasks, ApplyBalanceSnapshot(t) PROVE TypeOK'
  <2>1. /\ status' \in {"active", "paused", "stopped"} /\ pending' \in BOOLEAN
        /\ holding' \in Nat /\ stage' \in {0, 1}
    <3>1. seen[t] \in Nat
      BY DEF TypeOK
    <3>2. CASE status = "stopped" \/ lock
      BY <1>4, <3>2 DEF TypeOK, ApplyBalanceSnapshot
    <3>3. CASE ~(status = "stopped" \/ lock)
      BY <1>4, <3>1, <3>3 DEF TypeOK, ApplyBalanceSnapshot, SetHolding, ApplyPausedState
    <3> QED
      BY <3>2, <3>3
  <2>2. pc' \in [Tasks -> Steps] /\ seen' \in [Tasks -> 0 .. Shares]
    BY <1>4 DEF TypeOK, ApplyBalanceSnapshot, AfterSync
  <2> QED
    BY <1>4, <2>1, <2>2 DEF TypeOK, ApplyBalanceSnapshot
<1>5. ASSUME NEW t \in Tasks, ReconcilePendingAutoPauses(t) PROVE TypeOK'
  <2>1. /\ status' \in {"active", "paused", "stopped"} /\ pending' \in BOOLEAN
        /\ holding' \in Nat /\ stage' \in {0, 1}
    <3>1. seen[t] \in Nat
      BY DEF TypeOK
    <3> QED
      BY <1>5, <3>1 DEF TypeOK, ReconcilePendingAutoPauses, SetHolding, ApplyPausedState
  <2>2. pc' \in [Tasks -> Steps] /\ seen' \in [Tasks -> 0 .. Shares]
    BY <1>5 DEF TypeOK, ReconcilePendingAutoPauses
  <2> QED
    BY <1>5, <2>1, <2>2 DEF TypeOK, ReconcilePendingAutoPauses
<1>6. ASSUME NEW t \in Tasks, RearmResidual(t) \/ ReleaseResidual(t) PROVE TypeOK'
  <2>1. ASSUME RearmResidual(t) PROVE TypeOK'
    BY <2>1 DEF TypeOK, RearmResidual
  <2>2. ASSUME ReleaseResidual(t) PROVE TypeOK'
    BY <2>2 DEF TypeOK, ReleaseResidual
  <2> QED
    BY <1>6, <2>1, <2>2
<1>7. ASSUME NEW t \in Tasks, GetOpenOrderMap(t) PROVE TypeOK'
  BY <1>7 DEF TypeOK, GetOpenOrderMap
<1>8. ASSUME NEW t \in Tasks, NEW k \in ExitKinds, NEW n \in Nat, ExecuteSell(t, k, n) PROVE TypeOK'
  BY <1>8 DEF TypeOK, ExecuteSell
<1>9. ASSUME NEW t \in Tasks, SellAll(t) PROVE TypeOK'
  BY <1>8, <1>9 DEF TypeOK, SellAll
<1>10. ASSUME NEW t \in Tasks, TakeFirstProfit(t) PROVE TypeOK'
  <2>1. ScaleOutQty \in Nat
    BY DEF TypeOK, ScaleOutQty, MinRemainder
  <2> QED
    BY <1>8, <1>10, <2>1 DEF TakeFirstProfit
<1>11. ASSUME NEW t \in Tasks, ExecuteBuy(t) PROVE TypeOK'
  BY <1>11 DEF TypeOK, ExecuteBuy
<1>12. ASSUME NEW t \in Tasks, TickEnds(t) PROVE TypeOK'
  BY <1>12 DEF TypeOK, TickEnds
<1>13. ASSUME NEW t \in Tasks, NEW k \in {"manual-sell", "manual-buy"}, NEW n \in 1 .. Shares,
              ExecuteManualOrder(t, k, n)
       PROVE TypeOK'
  BY <1>13 DEF TypeOK, ExecuteManualOrder
<1>14. ASSUME NEW t \in Tasks, ExecuteImmediateBuy(t) PROVE TypeOK'
  BY <1>14 DEF TypeOK, ExecuteImmediateBuy
<1>15. ASSUME NEW t \in Tasks, OpenOrderFound(t) \/ OrderRefused(t) PROVE TypeOK'
  <2>1. Finish(t) /\ UNCHANGED <<rowVars, real, orderVars, ledgerVars, pauser, seen>>
    BY <1>15 DEF OpenOrderFound, OrderRefused
  <2>2. lock' \in BOOLEAN
    BY <2>1 DEF TypeOK, Finish
  <2>3. /\ pc' \in [Tasks -> Steps] /\ want' \in [Tasks -> Kinds] /\ size' \in [Tasks -> Nat]
        /\ placed' \in [Tasks -> SUBSET Orders]
    BY <2>1 DEF TypeOK, Finish
  <2> QED
    BY <2>1, <2>2, <2>3 DEF TypeOK
<1>16. ASSUME NEW t \in Tasks, NoOpenOrder(t) PROVE TypeOK'
  BY <1>16 DEF TypeOK, NoOpenOrder
<1>17. ASSUME NEW t \in Tasks, NEW o \in Orders, OrderAccepted(t, o) PROVE TypeOK'
  BY <1>17 DEF TypeOK, OrderAccepted
<1>18. ASSUME NEW t \in Tasks, OrderSaved(t) PROVE TypeOK'
  BY <1>18 DEF TypeOK, OrderSaved, Finish
<1>19. ASSUME NEW o \in Orders, Exchange(o) PROVE TypeOK'
  BY <1>19 DEF TypeOK, Exchange, ExchangeFills, ExchangeCancels
<1>20. ASSUME NEW o \in Orders, RecordClosed(o) PROVE TypeOK'
  BY <1>20 DEF TypeOK, RecordClosed, ForgetClosed
<1>21. ASSUME NEW o \in Orders, NEW n \in 1 .. Shares, RecordExecution(o, n) PROVE TypeOK'
  BY <1>21 DEF TypeOK, RecordExecution, ForgetClosed, Portions
<1>22. ASSUME NEW o \in Orders, ReleaseAfterReject(o) \/ ReportsEnd(o) PROVE TypeOK'
  <2>1. ASSUME ReleaseAfterReject(o) PROVE TypeOK'
    BY <2>1 DEF TypeOK, ReleaseAfterReject
  <2>2. ASSUME ReportsEnd(o) PROVE TypeOK'
    BY <2>2 DEF TypeOK, ReportsEnd
  <2> QED
    BY <1>22, <2>1, <2>2
<1>23. ASSUME NEW o \in Orders, NEW p \in inHand[o], ApplyConfirmedOrderExecution(o, p) PROVE TypeOK'
  <2>1. p \in Nat \X Nat /\ p[2] - p[1] + 1 \in Nat
    BY DEF TypeOK, Portions
  <2>2. holding' \in Nat /\ stage' \in {0, 1}
    BY <1>23, <2>1 DEF TypeOK, ApplyConfirmedOrderExecution, ApplyToSession, MinOf
  <2>3. inHand' \in [Orders -> SUBSET Portions]
    BY <1>23 DEF TypeOK, ApplyConfirmedOrderExecution
  <2>4. pauser' \in [Orders -> {"idle", "balance", "held", "release", "flat"}]
    BY <1>23 DEF TypeOK, ApplyConfirmedOrderExecution
  <2> QED
    BY <1>23, <2>2, <2>3, <2>4 DEF TypeOK, ApplyConfirmedOrderExecution
<1>24. ASSUME NEW o \in Orders, MarkOrderRejected(o) PROVE TypeOK'
  BY <1>24 DEF TypeOK, MarkOrderRejected, ForgetClosed
<1>25. ASSUME NEW o \in Orders, Pauser(o) PROVE TypeOK'
  <2>1. ASSUME PauserBalance(o) PROVE TypeOK'
    BY <2>1 DEF TypeOK, PauserBalance
  <2>2. ASSUME PauserHeld(o) PROVE TypeOK'
    <3>1. pauser' \in [Orders -> {"idle", "balance", "held", "release", "flat"}]
      BY <2>2 DEF TypeOK, PauserHeld
    <3> QED
      BY <2>2, <3>1 DEF TypeOK, PauserHeld
  <2>3. ASSUME PauserReleases(o) PROVE TypeOK'
    BY <2>3 DEF TypeOK, PauserReleases
  <2>4. ASSUME PauserFlat(o) PROVE TypeOK'
    BY <2>4 DEF TypeOK, PauserFlat, ApplyPausedState
  <2> QED
    BY <1>25, <2>1, <2>2, <2>3, <2>4 DEF Pauser
<1>26. ASSUME PauseSession \/ ResumeSession \/ StopSession PROVE TypeOK'
  <2>1. /\ status' \in {"active", "paused", "stopped"} /\ pending' = FALSE
        /\ UNCHANGED <<holding, stage, lock, real, orderVars, ledgerVars, pauser, taskVars>>
    BY <1>26 DEF PauseSession, ResumeSession, StopSession, ApplyPausedState
  <2> QED
    BY <2>1 DEF TypeOK
<1>27. ASSUME Restart PROVE TypeOK'
  <2>1. /\ lock' \in BOOLEAN /\ rejecting' \subseteq Orders /\ unwatched' \subseteq Orders
        /\ inHand' \in [Orders -> SUBSET Portions]
        /\ pauser' \in [Orders -> {"idle", "balance", "held", "release", "flat"}]
    BY <1>27 DEF Restart
  <2>2. /\ pc' \in [Tasks -> Steps] /\ want' \in [Tasks -> Kinds] /\ size' \in [Tasks -> Nat]
        /\ placed' \in [Tasks -> SUBSET Orders] /\ seen' \in [Tasks -> 0 .. Shares]
    BY <1>27 DEF Restart
  <2> QED
    BY <1>27, <2>1, <2>2 DEF TypeOK, Restart
<1> QED
  BY <1>1, <1>2, <1>3, <1>4, <1>5, <1>6, <1>7, <1>9, <1>10, <1>11, <1>12, <1>13, <1>14, <1>15, <1>16,
     <1>17, <1>18, <1>19, <1>20, <1>21, <1>22, <1>23, <1>24, <1>25, <1>26, <1>27
     DEF Next, LoopStep, Decide, Place, Report, FollowUp

-----------------------------------------------------------------------------
(* A portion on its way to the session was recorded, and rows never shrink. *)
LEMMA HandedStep == ASSUME TypeOK, HandedIsExecuted, Next PROVE HandedIsExecuted'
<1> USE DEF HandedIsExecuted, rowVars, orderVars, ledgerVars, taskVars
<1>1. ASSUME UNCHANGED <<inHand, executed>> PROVE HandedIsExecuted'
  BY <1>1
<1>2. ASSUME NEW o \in Orders, NEW n \in 1 .. Shares, RecordExecution(o, n) PROVE HandedIsExecuted'
  <2> SUFFICES ASSUME NEW q \in Orders, NEW p \in inHand'[q] PROVE p[2] <= executed'[q]
    OBVIOUS
  <2>1. n > executed[o] /\ executed' = [executed EXCEPT ![o] = n]
    BY <1>2 DEF RecordExecution
  <2>2. inHand' = [inHand EXCEPT ![o] = @ \cup {<<executed[o] + 1, n>>}]
    BY <1>2 DEF RecordExecution
  <2>3. executed[o] \in Nat /\ n \in Nat /\ executed'[o] = n
    BY <2>1, AutoTradingAssumption DEF TypeOK
  <2>4. CASE q # o
    BY <2>1, <2>2, <2>4 DEF TypeOK
  <2>5. CASE q = o /\ p \in inHand[o]
    <3>1. p[2] \in Nat /\ p[2] <= executed[o]
      BY <2>5 DEF TypeOK, Portions
    <3> QED
      BY <2>1, <2>3, <2>5, <3>1
  <2>6. CASE q = o /\ p = <<executed[o] + 1, n>>
    BY <2>3, <2>6
  <2> QED
    BY <2>2, <2>4, <2>5, <2>6 DEF TypeOK
<1>3. ASSUME NEW o \in Orders, NEW p \in inHand[o], ApplyConfirmedOrderExecution(o, p)
      PROVE HandedIsExecuted'
  BY <1>3 DEF TypeOK, ApplyConfirmedOrderExecution
<1>4. ASSUME Restart PROVE HandedIsExecuted'
  BY <1>4 DEF Restart
<1>5. ASSUME NEW t \in Tasks, BalanceAnswers(t) \/ GetBalanceFails(t) \/ LoopStep(t)
      PROVE UNCHANGED <<inHand, executed>>
  BY <1>5 DEF BalanceAnswers, GetBalance, GetBalanceFails, LoopStep, LoopTick, ApplyBalanceSnapshot,
              ReconcilePendingAutoPauses, RearmResidual, ReleaseResidual, GetOpenOrderMap
<1>6. ASSUME NEW t \in Tasks, Decide(t) PROVE UNCHANGED <<inHand, executed>>
  BY <1>6 DEF Decide, SellAll, TakeFirstProfit, ExecuteSell, ExecuteBuy, TickEnds,
              ExecuteManualOrder, ExecuteImmediateBuy
<1>7. ASSUME NEW t \in Tasks, Place(t) PROVE UNCHANGED <<inHand, executed>>
  BY <1>7 DEF Place, OpenOrderFound, NoOpenOrder, OrderRefused, OrderSaved, OrderAccepted
<1>8. ASSUME NEW o \in Orders, \/ Exchange(o) \/ MarkOrderRejected(o) \/ RecordClosed(o)
                                \/ ReportsEnd(o) \/ ReleaseAfterReject(o) \/ Pauser(o)
      PROVE UNCHANGED <<inHand, executed>>
  BY <1>8 DEF Exchange, ExchangeFills, ExchangeCancels, MarkOrderRejected, RecordClosed, ReportsEnd,
              ReleaseAfterReject, Pauser, PauserBalance, PauserHeld, PauserReleases, PauserFlat
<1>9. ASSUME PauseSession \/ ResumeSession \/ StopSession PROVE UNCHANGED <<inHand, executed>>
  BY <1>9 DEF PauseSession, ResumeSession, StopSession
<1> QED
  BY <1>1, <1>2, <1>3, <1>4, <1>5, <1>6, <1>7, <1>8, <1>9 DEF Next, Report, FollowUp

-----------------------------------------------------------------------------
(* A step outside the placement of an order: it may move a task that places nothing, *)
(* close orders and rows and clear the mark, and so keeps the invariant.             *)
LEMMA OutsideStep ==
  ASSUME TypeOK, ControlInv,
         UNCHANGED <<lock, kind, want, placed>>, pending' => pending,
         \A t \in Tasks : \/ pc'[t] = pc[t]
                          \/ pc[t] \notin {"check", "order", "save"} /\ pc'[t] \notin {"check", "order", "save"},
         \A o \in Orders : /\ row'[o] = "none" <=> row[o] = "none"
                           /\ exch'[o] = "unsent" <=> exch[o] = "unsent"
                           /\ SavedLiveExit(o)' => SavedLiveExit(o)
  PROVE  ControlInv'
<1>1. \A t \in Tasks : Selling(t)' <=> Selling(t)
  BY DEF Selling
<1>2. PlacedIsUnsaved'
  <2>1. \A t \in Tasks : \A o \in placed[t] :
          pc'[t] = "save" /\ kind[o] = want[t] /\ row'[o] = "none" /\ exch'[o] # "unsent"
    BY DEF TypeOK, ControlInv, PlacedIsUnsaved
  <2> QED
    BY <2>1 DEF ControlInv, PlacedIsUnsaved
<1>3. LockGuards'
  BY <1>1 DEF ControlInv, LockGuards, SellLockIsOwned
<1>4. NoExitUnderway'
  <2>1. \A t \in Tasks : Selling(t)' /\ pc'[t] \in {"order", "save"}
                           => Selling(t) /\ pc[t] \in {"order", "save"}
    BY <1>1
  <2> QED
    BY <2>1 DEF ControlInv, NoExitUnderway
<1>5. OneSavedExit'
  BY DEF ControlInv, OneSavedExit
<1> QED
  BY <1>2, <1>3, <1>4, <1>5 DEF ControlInv

(* A buy or a manual order begins: no exit, and no lock. *)
LEMMA OtherOrderBegins ==
  ASSUME TypeOK, ControlInv, NEW t \in Tasks, NEW k, k \notin ExitKinds,
         pc[t] \notin {"check", "order", "save"},
         pc' = [pc EXCEPT ![t] = "check"], want' = [want EXCEPT ![t] = k],
         UNCHANGED <<pending, lock, kind, exch, row, placed>>
  PROVE  ControlInv'
<1>1. \A u \in Tasks : Selling(u)' <=> Selling(u)
  BY DEF TypeOK, Selling
<1>2. placed[t] = {}
  BY DEF TypeOK, ControlInv, PlacedIsUnsaved
<1>3. PlacedIsUnsaved'
  BY <1>2 DEF TypeOK, ControlInv, PlacedIsUnsaved
<1>4. LockGuards'
  BY <1>1 DEF ControlInv, LockGuards, SellLockIsOwned
<1>5. \A o \in Orders : SavedLiveExit(o)' <=> SavedLiveExit(o)
  BY DEF SavedLiveExit, OpenRow
<1>6. NoExitUnderway'
  <2>1. \A u \in Tasks : Selling(u)' /\ pc'[u] \in {"order", "save"} => pc[u] \in {"order", "save"}
    BY DEF TypeOK
  <2> QED
    BY <1>1, <1>5, <2>1 DEF ControlInv, NoExitUnderway
<1>7. OneSavedExit'
  BY <1>5 DEF ControlInv, OneSavedExit
<1> QED
  BY <1>3, <1>4, <1>6, <1>7 DEF ControlInv

(* executeSell enters: the session was unlocked and not waiting, so nobody else is inside. *)
LEMMA SellBegins ==
  ASSUME TypeOK, ControlInv, NEW t \in Tasks, NEW k \in ExitKinds, NEW n, ExecuteSell(t, k, n)
  PROVE  ControlInv'
<1> USE DEF rowVars, orderVars, ledgerVars
<1>1. /\ ~lock /\ ~pending /\ lock' = TRUE
      /\ pc' = [pc EXCEPT ![t] = "check"] /\ want' = [want EXCEPT ![t] = k]
      /\ UNCHANGED <<pending, kind, exch, row, placed>>
  BY DEF ExecuteSell, MaySell, Goto
<1>2. \A u \in Tasks : ~Selling(u)
  BY <1>1 DEF ControlInv, LockGuards, SellLockIsOwned
<1>3. \A u \in Tasks : Selling(u)' <=> u = t
  BY <1>1, <1>2 DEF TypeOK, Selling
<1>4. pc[t] \notin {"check", "order", "save"}
  BY DEF ExecuteSell, Evaluating
<1>5. PlacedIsUnsaved'
  <2>1. placed[t] = {}
    BY <1>4 DEF TypeOK, ControlInv, PlacedIsUnsaved
  <2> QED
    BY <1>1, <2>1 DEF TypeOK, ControlInv, PlacedIsUnsaved
<1>6. LockGuards'
  BY <1>1, <1>3 DEF LockGuards, SellLockIsOwned
<1>7. NoExitUnderway'
  BY <1>1, <1>3 DEF TypeOK, NoExitUnderway
<1>8. OneSavedExit'
  BY <1>1 DEF ControlInv, OneSavedExit, SavedLiveExit, OpenRow
<1> QED
  BY <1>5, <1>6, <1>7, <1>8 DEF ControlInv

(* A placement ends: the lock goes with the seller and stays with everybody else. *)
LEMMA FinishLock ==
  ASSUME TypeOK, ControlInv, NEW t \in Tasks, pc[t] \in {"check", "order", "save"}, Finish(t)
  PROVE  /\ \A u \in Tasks : Selling(u)' <=> Selling(u) /\ u # t
         /\ SellLockIsOwned'
         /\ lock' => lock /\ ~Selling(t)
<1>1. \A u \in Tasks : Selling(u)' <=> Selling(u) /\ u # t
  BY DEF TypeOK, Finish, Goto, Selling
<1>2. Selling(t) <=> want[t] \in ExitKinds
  BY DEF Selling
<1>3. CASE want[t] \in ExitKinds
  <2>1. ~lock'
    BY <1>3 DEF Finish
  <2>2. \A u \in Tasks : ~Selling(u)'
    BY <1>1, <1>2, <1>3 DEF ControlInv, LockGuards, SellLockIsOwned
  <2> QED
    BY <1>1, <2>1, <2>2 DEF SellLockIsOwned
<1>4. CASE want[t] \notin ExitKinds
  <2>1. lock' = lock
    BY <1>4 DEF Finish
  <2>2. \A u \in Tasks : Selling(u)' <=> Selling(u)
    BY <1>1, <1>2, <1>4
  <2> QED
    BY <1>1, <1>2, <1>4, <2>1, <2>2 DEF ControlInv, LockGuards, SellLockIsOwned
<1> QED
  BY <1>3, <1>4

(* An open order was found, or KIS refused: the placement ends without an order. *)
LEMMA NothingPlaced ==
  ASSUME TypeOK, ControlInv, NEW t \in Tasks, pc[t] \in {"check", "order"}, Finish(t),
         UNCHANGED <<pending, kind, exch, row>>
  PROVE  ControlInv'
<1>1. /\ \A u \in Tasks : Selling(u)' <=> Selling(u) /\ u # t
      /\ SellLockIsOwned'
      /\ lock' => lock /\ ~Selling(t)
  BY FinishLock
<1>2. /\ pc' = [pc EXCEPT ![t] = "idle"] /\ want' = [want EXCEPT ![t] = "none"]
      /\ placed' = [placed EXCEPT ![t] = {}]
  BY DEF Finish, Goto
<1>3. PlacedIsUnsaved'
  BY <1>2 DEF TypeOK, ControlInv, PlacedIsUnsaved
<1>4. LockGuards'
  BY <1>1 DEF ControlInv, LockGuards
<1>5. \A o \in Orders : SavedLiveExit(o)' <=> SavedLiveExit(o)
  BY DEF SavedLiveExit, OpenRow
<1>6. NoExitUnderway'
  <2>1. \A u \in Tasks : u # t => pc'[u] = pc[u]
    BY <1>2 DEF TypeOK
  <2> QED
    BY <1>1, <1>5, <2>1 DEF ControlInv, NoExitUnderway
<1>7. OneSavedExit'
  BY <1>5 DEF ControlInv, OneSavedExit
<1> QED
  BY <1>3, <1>4, <1>6, <1>7 DEF ControlInv

(* No row is open, so no exit is known to be live: the seller may order. *)
LEMMA LookedForOpenOrders ==
  ASSUME TypeOK, ControlInv, NEW t \in Tasks, NoOpenOrder(t)
  PROVE  ControlInv'
<1> USE DEF rowVars, orderVars, ledgerVars
<1>1. /\ pc[t] = "check" /\ ~HasOpenOrder /\ pc' = [pc EXCEPT ![t] = "order"]
      /\ UNCHANGED <<pending, lock, kind, exch, row, want, placed>>
  BY DEF NoOpenOrder, Goto
<1>2. \A u \in Tasks : Selling(u)' <=> Selling(u)
  BY <1>1 DEF TypeOK, Selling
<1>3. \A o \in Orders : ~SavedLiveExit(o)'
  BY <1>1 DEF SavedLiveExit, HasOpenOrder, OpenRow
<1>4. PlacedIsUnsaved'
  <2>1. placed[t] = {}
    BY <1>1 DEF TypeOK, ControlInv, PlacedIsUnsaved
  <2> QED
    BY <1>1, <2>1 DEF TypeOK, ControlInv, PlacedIsUnsaved
<1>5. LockGuards'
  BY <1>1, <1>2 DEF ControlInv, LockGuards, SellLockIsOwned
<1> QED
  BY <1>3, <1>4, <1>5 DEF ControlInv, NoExitUnderway, OneSavedExit

(* KIS accepts the order: it was unsent, so no other task holds it and it has no row. *)
LEMMA Accepted ==
  ASSUME TypeOK, ControlInv, NEW t \in Tasks, NEW o \in Orders, OrderAccepted(t, o)
  PROVE  ControlInv'
<1> USE DEF rowVars, orderVars, ledgerVars
<1>1. /\ pc[t] = "order" /\ exch[o] = "unsent" /\ exch' = [exch EXCEPT ![o] = "live"]
      /\ kind' = [kind EXCEPT ![o] = want[t]] /\ placed' = [placed EXCEPT ![t] = {o}]
      /\ pc' = [pc EXCEPT ![t] = "save"]
      /\ UNCHANGED <<pending, lock, row, want>>
  BY DEF OrderAccepted, Goto
<1>2. row[o] = "none" /\ \A u \in Tasks : o \notin placed[u]
  BY <1>1 DEF TypeOK, ControlInv, PlacedIsUnsaved
<1>3. \A u \in Tasks : Selling(u)' <=> Selling(u)
  BY <1>1 DEF TypeOK, Selling
<1>4. \A q \in Orders : SavedLiveExit(q)' <=> SavedLiveExit(q)
  BY <1>1, <1>2 DEF TypeOK, SavedLiveExit, OpenRow
<1>5. PlacedIsUnsaved'
  <2>1. \A u \in Tasks : u # t => placed'[u] = placed[u] /\ pc'[u] = pc[u]
    BY <1>1 DEF TypeOK
  <2>2. placed'[t] = {o} /\ pc'[t] = "save" /\ kind'[o] = want[t] /\ exch'[o] = "live"
    BY <1>1 DEF TypeOK
  <2>3. \A q \in Orders : q # o => kind'[q] = kind[q] /\ exch'[q] = exch[q]
    BY <1>1 DEF TypeOK
  <2>4. ASSUME NEW u \in Tasks, NEW q \in placed'[u]
        PROVE  pc'[u] = "save" /\ kind'[q] = want[u] /\ row[q] = "none" /\ exch'[q] # "unsent"
    <3>1. CASE u = t
      BY <1>2, <2>2, <3>1
    <3>2. CASE u # t
      BY <1>2, <2>1, <2>3, <3>2 DEF TypeOK, ControlInv, PlacedIsUnsaved
    <3> QED
      BY <3>1, <3>2
  <2>5. \A u, v \in Tasks : \A q \in placed'[u] : q \in placed'[v] => u = v
    BY <1>2, <2>1, <2>2 DEF ControlInv, PlacedIsUnsaved
  <2>6. \A u \in Tasks : \A q, r \in placed'[u] : q = r
    BY <2>1, <2>2 DEF ControlInv, PlacedIsUnsaved
  <2>7. \A q \in Orders : row[q] # "none" => exch'[q] # "unsent"
    BY <1>2, <2>3 DEF ControlInv, PlacedIsUnsaved
  <2> QED
    BY <1>1, <2>4, <2>5, <2>6, <2>7 DEF PlacedIsUnsaved
<1>6. LockGuards'
  BY <1>1, <1>3 DEF ControlInv, LockGuards, SellLockIsOwned
<1>7. NoExitUnderway'
  <2>1. \A u \in Tasks : pc'[u] \in {"order", "save"} => pc[u] \in {"order", "save"}
    BY <1>1 DEF TypeOK
  <2> QED
    BY <1>3, <1>4, <2>1 DEF ControlInv, NoExitUnderway
<1>8. OneSavedExit'
  BY <1>4 DEF ControlInv, OneSavedExit
<1> QED
  BY <1>5, <1>6, <1>7, <1>8 DEF ControlInv

(* The row is written, or lost, and the placement ends: an exit that becomes known had no other *)
(* beside it, and its mark comes with the end of the only seller.                               *)
LEMMA Saved ==
  ASSUME TypeOK, ControlInv, NEW t \in Tasks, OrderSaved(t)
  PROVE  ControlInv'
<1> USE DEF rowVars, orderVars, ledgerVars
<1>1. /\ pc[t] = "save" /\ Finish(t)
      /\ \/ row' = [o \in Orders |-> IF o \in placed[t] THEN "open" ELSE row[o]]
         \/ row' = row
      /\ pending' = (pending \/ want[t] \in FullExits)
      /\ UNCHANGED <<kind, exch>>
  BY DEF OrderSaved
<1>2. /\ \A u \in Tasks : Selling(u)' <=> Selling(u) /\ u # t
      /\ SellLockIsOwned'
      /\ lock' => lock /\ ~Selling(t)
  BY <1>1, FinishLock
<1>3. /\ pc' = [pc EXCEPT ![t] = "idle"] /\ want' = [want EXCEPT ![t] = "none"]
      /\ placed' = [placed EXCEPT ![t] = {}]
  BY <1>1 DEF Finish, Goto
<1>4. \A o \in Orders : row'[o] = row[o] \/ o \in placed[t]
  BY <1>1 DEF TypeOK
<1>5. PlacedIsUnsaved'
  <2>1. \A u \in Tasks : u # t => placed'[u] = placed[u] /\ pc'[u] = pc[u] /\ want'[u] = want[u]
    BY <1>3 DEF TypeOK
  <2>2. placed'[t] = {}
    BY <1>3 DEF TypeOK
  <2>3. ASSUME NEW u \in Tasks, NEW q \in placed'[u]
        PROVE  pc'[u] = "save" /\ kind[q] = want'[u] /\ row'[q] = "none" /\ exch[q] # "unsent"
    <3>1. u # t /\ q \in placed[u] /\ q \in Orders
      BY <2>1, <2>2, <2>3 DEF TypeOK
    <3>2. q \notin placed[t]
      BY <3>1 DEF ControlInv, PlacedIsUnsaved
    <3> QED
      BY <1>4, <2>1, <3>1, <3>2 DEF ControlInv, PlacedIsUnsaved
  <2>4. \A u, v \in Tasks : \A q \in placed'[u] : q \in placed'[v] => u = v
    BY <2>1, <2>2 DEF ControlInv, PlacedIsUnsaved
  <2>5. \A u \in Tasks : \A q, r \in placed'[u] : q = r
    BY <2>1, <2>2 DEF ControlInv, PlacedIsUnsaved
  <2>6. \A q \in Orders : row'[q] # "none" => exch[q] # "unsent"
    BY <1>4 DEF ControlInv, PlacedIsUnsaved
  <2> QED
    BY <1>1, <2>3, <2>4, <2>5, <2>6 DEF PlacedIsUnsaved
<1>6. LockGuards'
  <2>1. want[t] \in FullExits => Selling(t)
    BY <1>1 DEF Selling, ExitKinds
  <2>2. pending' => ~lock'
    BY <1>1, <1>2, <2>1 DEF TypeOK, ControlInv, LockGuards
  <2> QED
    BY <1>2, <2>2 DEF LockGuards
<1>7. \A o \in Orders : SavedLiveExit(o)' => SavedLiveExit(o) \/ (o \in placed[t] /\ Selling(t))
  <2>1. \A o \in placed[t] : kind[o] = want[t]
    BY DEF ControlInv, PlacedIsUnsaved
  <2> QED
    BY <1>1, <1>4, <2>1 DEF SavedLiveExit, OpenRow, Selling
<1>8. NoExitUnderway'
  <2> SUFFICES ASSUME NEW u \in Tasks, Selling(u)', pc'[u] \in {"order", "save"}, NEW o \in Orders
               PROVE  ~SavedLiveExit(o)'
    BY DEF NoExitUnderway
  <2>1. Selling(u) /\ u # t /\ pc'[u] = pc[u]
    BY <1>2, <1>3 DEF TypeOK
  <2>2. ~Selling(t)
    BY <2>1 DEF ControlInv, LockGuards, SellLockIsOwned
  <2> QED
    BY <1>7, <2>1, <2>2 DEF ControlInv, NoExitUnderway
<1>9. OneSavedExit'
  <2> SUFFICES ASSUME NEW o \in Orders, NEW q \in Orders, SavedLiveExit(o)', SavedLiveExit(q)'
               PROVE  o = q
    BY DEF OneSavedExit
  <2>1. CASE Selling(t)
    <3>1. ~SavedLiveExit(o) /\ ~SavedLiveExit(q)
      BY <1>1, <2>1 DEF ControlInv, NoExitUnderway
    <3> QED
      BY <1>7, <3>1 DEF ControlInv, PlacedIsUnsaved
  <2>2. CASE ~Selling(t)
    BY <1>7, <2>2 DEF ControlInv, OneSavedExit
  <2> QED
    BY <2>1, <2>2
<1> QED
  BY <1>5, <1>6, <1>8, <1>9 DEF ControlInv

(* A restart forgets every placement and the lock together. *)
LEMMA Restarted == ASSUME TypeOK, ControlInv, Restart PROVE ControlInv'
<1>1. /\ lock' = FALSE /\ pc' = [t \in Tasks |-> "idle"] /\ placed' = [t \in Tasks |-> {}]
      /\ UNCHANGED <<pending, kind, exch, row>>
  BY DEF Restart, rowVars, orderVars
<1>2. \A t \in Tasks : ~Selling(t)'
  BY <1>1 DEF Selling
<1>3. PlacedIsUnsaved'
  BY <1>1 DEF ControlInv, PlacedIsUnsaved
<1>4. LockGuards' /\ NoExitUnderway'
  BY <1>1, <1>2 DEF LockGuards, SellLockIsOwned, NoExitUnderway
<1>5. OneSavedExit'
  BY <1>1 DEF ControlInv, OneSavedExit, SavedLiveExit, OpenRow
<1> QED
  BY <1>3, <1>4, <1>5 DEF ControlInv

(* Every step keeps the control part: the placement steps by the lemmas above, the others by OutsideStep. *)
LEMMA ControlStep == ASSUME TypeOK, ControlInv, Next PROVE ControlInv'
<1> USE DEF rowVars, orderVars, ledgerVars, taskVars
<1>1. ASSUME NEW t \in Tasks, NEW s, pc[t] \notin {"check", "order", "save"}, s \notin {"check", "order", "save"},
             pc' = [pc EXCEPT ![t] = s], pending' => pending,
             UNCHANGED <<lock, kind, exch, row, want, placed>>
      PROVE  ControlInv'
  <2>1. \A u \in Tasks : \/ pc'[u] = pc[u]
                         \/ pc[u] \notin {"check", "order", "save"} /\ pc'[u] \notin {"check", "order", "save"}
    BY <1>1 DEF TypeOK
  <2>2. \A o \in Orders : /\ row'[o] = "none" <=> row[o] = "none"
                          /\ exch'[o] = "unsent" <=> exch[o] = "unsent"
                          /\ SavedLiveExit(o)' => SavedLiveExit(o)
    BY <1>1 DEF SavedLiveExit, OpenRow
  <2> QED
    BY <1>1, <2>1, <2>2, OutsideStep
<1>2. ASSUME NEW t \in Tasks, BalanceAnswers(t) \/ GetBalanceFails(t) \/ LoopStep(t) PROVE ControlInv'
  <2>1. CASE LoopTick(t)
    BY <1>1, <2>1 DEF LoopTick, Goto
  <2>2. CASE BalanceAnswers(t)
    BY <1>1, <2>2 DEF BalanceAnswers, GetBalance, Goto
  <2>3. CASE GetBalanceFails(t)
    <3>1. CASE pc[t] = "balance" /\ pending
      BY <1>1, <2>3, <3>1 DEF GetBalanceFails, Goto
    <3>2. CASE pc[t] = "balance" /\ ~pending
      BY <1>1, <2>3, <3>2 DEF GetBalanceFails, Goto
    <3>3. CASE pc[t] = "reconcileBalance"
      BY <1>1, <2>3, <3>3 DEF GetBalanceFails, Goto
    <3> QED
      BY <2>3, <3>1, <3>2, <3>3 DEF GetBalanceFails
  <2>4. CASE ApplyBalanceSnapshot(t)
    <3>1. AfterSync \notin {"check", "order", "save"}
      BY DEF AfterSync
    <3>2. pending' => pending
      BY <2>4 DEF ApplyBalanceSnapshot, ApplyPausedState
    <3> QED
      BY <1>1, <2>4, <3>1, <3>2 DEF ApplyBalanceSnapshot, Goto
  <2>5. CASE ReconcilePendingAutoPauses(t)
    <3>1. CASE seen[t] = 0
      BY <1>1, <2>5, <3>1 DEF ReconcilePendingAutoPauses, ApplyPausedState, Goto
    <3>2. CASE seen[t] # 0
      BY <1>1, <2>5, <3>2 DEF ReconcilePendingAutoPauses, Goto
    <3> QED
      BY <3>1, <3>2
  <2>6. CASE RearmResidual(t)
    <3>1. CASE Goto(t, "map")
      BY <1>1, <2>6, <3>1 DEF RearmResidual, Goto
    <3>2. CASE Goto(t, "release")
      BY <1>1, <2>6, <3>2 DEF RearmResidual, Goto
    <3> QED
      BY <2>6, <3>1, <3>2 DEF RearmResidual
  <2>8. CASE ReleaseResidual(t)
    BY <1>1, <2>8 DEF ReleaseResidual, Goto
  <2>7. CASE GetOpenOrderMap(t)
    BY <1>1, <2>7 DEF GetOpenOrderMap, Goto
  <2> QED
    BY <1>2, <2>1, <2>2, <2>3, <2>4, <2>5, <2>6, <2>7, <2>8 DEF LoopStep
<1>3. ASSUME NEW t \in Tasks, Decide(t) PROVE ControlInv'
  <2>1. CASE SellAll(t)
    BY <2>1, SellBegins DEF SellAll, ExitKinds, FullExits
  <2>2. CASE TakeFirstProfit(t)
    BY <2>2, SellBegins DEF TakeFirstProfit, ExitKinds, StageKinds
  <2>3. CASE ExecuteBuy(t)
    BY <2>3, OtherOrderBegins DEF ExecuteBuy, Goto, ExitKinds, FullExits, StageKinds
  <2>4. CASE TickEnds(t)
    BY <1>1, <2>4 DEF TickEnds, Goto
  <2>5. ASSUME NEW k \in {"manual-sell", "manual-buy"}, NEW n \in 1 .. Shares, ExecuteManualOrder(t, k, n)
        PROVE  ControlInv'
    BY <2>5, OtherOrderBegins DEF ExecuteManualOrder, Goto, ExitKinds, FullExits, StageKinds
  <2>6. CASE ExecuteImmediateBuy(t)
    BY <2>6, OtherOrderBegins DEF ExecuteImmediateBuy, Goto, ExitKinds, FullExits, StageKinds
  <2> QED
    BY <1>3, <2>1, <2>2, <2>3, <2>4, <2>5, <2>6 DEF Decide
<1>4. ASSUME NEW t \in Tasks, Place(t) PROVE ControlInv'
  <2>1. CASE OpenOrderFound(t) \/ OrderRefused(t)
    BY <2>1, NothingPlaced DEF OpenOrderFound, OrderRefused
  <2> QED
    BY <1>4, <2>1, LookedForOpenOrders, Accepted, Saved DEF Place
<1>5. ASSUME NEW o \in Orders,
             \A q \in Orders : q # o => row'[q] = row[q] /\ exch'[q] = exch[q],
             row'[o] = row[o] \/ (row[o] = "open" /\ row'[o] \in {"open", "closed"}),
             exch'[o] = exch[o] \/ (exch[o] = "live" /\ exch'[o] \in {"live", "closed"}),
             pending' => pending, UNCHANGED <<lock, kind, pc, want, placed>>
      PROVE  ControlInv'
  <2>1. \A q \in Orders : /\ row'[q] = "none" <=> row[q] = "none"
                          /\ exch'[q] = "unsent" <=> exch[q] = "unsent"
                          /\ SavedLiveExit(q)' => SavedLiveExit(q)
    BY <1>5 DEF SavedLiveExit, OpenRow
  <2> QED
    BY <1>5, <2>1, OutsideStep
<1>6. ASSUME NEW o \in Orders, Exchange(o) PROVE ControlInv'
  BY <1>5, <1>6 DEF TypeOK, Exchange, ExchangeFills, ExchangeCancels
<1>7. ASSUME NEW o \in Orders, MarkOrderRejected(o) PROVE ControlInv'
  BY <1>5, <1>7 DEF TypeOK, MarkOrderRejected, OpenRow
<1>8. ASSUME NEW o \in Orders, Report(o) \/ ReportsEnd(o) \/ FollowUp(o) PROVE ControlInv'
  <2>1. CASE RecordClosed(o)
    BY <1>5, <2>1 DEF TypeOK, RecordClosed, OpenRow
  <2>2. ASSUME NEW n \in 1 .. Shares, RecordExecution(o, n) PROVE ControlInv'
    BY <1>5, <2>2 DEF TypeOK, RecordExecution, OpenRow
  <2>3. CASE ReleaseAfterReject(o)
    BY <1>5, <2>3 DEF ReleaseAfterReject
  <2>4. ASSUME NEW p \in inHand[o], ApplyConfirmedOrderExecution(o, p) PROVE ControlInv'
    BY <1>5, <2>4 DEF ApplyConfirmedOrderExecution
  <2>5. CASE ReportsEnd(o)
    BY <1>5, <2>5 DEF ReportsEnd
  <2> QED
    BY <1>8, <2>1, <2>2, <2>3, <2>4, <2>5 DEF Report, FollowUp
<1>9. ASSUME NEW o \in Orders, Pauser(o) PROVE ControlInv'
  BY <1>5, <1>9 DEF Pauser, PauserBalance, PauserHeld, PauserReleases, PauserFlat, ApplyPausedState
<1>10. ASSUME PauseSession \/ ResumeSession \/ StopSession PROVE ControlInv'
  <2>1. ~pending' /\ UNCHANGED <<lock, kind, exch, row, pc, want, placed>>
    BY <1>10 DEF PauseSession, ResumeSession, StopSession, ApplyPausedState
  <2>2. \A o \in Orders : /\ row'[o] = "none" <=> row[o] = "none"
                          /\ exch'[o] = "unsent" <=> exch[o] = "unsent"
                          /\ SavedLiveExit(o)' => SavedLiveExit(o)
    BY <2>1 DEF SavedLiveExit, OpenRow
  <2> QED
    BY <2>1, <2>2, OutsideStep
<1> QED
  BY <1>2, <1>3, <1>4, <1>6, <1>7, <1>8, <1>9, <1>10, Restarted DEF Next

LEMMA StutterStep == ASSUME IInv, UNCHANGED vars PROVE IInv'
<1> USE DEF vars
<1>1. TypeOK'
  BY DEF IInv, TypeOK
<1>2. HandedIsExecuted'
  BY DEF IInv, HandedIsExecuted
<1>3. \A o \in Orders : SavedLiveExit(o)' <=> SavedLiveExit(o)
  BY DEF SavedLiveExit, OpenRow
<1>4. ControlInv'
  BY <1>3, OutsideStep DEF IInv
<1> QED
  BY <1>1, <1>2, <1>4 DEF IInv

LEMMA InvStep == IInv /\ [Next]_vars => IInv'
<1> SUFFICES ASSUME IInv, [Next]_vars PROVE IInv'
  OBVIOUS
<1>1. CASE Next
  <2>1. TypeOK'
    BY <1>1, TypeStep DEF IInv
  <2>2. HandedIsExecuted'
    BY <1>1, HandedStep DEF IInv
  <2>3. ControlInv'
    BY <1>1, ControlStep DEF IInv
  <2> QED
    BY <2>1, <2>2, <2>3 DEF IInv
<1>2. CASE UNCHANGED vars
  BY <1>2, StutterStep
<1> QED
  BY <1>1, <1>2

(* The strengthening holds in every reachable state, whatever the loops, the ticks, the user, the  *)
(* exchange and the process do.                                                                    *)
THEOREM Invariance == Spec => []IInv
  BY InitInv, InvStep, PTL DEF Spec

-----------------------------------------------------------------------------
(* No step of AutoTradingService, of the exchange or of a restart takes a variable out of its type: *)
(* no synchronisation, sale or stray fill makes holdingQty or a quantity negative.                  *)
THEOREM TypeCorrect == Spec => []TypeOK
<1>1. IInv => TypeOK
  BY DEF IInv
<1> QED
  BY <1>1, Invariance, PTL

(* sellInFlightSessionIds is held exactly while one task is inside executeSell. *)
THEOREM LockIsOwned == Spec => []SellLockIsOwned
<1>1. IInv => SellLockIsOwned
  BY DEF IInv, ControlInv, LockGuards
<1> QED
  BY <1>1, Invariance, PTL

(* A live exit whose row is not open yet is the one its seller is saving. *)
LEMMA KnownExits ==
  ASSUME IInv, NEW o \in Orders, KnownLiveExit(o)
  PROVE  SavedLiveExit(o) \/ \E t \in Tasks : o \in placed[t] /\ Selling(t) /\ pc[t] = "save"
<1>1. CASE OpenRow(o)
  BY <1>1 DEF KnownLiveExit, SavedLiveExit
<1>2. CASE ~OpenRow(o)
  <2>1. PICK t \in Tasks : o \in placed[t]
    BY <1>2 DEF KnownLiveExit
  <2>2. pc[t] = "save" /\ want[t] \in ExitKinds
    BY <2>1 DEF IInv, ControlInv, PlacedIsUnsaved, KnownLiveExit
  <2> QED
    BY <2>1, <2>2 DEF Selling
<1> QED
  BY <1>1, <1>2

(* The loop, the ticks and the re-arming of a waiting session never have two exit orders of the  *)
(* session live at KIS that the engine knows of: executeSell's lock, its look for open orders and *)
(* autoPausePending exclude it together.                                                          *)
THEOREM AtMostOneLiveExit == Spec => []OneLiveExit
<1>1. ASSUME IInv PROVE OneLiveExit
  <2> SUFFICES ASSUME NEW o \in Orders, NEW q \in Orders, KnownLiveExit(o), KnownLiveExit(q)
               PROVE  o = q
    BY DEF OneLiveExit
  <2>1. CASE SavedLiveExit(o) /\ SavedLiveExit(q)
    BY <1>1, <2>1 DEF IInv, ControlInv, OneSavedExit
  <2>2. CASE \E t \in Tasks : o \in placed[t] /\ Selling(t) /\ pc[t] = "save"
    <3>1. ~SavedLiveExit(q)
      BY <1>1, <2>2 DEF IInv, ControlInv, NoExitUnderway
    <3>2. \E t \in Tasks : q \in placed[t] /\ Selling(t)
      BY <1>1, <3>1, KnownExits
    <3> QED
      BY <1>1, <2>2, <3>2 DEF IInv, ControlInv, LockGuards, SellLockIsOwned, PlacedIsUnsaved
  <2>3. CASE \E t \in Tasks : q \in placed[t] /\ Selling(t) /\ pc[t] = "save"
    <3>1. ~SavedLiveExit(o)
      BY <1>1, <2>3 DEF IInv, ControlInv, NoExitUnderway
    <3>2. \E t \in Tasks : o \in placed[t] /\ Selling(t)
      BY <1>1, <3>1, KnownExits
    <3> QED
      BY <1>1, <2>3, <3>2 DEF IInv, ControlInv, LockGuards, SellLockIsOwned, PlacedIsUnsaved
  <2> QED
    BY <1>1, <2>1, <2>2, <2>3, KnownExits
<1> QED
  BY <1>1, Invariance, PTL

-----------------------------------------------------------------------------
(* scaleOutStage moves from 0 to 1 only when a take-profit order has filled: what advances it is a *)
(* portion of its fill, and a portion is handed on only after its row recorded it.                 *)
THEOREM StageNeedsFill == Spec => StageAfterFill
<1> DEFINE A == stage = 0 /\ stage' = 1
                  => \E o \in Orders : kind[o] \in StageKinds /\ executed[o] > 0
<1>1. IInv /\ [Next]_vars => [A]_vars
  <2> SUFFICES ASSUME IInv, Next, stage = 0, stage' = 1
               PROVE  \E o \in Orders : kind[o] \in StageKinds /\ executed[o] > 0
    BY DEF vars
  <2> USE DEF rowVars, orderVars, ledgerVars, taskVars
  <2>1. ASSUME NEW t \in Tasks, BalanceAnswers(t) \/ GetBalanceFails(t) \/ LoopStep(t) PROVE FALSE
    BY <2>1 DEF BalanceAnswers, GetBalance, GetBalanceFails, LoopStep, LoopTick, ApplyBalanceSnapshot,
                ReconcilePendingAutoPauses, RearmResidual, ReleaseResidual, GetOpenOrderMap,
                ApplyPausedState, SetHolding
  <2>2. ASSUME NEW t \in Tasks, Decide(t) \/ Place(t) PROVE FALSE
    BY <2>2 DEF Decide, SellAll, TakeFirstProfit, ExecuteSell, ExecuteBuy, TickEnds, ExecuteManualOrder,
                ExecuteImmediateBuy, Place, OpenOrderFound, NoOpenOrder, OrderRefused, OrderSaved,
                OrderAccepted
  <2>3. ASSUME NEW o \in Orders, NEW p \in inHand[o], ApplyConfirmedOrderExecution(o, p)
        PROVE  kind[o] \in StageKinds /\ executed[o] > 0
    <3>1. kind[o] \in StageKinds /\ p[1] = 1
      BY <2>3 DEF ApplyConfirmedOrderExecution, ApplyToSession
    <3>2. p[2] \in Nat /\ p[1] <= p[2] /\ p[2] <= executed[o] /\ executed[o] \in Nat
      BY DEF IInv, TypeOK, Portions, HandedIsExecuted
    <3> QED
      BY <3>1, <3>2
  <2>4. ASSUME NEW o \in Orders, Exchange(o) \/ MarkOrderRejected(o) \/ Pauser(o) PROVE FALSE
    BY <2>4 DEF Exchange, ExchangeFills, ExchangeCancels, MarkOrderRejected, Pauser, PauserBalance,
                PauserHeld, PauserReleases, PauserFlat
  <2>5. ASSUME NEW o \in Orders, RecordClosed(o) \/ ReleaseAfterReject(o) \/ ReportsEnd(o)
                                  \/ \E n \in 1 .. Shares : RecordExecution(o, n)
        PROVE  FALSE
    BY <2>5 DEF RecordClosed, ReleaseAfterReject, ReportsEnd, RecordExecution
  <2>6. ASSUME PauseSession \/ ResumeSession \/ StopSession \/ Restart PROVE FALSE
    BY <2>6 DEF PauseSession, ResumeSession, StopSession, Restart
  <2> QED
    BY <2>1, <2>2, <2>3, <2>4, <2>5, <2>6 DEF Next, Report, FollowUp
<1> QED
  BY <1>1, Invariance, PTL DEF Spec, StageAfterFill
=============================================================================
