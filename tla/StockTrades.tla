------------------------------ MODULE StockTrades ------------------------------
(***************************************************************************)
(* What the engine does with each trade of a stock it follows              *)
(* (startMonitoring's subscription to execution$): the tracker of one-     *)
(* minute candles records it, and with VI_HANDLING_ENABLED the tracker of  *)
(* interruptions looks at its halt flag.  Both forget the stock when its   *)
(* last session is no longer active.                                       *)
(***************************************************************************)
EXTENDS ViHold, IntradayScalping

VARIABLE
    viHandlingEnabled   \* VI_HANDLING_ENABLED

vars == <<holdVars, scalpingVars, viHandlingEnabled>>

Init == HoldInit /\ ScalpingInit /\ viHandlingEnabled \in BOOLEAN

(* updateViStateFromExecution *)
UpdateViState(trade) ==
    CASE viHandlingEnabled /\ trade.halted -> HaltedTrade
      [] viHandlingEnabled /\ ~trade.halted /\ halt # "no" -> PlainTrade
      [] OTHER -> UNCHANGED holdVars

TradeArrives(trade) ==
    /\ Trade(trade)
    /\ UpdateViState(trade)
    /\ UNCHANGED viHandlingEnabled

(* syncStockActivity with no active session left.  Without VI handling nothing here depends on the *)
(* sessions, so it may happen at any time.                                                        *)
ForgetStock ==
    /\ IF viHandlingEnabled THEN HoldsForgotten ELSE latest # None /\ UNCHANGED holdVars
    /\ ClearStock
    /\ UNCHANGED viHandlingEnabled

NextWith(trades) ==
    \/ \E trade \in trades : TradeArrives(trade)
    \/ ForgetStock
    \/ viHandlingEnabled /\ HoldNext /\ UNCHANGED <<scalpingVars, viHandlingEnabled>>
    \/ (TimePasses \/ NextDay) /\ UNCHANGED <<holdVars, viHandlingEnabled>>

Next == NextWith({TradeOf(t, q) : t \in Times, q \in Quotes})

(* Timers fire and awaited calls return. *)
Fairness ==
    /\ WF_vars(ClearTimerFires /\ UNCHANGED <<scalpingVars, viHandlingEnabled>>)
    /\ WF_vars(ReevaluationFires /\ UNCHANGED <<scalpingVars, viHandlingEnabled>>)
    /\ WF_vars(RunStep /\ UNCHANGED <<scalpingVars, viHandlingEnabled>>)
================================================================================
