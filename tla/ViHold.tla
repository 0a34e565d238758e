-------------------------------- MODULE ViHold --------------------------------
(***************************************************************************)
(* Orders during a volatility interruption or a trading halt of one stock  *)
(* (AutoTradingService with VI_HANDLING_ENABLED, ViStateTracker): entries  *)
(* and exits that can wait are held back, and when the stock is traded     *)
(* again, or no more is heard of the halt, their sessions are looked at    *)
(* again.  Exits that cannot wait, a stop loss above all, are never held.  *)
(*                                                                         *)
(* Whether there is an entry or an exit is a choice here (AutoTrading and  *)
(* ExitRules), so what a held order was for does not matter.  Of the code  *)
(* values of a single-price auction none is known yet (the set in the code *)
(* is empty), so only the halt flag of a trade starts an interruption.     *)
(***************************************************************************)
EXTENDS Naturals

CONSTANTS
    Sessions    \* the sessions of the stock

VARIABLES
    halt,       \* the tracker: "no", "yes", or "over" when activeUntil has passed unnoticed
    clearTimer, \* viClearTimeoutTimers, due at activeUntil
    reevalTimer,\* viReevaluationTimers
    run,        \* the call of reevaluateHeldOrdersForStock that is under way
    held,       \* viHeldOrders
    activeIds,  \* active sessions in the database
    loaded,     \* sessions the signal loop or a price check is working on
    syncing,    \* syncStockActivity is under way
    refused,    \* held orders whose re-evaluation was refused because another one was under way,
    failed      \* and those a failed one left; only the properties look at these two

engineVars == <<activeIds, loaded, syncing>>
missed == <<refused, failed>>
holdVars == <<halt, clearTimer, reevalTimer, run, held, missed, engineVars>>

NoSession == {}
Idle == [at |-> "idle", todo |-> {}, found |-> {}, on |-> NoSession]

HoldInit ==
    /\ halt = "no" /\ clearTimer = FALSE /\ reevalTimer = FALSE
    /\ run = Idle
    /\ held = {} /\ refused = {} /\ failed = {}
    /\ activeIds = Sessions /\ loaded = {} /\ syncing = FALSE

-------------------------------------------------------------------------------
(* Trades of the stock: updateViStateFromExecution. *)

HaltedTrade ==
    /\ halt' = "yes" /\ clearTimer' = TRUE
    /\ UNCHANGED <<reevalTimer, run, held, missed, engineVars>>

(* A trade that is not halted releases an interruption the tracker still knows of. *)
PlainTrade ==
    /\ halt # "no"
    /\ halt' = "no" /\ clearTimer' = FALSE /\ reevalTimer' = TRUE
    /\ UNCHANGED <<run, held, missed, engineVars>>

(* clearTimeoutMs pass without a halted trade. *)
TimeoutPasses ==
    /\ halt = "yes" /\ halt' = "over"
    /\ UNCHANGED <<clearTimer, reevalTimer, run, held, missed, engineVars>>

(* getState: an interruption nothing was heard of for too long has ended. *)
GetState == IF halt = "over" THEN "no" ELSE halt

(* viHeldOrders.set and delete. *)
Hold(s) ==
    /\ held' = held \cup {s}
    /\ refused' = refused \ {s} /\ failed' = failed \ {s}

Release(ss) ==
    /\ held' = held \ ss
    /\ refused' = refused \ ss /\ failed' = failed \ ss

-------------------------------------------------------------------------------
(* Timers. *)

(* Mutant: the interruption that timed out is not followed by a re-evaluation. *)
ClearTimerFiresSilently ==
    /\ clearTimer
    /\ halt' = GetState /\ clearTimer' = (halt = "yes")
    /\ UNCHANGED <<reevalTimer, run, held, missed, engineVars>>

(* handleViClearTimeout; a timer that fires before activeUntil is set again. *)
ClearTimerFires ==
    /\ clearTimer
    /\ halt' = GetState /\ clearTimer' = (halt = "yes")
    /\ reevalTimer' = (reevalTimer \/ halt # "yes")
    /\ UNCHANGED <<run, held, missed, engineVars>>

(* viReevaluationInFlight *)
InFlight == run # Idle

MayReevaluate == ~InFlight /\ halt = "no"

(* The timer of a re-evaluation fires while one is under way, or in the next interruption. *)
ReevaluationRefused ==
    /\ reevalTimer /\ ~MayReevaluate
    /\ reevalTimer' = FALSE
    /\ refused' = IF InFlight THEN refused \cup (held \ run.todo) ELSE refused
    /\ UNCHANGED <<halt, clearTimer, run, held, failed, engineVars>>

NothingHeld ==
    /\ reevalTimer /\ MayReevaluate /\ held = {}
    /\ reevalTimer' = FALSE
    /\ UNCHANGED <<halt, clearTimer, run, held, missed, engineVars>>

(* It starts with the orders that are held now, and asks for their sessions. *)
ReevaluationStarts ==
    /\ reevalTimer /\ MayReevaluate /\ held # {}
    /\ run' = [Idle EXCEPT !.at = "find", !.todo = held]
    /\ reevalTimer' = FALSE
    /\ UNCHANGED <<halt, clearTimer, held, missed, engineVars>>

ReevaluationFires == ReevaluationRefused \/ NothingHeld \/ ReevaluationStarts

-------------------------------------------------------------------------------
(* A session is judged: its order is held back, an order of it is accepted, or there is none. *)

(* shouldDeferForVi *)
Defer(s) ==
    /\ halt = "yes"
    /\ Hold(s)
    /\ UNCHANGED halt

(* An accepted order ends the hold, unless it sells a part only; exits that are never held do not   *)
(* ask for the state.                                                                              *)
Order(s) ==
    /\ Release({s}) \/ UNCHANGED <<held, missed>>
    /\ halt' \in {halt, GetState}

NoOrder == UNCHANGED <<halt, held, missed>>

(* reevaluateHeldOrdersForStock, between its awaits. *)
SessionsFound ==
    /\ run.at = "find"
    /\ run' = [run EXCEPT !.at = "loop", !.found = activeIds]
    /\ UNCHANGED <<halt, clearTimer, reevalTimer, held, missed, engineVars>>

(* The order is taken out of the hold; a session that is no longer active is passed over. *)
TakeHeld ==
    /\ run.at = "loop"
    /\ \E s \in run.todo :
         /\ Release({s})
         /\ run' = [run EXCEPT !.todo = @ \ {s}, !.on = {s} \cap run.found,
                               !.at = IF s \in run.found THEN "judge" ELSE "loop"]
    /\ UNCHANGED <<halt, clearTimer, reevalTimer, engineVars>>

(* A price has come, or none: the session is judged as the signal loop judges it. *)
Judged ==
    /\ run.at = "judge"
    /\ run' = [run EXCEPT !.at = "loop", !.on = NoSession]
    /\ NoOrder \/ \E s \in run.on : Defer(s) \/ Order(s)
    /\ UNCHANGED <<clearTimer, reevalTimer, engineVars>>

ReevaluationEnds ==
    /\ run.at = "loop" /\ run.todo = {}
    /\ run' = Idle
    /\ UNCHANGED <<halt, clearTimer, reevalTimer, held, missed, engineVars>>

(* The database fails at one of its awaits; what it had not yet come to stays held. *)
ReevaluationFails ==
    /\ run.at # "idle"
    /\ run' = Idle
    /\ failed' = failed \cup (held \cap run.todo)
    /\ UNCHANGED <<halt, clearTimer, reevalTimer, held, refused, engineVars>>

RunStep ==
    SessionsFound \/ TakeHeld \/ Judged \/ ReevaluationEnds \/ ReevaluationFails

-------------------------------------------------------------------------------
(* The engine and the user. *)

(* checkSignalsAndTrade or checkSellThresholdsForStock reads the active sessions. *)
SessionsLoaded ==
    /\ loaded' = activeIds
    /\ UNCHANGED <<halt, clearTimer, reevalTimer, run, held, missed, activeIds, syncing>>

(* It comes to one of them, which may have been paused since. *)
SessionJudged(s) ==
    /\ s \in loaded /\ loaded' = loaded \ {s}
    /\ Defer(s) \/ Order(s)
    /\ UNCHANGED <<clearTimer, reevalTimer, run, activeIds, syncing>>

(* applyPausedState and stopSession, by the user, a fill or the pauser. *)
Pause(s) ==
    /\ s \in activeIds /\ activeIds' = activeIds \ {s}
    /\ Release({s})
    /\ syncing' = TRUE
    /\ UNCHANGED <<halt, clearTimer, reevalTimer, run, loaded>>

Resume(s) ==
    /\ s \notin activeIds /\ activeIds' = activeIds \cup {s}
    /\ syncing' = TRUE
    /\ UNCHANGED <<halt, clearTimer, reevalTimer, run, held, missed, loaded>>

(* syncStockActivity has found an active session, or none: then what is known of the stock is forgotten. *)
StockStaysActive ==
    /\ syncing /\ syncing' = FALSE /\ activeIds # {}
    /\ UNCHANGED <<halt, clearTimer, reevalTimer, run, held, missed, activeIds, loaded>>

HoldsForgotten ==
    /\ syncing /\ syncing' = FALSE /\ activeIds = {}
    /\ halt' = "no" /\ clearTimer' = FALSE /\ reevalTimer' = FALSE /\ Release(held)
    /\ UNCHANGED <<run, activeIds, loaded>>

(* What happens without a trade and while the stock is followed. *)
HoldNext ==
    \/ TimeoutPasses \/ ClearTimerFires \/ ReevaluationFires \/ RunStep
    \/ SessionsLoaded \/ StockStaysActive
    \/ \E s \in Sessions : SessionJudged(s) \/ Pause(s) \/ Resume(s)

-------------------------------------------------------------------------------
(* After the interruption a held order is taken up again, unless the re-evaluation failed or found *)
(* another one under way: no other order of events, with pauses, a silent stream and further halts *)
(* in between, loses it.                                                                           *)
HoldIsAnswered ==
    \A s \in Sessions : s \in held ~> (s \notin held \/ s \in refused \cup failed \/ halt = "yes")
===============================================================================
