---------------------------- MODULE OrderLedger ----------------------------
(***************************************************************************)
(* The trade-history ledger of cash orders: KisOrderService writes one row *)
(* per order that KIS accepted, and two channels report its fills to the   *)
(* row -- the execution notice stream (handleOrderNotification) and the    *)
(* polling fallback (pollOrderExecutionFallback).  A fill that moved the   *)
(* row is then applied to the session's position                           *)
(* (applyConfirmedOrderExecution).  Every await of those handlers is a     *)
(* point where another handler may run, so each handler is split there.    *)
(*                                                                         *)
(* Orders fill in units: a notice reports one unit, a poll reports the     *)
(* cumulative quantity.  Handlers of identical unit notices are counted    *)
(* instead of named.                                                       *)
(***************************************************************************)
EXTENDS Naturals, FiniteSets

CONSTANTS
    Orders,       \* KIS order numbers
    Quantity,     \* units of each order
    MaxAttempts,  \* ORDER_POLL_MAX_ATTEMPTS
    Faults        \* environment misbehaviour that may happen, see FaultKinds

(***************************************************************************)
(* "tracking": the notice subscription goes away and comes back;           *)
(* "restart": the process restarts; "save": saveHistory fails;             *)
(* "response": the HTTP answer of an accepted order is lost;               *)
(* "poll": a daily-order inquiry fails; "price": a fill carries no usable  *)
(* price, or the session is gone.                                          *)
(***************************************************************************)
FaultKinds == {"tracking", "restart", "save", "response", "poll", "price"}

ASSUME OrderLedgerAssumption ==
    /\ Quantity \in Nat \ {0}
    /\ MaxAttempts \in Nat \ {0}
    /\ Faults \subseteq FaultKinds

VARIABLES
    phase,        \* KIS's own order: unsent, live, closed or refused ...
    filled,       \* ... and the units it filled
    status,       \* the trade-history row: its status, "none" before it exists ...
    executed,     \* ... and its executedQuantity
    mode,         \* metadata.trackingMode chosen when the order was placed
    saving,       \* orders KIS accepted whose orderCash has not saved yet
    tracking,     \* execution notices are subscribed and listened to
    notices,      \* unit fill notices on their way to the process
    rejectNotice, \* orders whose reject notice is on its way
    found,        \* notice handlers that read the row as open
    rejectFound,  \* reject handlers that read the row as open
    recorded,     \* notice handlers that flushed the row, not yet applied
    timer,        \* orderPollingTimers: attempt scheduled, 0 when none
    step,         \* where pollOrderExecutionFallback of the order is
    attempt,      \* its attempt, kept after it has ended
    polled,       \* the cumulative units KIS answered
    over,         \* whether KIS answered that nothing remains
    taken,        \* units it recorded that it has yet to apply
    position,     \* units of the order applied to the session's holdingQty
    via           \* channels that have moved the row (history variable)

exchVars == <<phase, filled>>
rowVars == <<status, executed>>
noticeVars == <<notices, rejectNotice, found, rejectFound, recorded>>
pollVars == <<step, attempt, polled, over, taken>>

vars == <<phase, filled, status, executed, mode, saving, tracking, notices, rejectNotice,
          found, rejectFound, recorded, timer, step, attempt, polled, over, taken,
          position, via>>

(* Mutant: a failed row is still looked up as an open one. *)
OpenStatusWithFailed == {"accepted", "partial", "failed"}

OpenStatus == {"accepted", "partial"}
ClosedStatus == {"executed", "success", "failed"}
RowStatus == {"none"} \cup OpenStatus \cup ClosedStatus
Phases == {"unsent", "live", "closed", "refused"}
PollSteps == {"idle", "asking", "answered", "found", "recorded", "confirmed", "finishing"}

Qty == 0 .. Quantity
Attempts == 0 .. MaxAttempts
Channels == {"notice", "poll"}

Min2(a, b) == IF a <= b THEN a ELSE b
Max2(a, b) == IF a >= b THEN a ELSE b

Open(o) == status[o] \in OpenStatus

Init ==
    /\ phase = [o \in Orders |-> "unsent"]
    /\ filled = [o \in Orders |-> 0]
    /\ status = [o \in Orders |-> "none"]
    /\ executed = [o \in Orders |-> 0]
    /\ mode = [o \in Orders |-> "notification"]
    /\ saving = {}
    /\ tracking \in BOOLEAN
    /\ notices = [o \in Orders |-> 0]
    /\ rejectNotice = {}
    /\ found = [o \in Orders |-> 0]
    /\ rejectFound = {}
    /\ recorded = [o \in Orders |-> 0]
    /\ timer = [o \in Orders |-> 0]
    /\ step = [o \in Orders |-> "idle"]
    /\ attempt = [o \in Orders |-> 0]
    /\ polled = [o \in Orders |-> 0]
    /\ over = [o \in Orders |-> FALSE]
    /\ taken = [o \in Orders |-> 0]
    /\ position = [o \in Orders |-> 0]
    /\ via = [o \in Orders |-> {}]

-----------------------------------------------------------------------------
(* Placing an order: orderCash and the code that follows it in the callers. *)

(* KIS accepts the order; orderCash still has to save the row. *)
OrderCashAccepted(o) ==
    /\ phase[o] = "unsent"
    /\ phase' = [phase EXCEPT ![o] = "live"]
    /\ mode' = [mode EXCEPT ![o] = IF tracking THEN "notification" ELSE "polling-fallback"]
    /\ saving' = saving \cup {o}
    /\ UNCHANGED <<filled, rowVars, tracking, noticeVars, timer, pollVars, position, via>>

(* KIS answers with rt_cd other than '0': the row is saved as FAILED. *)
OrderCashRefused(o) ==
    /\ phase[o] = "unsent"
    /\ phase' = [phase EXCEPT ![o] = "refused"]
    /\ status' = [status EXCEPT ![o] = "failed"]
    /\ UNCHANGED <<filled, executed, mode, saving, tracking, noticeVars, timer, pollVars,
                   position, via>>

(* KIS accepted but the request threw: a FAILED row without order number. *)
OrderCashResponseLost(o) ==
    /\ "response" \in Faults
    /\ phase[o] = "unsent"
    /\ phase' = [phase EXCEPT ![o] = "live"]
    /\ status' = [status EXCEPT ![o] = "failed"]
    /\ UNCHANGED <<filled, executed, mode, saving, tracking, noticeVars, timer, pollVars,
                   position, via>>

(* scheduleOrderPollingFallback: at most one timer per order number. *)
ScheduleOrderPollingFallback(o, n) ==
    timer' = [timer EXCEPT ![o] = IF timer[o] = 0 THEN n ELSE timer[o]]

(* Mutant: polling is decided by the tracking of this moment, not of the order's. *)
ScheduleWhenUntrackedNow(o) ==
    IF tracking THEN timer' = timer ELSE ScheduleOrderPollingFallback(o, 1)

ScheduleWhenUntracked(o) ==
    IF mode[o] = "polling-fallback" THEN ScheduleOrderPollingFallback(o, 1) ELSE timer' = timer

(* The row is saved as ACCEPTED; a caller without tracking starts polling. *)
SaveHistory(o) ==
    /\ o \in saving
    /\ saving' = saving \ {o}
    /\ status' = [status EXCEPT ![o] = "accepted"]
    /\ ScheduleWhenUntracked(o)
    /\ UNCHANGED <<exchVars, executed, mode, tracking, noticeVars, pollVars, position, via>>

(* saveHistory swallows the database error and the caller goes on. *)
SaveHistoryFails(o) ==
    /\ "save" \in Faults
    /\ o \in saving
    /\ saving' = saving \ {o}
    /\ ScheduleWhenUntracked(o)
    /\ UNCHANGED <<exchVars, rowVars, mode, tracking, noticeVars, pollVars, position, via>>

-----------------------------------------------------------------------------
(* The exchange (external).  A notice is sent only while it is subscribed. *)

ExchangeFills(o) ==
    /\ phase[o] = "live"
    /\ filled' = [filled EXCEPT ![o] = @ + 1]
    /\ phase' = [phase EXCEPT ![o] = IF filled[o] + 1 = Quantity THEN "closed" ELSE "live"]
    /\ notices' = [notices EXCEPT ![o] = IF tracking THEN @ + 1 ELSE @]
    /\ UNCHANGED <<rowVars, mode, saving, tracking, rejectNotice, found, rejectFound, recorded,
                   timer, pollVars, position, via>>

(* A live order nothing of which was filled is rejected by the exchange. *)
ExchangeRejects(o) ==
    /\ phase[o] = "live"
    /\ filled[o] = 0
    /\ phase' = [phase EXCEPT ![o] = "closed"]
    /\ rejectNotice' = IF tracking THEN rejectNotice \cup {o} ELSE rejectNotice
    /\ UNCHANGED <<filled, rowVars, mode, saving, tracking, notices, found, rejectFound,
                   recorded, timer, pollVars, position, via>>

(* The unfilled rest expires, or the user cancels or modifies the order: a rest *)
(* that is modified goes on under another number.  Both commands write rows of   *)
(* their own, which nobody here looks for, and the notice is not one of a fill.  *)
ExchangeCancels(o) ==
    /\ phase[o] = "live"
    /\ phase' = [phase EXCEPT ![o] = "closed"]
    /\ UNCHANGED <<filled, rowVars, mode, saving, tracking, noticeVars, timer, pollVars,
                   position, via>>

-----------------------------------------------------------------------------
(* applyExecutionToHistory: the row after a report of cum cumulative units. *)

(* Mutant: the cumulative quantity is taken for an increment. *)
NextExecutedAdding(o, cum) == Min2(Quantity, executed[o] + cum)

NextExecuted(o, cum) == Min2(Quantity, Max2(executed[o], cum))

AppliedQty(o, cum) == NextExecuted(o, cum) - executed[o]

ApplyExecutionToHistory(o, cum) ==
    /\ executed' = [executed EXCEPT ![o] = NextExecuted(o, cum)]
    /\ status' = [status EXCEPT ![o] =
                    IF NextExecuted(o, cum) >= Quantity THEN "executed" ELSE "partial"]

-----------------------------------------------------------------------------
(* The notice channel: handleOrderNotification. *)

(* recordExecutionNotification reads the row; without an open row it returns. *)
NoticeLookup(o) ==
    /\ notices[o] > 0
    /\ notices' = [notices EXCEPT ![o] = @ - 1]
    /\ found' = [found EXCEPT ![o] = IF Open(o) THEN @ + 1 ELSE @]
    /\ UNCHANGED <<exchVars, rowVars, mode, saving, tracking, rejectNotice, rejectFound,
                   recorded, timer, pollVars, position, via>>

(* ... and adds the notified unit to whatever the row says by then. *)
RecordExecutionNotification(o) ==
    /\ found[o] > 0
    /\ found' = [found EXCEPT ![o] = @ - 1]
    /\ IF AppliedQty(o, executed[o] + 1) <= 0
         THEN UNCHANGED <<rowVars, recorded, via>>
         ELSE /\ ApplyExecutionToHistory(o, executed[o] + 1)
              /\ recorded' = [recorded EXCEPT ![o] = @ + 1]
              /\ via' = [via EXCEPT ![o] = @ \cup {"notice"}]
    /\ UNCHANGED <<exchVars, mode, saving, tracking, notices, rejectNotice, rejectFound,
                   timer, pollVars, position>>

(* applyConfirmedOrderExecution clears the polling timer and moves the position, *)
(* unless the fill has no usable price or its session is gone.                   *)
ApplyConfirmedOrderExecution(o, qty) ==
    /\ timer' = [timer EXCEPT ![o] = 0]
    /\ \/ position' = [position EXCEPT ![o] = @ + qty]
       \/ "price" \in Faults /\ position' = position

NoticeApply(o) ==
    /\ recorded[o] > 0
    /\ recorded' = [recorded EXCEPT ![o] = @ - 1]
    /\ ApplyConfirmedOrderExecution(o, 1)
    /\ UNCHANGED <<exchVars, rowVars, mode, saving, tracking, notices, rejectNotice, found,
                   rejectFound, pollVars, via>>

(* A reject notice clears the timer before it reads the row. *)
RejectLookup(o) ==
    /\ o \in rejectNotice
    /\ rejectNotice' = rejectNotice \ {o}
    /\ timer' = [timer EXCEPT ![o] = 0]
    /\ rejectFound' = IF Open(o) THEN rejectFound \cup {o} ELSE rejectFound
    /\ UNCHANGED <<exchVars, rowVars, mode, saving, tracking, notices, found, recorded,
                   pollVars, position, via>>

MarkOrderRejected(o) ==
    /\ o \in rejectFound
    /\ rejectFound' = rejectFound \ {o}
    /\ status' = [status EXCEPT ![o] = "failed"]
    /\ UNCHANGED <<exchVars, executed, mode, saving, tracking, notices, rejectNotice, found,
                   recorded, timer, pollVars, position, via>>

-----------------------------------------------------------------------------
(* The polling channel: pollOrderExecutionFallback. *)

Goto(o, s) == step' = [step EXCEPT ![o] = s]

(* The timer fires; without an open row the chain of polls ends here. *)
PollFires(o) ==
    /\ timer[o] > 0
    /\ step[o] = "idle"
    /\ timer' = [timer EXCEPT ![o] = 0]
    /\ attempt' = [attempt EXCEPT ![o] = timer[o]]
    /\ Goto(o, IF Open(o) THEN "asking" ELSE "idle")
    /\ UNCHANGED <<exchVars, rowVars, mode, saving, tracking, noticeVars, polled, over, taken,
                   position, via>>

(* KIS answers getDailyOrders; a list without the order skips the recording. *)
PollAnswered(o) ==
    /\ step[o] = "asking"
    /\ \/ /\ polled' = [polled EXCEPT ![o] = filled[o]]
          /\ over' = [over EXCEPT ![o] = phase[o] = "closed"]
          /\ Goto(o, "answered")
       \/ UNCHANGED <<polled, over>> /\ Goto(o, "finishing")
    /\ UNCHANGED <<exchVars, rowVars, mode, saving, tracking, noticeVars, timer, attempt,
                   taken, position, via>>

(* Mutant: the retry keeps the attempt number it failed with. *)
PollFailsUncounted(o) ==
    /\ "poll" \in Faults
    /\ step[o] = "asking"
    /\ Goto(o, "idle")
    /\ ScheduleOrderPollingFallback(o, attempt[o])
    /\ UNCHANGED <<exchVars, rowVars, mode, saving, tracking, noticeVars, attempt, polled,
                   over, taken, position, via>>

(* The catch block: retry until the attempts are spent. *)
PollFails(o) ==
    /\ "poll" \in Faults
    /\ step[o] = "asking"
    /\ Goto(o, "idle")
    /\ IF attempt[o] >= MaxAttempts
         THEN timer' = timer
         ELSE ScheduleOrderPollingFallback(o, attempt[o] + 1)
    /\ UNCHANGED <<exchVars, rowVars, mode, saving, tracking, noticeVars, attempt, polled,
                   over, taken, position, via>>

(* recordPolledOrderExecution reads the row again. *)
PollLookup(o) ==
    /\ step[o] = "answered"
    /\ Goto(o, IF Open(o) THEN "found" ELSE "finishing")
    /\ UNCHANGED <<exchVars, rowVars, mode, saving, tracking, noticeVars, timer, attempt,
                   polled, over, taken, position, via>>

(* The order is over and brought nothing (FAILED) or nothing new (SUCCESS): *)
(* only the row's status changes.                                           *)
NothingNew(o) == over[o] /\ polled[o] <= executed[o]

PollClosesOrder(o) ==
    /\ step[o] = "found"
    /\ NothingNew(o)
    /\ status' = [status EXCEPT ![o] = IF polled[o] = 0 THEN "failed" ELSE "success"]
    /\ Goto(o, "finishing")
    /\ UNCHANGED <<exchVars, executed, mode, saving, tracking, noticeVars, timer, attempt,
                   polled, over, taken, position, via>>

(* Otherwise the cumulative quantity is applied to the row, if it adds to it. *)
RecordPolledOrderExecution(o) ==
    /\ step[o] = "found"
    /\ ~NothingNew(o)
    /\ IF AppliedQty(o, polled[o]) <= 0
         THEN Goto(o, "finishing") /\ UNCHANGED <<rowVars, taken, via>>
         ELSE /\ ApplyExecutionToHistory(o, polled[o])
              /\ taken' = [taken EXCEPT ![o] = AppliedQty(o, polled[o])]
              /\ via' = [via EXCEPT ![o] = @ \cup {"poll"}]
              /\ Goto(o, "recorded")
    /\ UNCHANGED <<exchVars, mode, saving, tracking, noticeVars, timer, attempt, polled, over,
                   position>>

(* After the flush: a partly filled order that is over is closed as SUCCESS; *)
(* then the applied units reach the position.                                *)
PollClosesPartial(o) ==
    /\ step[o] = "recorded"
    /\ status' = [status EXCEPT ![o] =
                    IF over[o] /\ status[o] # "executed" THEN "success" ELSE @]
    /\ Goto(o, "confirmed")
    /\ UNCHANGED <<exchVars, executed, mode, saving, tracking, noticeVars, timer, attempt,
                   polled, over, taken, position, via>>

(* Mutant: the cumulative answer is applied instead of the recorded difference. *)
PollApplyCumulative(o) ==
    /\ step[o] = "confirmed"
    /\ Goto(o, "finishing")
    /\ taken' = [taken EXCEPT ![o] = 0]
    /\ ApplyConfirmedOrderExecution(o, polled[o])
    /\ UNCHANGED <<exchVars, rowVars, mode, saving, tracking, noticeVars, attempt, polled,
                   over, via>>

PollApply(o) ==
    /\ step[o] = "confirmed"
    /\ Goto(o, "finishing")
    /\ taken' = [taken EXCEPT ![o] = 0]
    /\ ApplyConfirmedOrderExecution(o, taken[o])
    /\ UNCHANGED <<exchVars, rowVars, mode, saving, tracking, noticeVars, attempt, polled,
                   over, via>>

(* isOrderStillOpen, then the next attempt or the end of the chain. *)
PollFinishes(o) ==
    /\ step[o] = "finishing"
    /\ Goto(o, "idle")
    /\ IF Open(o) /\ attempt[o] < MaxAttempts
         THEN ScheduleOrderPollingFallback(o, attempt[o] + 1)
         ELSE timer' = timer
    /\ UNCHANGED <<exchVars, rowVars, mode, saving, tracking, noticeVars, attempt, polled,
                   over, taken, position, via>>

-----------------------------------------------------------------------------
(* The notice subscription and the process. *)

TrackingLost ==
    /\ "tracking" \in Faults
    /\ tracking
    /\ tracking' = FALSE
    /\ notices' = [o \in Orders |-> 0]
    /\ rejectNotice' = {}
    /\ UNCHANGED <<exchVars, rowVars, mode, saving, found, rejectFound, recorded, timer,
                   pollVars, position, via>>

TrackingBack ==
    /\ "tracking" \in Faults
    /\ ~tracking
    /\ tracking' = TRUE
    /\ UNCHANGED <<exchVars, rowVars, mode, saving, noticeVars, timer, pollVars, position, via>>

(* A restart loses timers, handlers and notices; rows and positions persist. *)
(* onModuleInit asks for tracking again when orders are open, and            *)
(* restoreOrderPollingFallbacks polls them unless notices are to be trusted. *)
Restart ==
    /\ "restart" \in Faults
    /\ tracking' \in (IF "tracking" \in Faults THEN BOOLEAN ELSE {tracking})
    /\ saving' = {}
    /\ notices' = [o \in Orders |-> 0]
    /\ rejectNotice' = {}
    /\ found' = [o \in Orders |-> 0]
    /\ rejectFound' = {}
    /\ recorded' = [o \in Orders |-> 0]
    /\ timer' = [o \in Orders |->
         IF Open(o) /\ (mode[o] = "polling-fallback" \/ ~tracking') THEN 1 ELSE 0]
    /\ step' = [o \in Orders |-> "idle"]
    /\ attempt' = [o \in Orders |-> 0]
    /\ polled' = [o \in Orders |-> 0]
    /\ over' = [o \in Orders |-> FALSE]
    /\ taken' = [o \in Orders |-> 0]
    /\ UNCHANGED <<exchVars, rowVars, mode, position, via>>

-----------------------------------------------------------------------------
Placement(o) ==
    \/ OrderCashAccepted(o) \/ OrderCashRefused(o) \/ OrderCashResponseLost(o)
    \/ SaveHistory(o) \/ SaveHistoryFails(o)

Exchange(o) == ExchangeFills(o) \/ ExchangeRejects(o) \/ ExchangeCancels(o)

NoticeHandlers(o) ==
    \/ NoticeLookup(o) \/ RecordExecutionNotification(o) \/ NoticeApply(o)
    \/ RejectLookup(o) \/ MarkOrderRejected(o)

PollHandler(o) ==
    \/ PollFires(o) \/ PollAnswered(o) \/ PollFails(o) \/ PollLookup(o)
    \/ PollClosesOrder(o) \/ RecordPolledOrderExecution(o) \/ PollClosesPartial(o)
    \/ PollApply(o) \/ PollFinishes(o)

Next ==
    \/ \E o \in Orders : Placement(o) \/ Exchange(o) \/ NoticeHandlers(o) \/ PollHandler(o)
    \/ TrackingLost \/ TrackingBack \/ Restart

Spec == Init /\ [][Next]_vars

(* Timers fire and requests settle, with an answer or an error: the steps of *)
(* a poll, and the last step of a reject handler that has begun, are taken   *)
(* eventually.  Nothing is assumed of the exchange or of notices.            *)
FairSpec ==
    /\ Spec
    /\ \A o \in Orders : WF_vars(PollHandler(o)) /\ WF_vars(MarkOrderRejected(o))

-----------------------------------------------------------------------------
(* The abstract feed that the ledger implements. *)

Held == [o \in Orders |-> recorded[o] + taken[o]]

Feed == INSTANCE PositionFeed WITH held <- Held

-----------------------------------------------------------------------------
(* Properties. *)

(* Every variable of the ledger keeps its type; counters never leave 0..Quantity. *)
TypeOK ==
    /\ phase \in [Orders -> Phases]
    /\ filled \in [Orders -> Qty]
    /\ status \in [Orders -> RowStatus]
    /\ executed \in [Orders -> Qty]
    /\ mode \in [Orders -> {"notification", "polling-fallback"}]
    /\ saving \subseteq Orders
    /\ tracking \in BOOLEAN
    /\ notices \in [Orders -> Qty]
    /\ rejectNotice \subseteq Orders
    /\ found \in [Orders -> Qty]
    /\ rejectFound \subseteq Orders
    /\ recorded \in [Orders -> Qty]
    /\ timer \in [Orders -> Attempts]
    /\ step \in [Orders -> PollSteps]
    /\ attempt \in [Orders -> Attempts]
    /\ polled \in [Orders -> Qty]
    /\ over \in [Orders -> BOOLEAN]
    /\ taken \in [Orders -> Qty]
    /\ position \in [Orders -> Qty]
    /\ via \in [Orders -> SUBSET Channels]

(* Whatever interleaving of notices and polls moved a row, its status agrees  *)
(* with its executed quantity (applyExecutionToHistory and the two shortcuts). *)
RowConsistent ==
    \A o \in Orders :
        /\ status[o] \in {"none", "accepted"} => executed[o] = 0
        /\ status[o] = "partial" => executed[o] \in 1 .. Quantity - 1
        /\ status[o] = "executed" => executed[o] = Quantity

(* A unit that a handler recorded reaches the session's position at most once: *)
(* what was applied and what handlers still hold never exceeds the row.        *)
PositionNeverAhead ==
    \A o \in Orders : position[o] + recorded[o] + taken[o] <= executed[o]

(* As long as a row was moved by one channel only, it never holds more units  *)
(* than the exchange filled, through losses, races and restarts.              *)
SingleChannelExact ==
    \A o \in Orders : via[o] # Channels => executed[o] <= filled[o]

(* The comment of recordPolledOrderExecution that a quantity already reflected *)
(* by a poll or a notice does not touch the position again: no row, and so no  *)
(* position, holds more than the exchange filled.                              *)
NeverMoreThanFilled ==
    \A o \in Orders : executed[o] <= filled[o]

GaveUp(o) == timer[o] = 0 /\ step[o] = "idle" /\ attempt[o] = MaxAttempts

Polled(o) == timer[o] > 0 \/ step[o] # "idle"

(* An open order placed without notices is polled until it closes or the       *)
(* attempts are spent, unless a notice has moved it or is about to reject it.  *)
FallbackKeepsPolling ==
    \A o \in Orders :
        Open(o) /\ mode[o] = "polling-fallback" /\ "notice" \notin via[o]
            => Polled(o) \/ GaveUp(o) \/ o \in rejectFound

(* Both channels together behave as the one feed of PositionFeed: the executed *)
(* quantity grows up to the order's, and each unit is handed over at most once. *)
ImplementsFeed == Feed!Spec

(* A row that was closed is opened again, or closed with more units, only by   *)
(* a handler that raced a second channel: one channel never reopens an order.  *)
ClosedStaysClosed ==
    [][\A o \in Orders :
         status[o] \in ClosedStatus /\ via'[o] # Channels
             => status'[o] \in ClosedStatus]_vars

(* Once the exchange has finished with an order that polling follows, the row  *)
(* closes, or polling gives up at its last attempt, or a notice took over --   *)
(* unless the process restarts for ever.                                       *)
PollingSettles ==
    \/ []<><<Restart>>_vars
    \/ \A o \in Orders :
          Open(o) /\ phase[o] = "closed" /\ mode[o] = "polling-fallback"
              ~> ~Open(o) \/ GaveUp(o) \/ "notice" \in via[o]
=============================================================================
