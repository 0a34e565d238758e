------------------------- MODULE OrderLedgerProofs -------------------------
(***************************************************************************)
(* Theorems about OrderLedger for every set of orders, every quantity and  *)
(* every number of polling attempts, whatever faults happen.               *)
(***************************************************************************)
EXTENDS OrderLedger, TLAPS

(***************************************************************************)
(* The strengthening.  Sources says where a report comes from: a notice    *)
(* from a fill, a poll from an inquiry, a reject from an order without     *)
(* fills.  HandlersMatchRow says which handlers may run on which row.      *)
(* Handed and ChannelBounds bound the row by the position below and, one   *)
(* channel at a time, by the exchange above.  ClosedIsFinal says that no   *)
(* handler of the only channel can move a closed row, and KeepsPolling     *)
(* that the chain of polls of an order is not broken.                      *)
(***************************************************************************)
Sources(o) ==
    /\ phase[o] = "unsent" => filled[o] = 0 /\ status[o] = "none"
    /\ phase[o] = "live" => filled[o] < Quantity
    /\ notices[o] + found[o] <= filled[o]
    /\ polled[o] <= filled[o]
    /\ over[o] => phase[o] = "closed" /\ polled[o] = filled[o]
    /\ o \in rejectNotice \/ o \in rejectFound => phase[o] = "closed" /\ filled[o] = 0

HandlersMatchRow(o) ==
    /\ o \in saving => status[o] = "none" /\ phase[o] # "unsent"
    /\ found[o] > 0 => status[o] # "none"
    /\ o \in rejectFound => status[o] # "none"
    /\ step[o] \in {"found", "recorded"} => status[o] # "none"
    /\ taken[o] > 0 => step[o] \in {"recorded", "confirmed"}
    /\ recorded[o] > 0 => "notice" \in via[o]
    /\ step[o] \in {"recorded", "confirmed"} => "poll" \in via[o]

RowConsistentAt(o) ==
    /\ status[o] \in {"none", "accepted"} => executed[o] = 0
    /\ status[o] = "partial" => executed[o] \in 1 .. Quantity - 1
    /\ status[o] = "executed" => executed[o] = Quantity

Handed(o) == position[o] + recorded[o] + taken[o] <= executed[o]

ChannelBounds(o) ==
    /\ "notice" \notin via[o] => executed[o] <= filled[o]
    /\ "poll" \notin via[o] => executed[o] + notices[o] + found[o] <= filled[o]

ClosedIsFinal(o) ==
    status[o] \in ClosedStatus =>
        /\ "poll" \notin via[o] => found[o] = 0 \/ executed[o] = Quantity
        /\ "notice" \notin via[o] /\ step[o] = "found" => polled[o] <= executed[o]

KeepsPolling(o) ==
    Open(o) /\ mode[o] = "polling-fallback" /\ "notice" \notin via[o]
        => \/ timer[o] > 0
           \/ step[o] # "idle"
           \/ attempt[o] = MaxAttempts
           \/ o \in rejectFound

OrderInv(o) ==
    /\ Sources(o)
    /\ HandlersMatchRow(o)
    /\ RowConsistentAt(o)
    /\ Handed(o)
    /\ ChannelBounds(o)
    /\ ClosedIsFinal(o)
    /\ KeepsPolling(o)

IInv == TypeOK /\ \A o \in Orders : OrderInv(o)

-----------------------------------------------------------------------------
(* The quantity arithmetic of applyExecutionToHistory: the next executed     *)
(* quantity lies between the present one and the order's, is the report when *)
(* the report is larger and fits, and is what the present one and applied sum to. *)
LEMMA NextExecutedBounds ==
    ASSUME NEW o \in Orders, NEW cum \in Nat, executed[o] \in Qty
    PROVE  /\ NextExecuted(o, cum) \in Qty
           /\ NextExecuted(o, cum) >= executed[o]
           /\ NextExecuted(o, cum) <= Max2(executed[o], cum)
           /\ cum <= executed[o] => NextExecuted(o, cum) = executed[o]
           /\ AppliedQty(o, cum) \in Qty
           /\ executed[o] + AppliedQty(o, cum) = NextExecuted(o, cum)
  BY OrderLedgerAssumption DEF NextExecuted, AppliedQty, Min2, Max2, Qty

(* scheduleOrderPollingFallback keeps the type of the timers. *)
LEMMA ScheduleKeepsTimers ==
    ASSUME NEW o \in Orders, NEW n \in Attempts, timer \in [Orders -> Attempts]
    PROVE  ScheduleOrderPollingFallback(o, n) => timer' \in [Orders -> Attempts]
  BY DEF ScheduleOrderPollingFallback

(* What the type invariant says of one order's attempt and quantities. *)
LEMMA TypesOfOne ==
    ASSUME TypeOK, NEW o \in Orders
    PROVE  /\ executed[o] \in Qty /\ filled[o] \in Qty /\ polled[o] \in Qty
           /\ found[o] \in Qty /\ notices[o] \in Qty
           /\ attempt[o] \in Attempts
  BY DEF TypeOK

(* An attempt that is not below the last one is the last one. *)
LEMMA LastAttempt ==
    ASSUME TypeOK, NEW o \in Orders, ~(attempt[o] < MaxAttempts)
    PROVE  attempt[o] = MaxAttempts
  BY TypesOfOne, OrderLedgerAssumption DEF Attempts

(* Of an order that is being rejected no notice and no poll reports a unit. *)
LEMMA NothingToReport ==
    ASSUME TypeOK, NEW o \in Orders, filled[o] = 0, Sources(o)
    PROVE  found[o] = 0 /\ polled[o] = 0
  BY TypesOfOne, OrderLedgerAssumption DEF Sources, Qty

(* The initial states satisfy the invariant. *)
LEMMA InitIInv == Init => IInv
  BY OrderLedgerAssumption
  DEF Init, IInv, TypeOK, OrderInv, Sources, HandlersMatchRow, RowConsistentAt, Handed,
      ChannelBounds, ClosedIsFinal, KeepsPolling, Open, PollSteps, Phases, RowStatus, OpenStatus,
      ClosedStatus, Qty, Attempts, Channels

-----------------------------------------------------------------------------
(* Every step keeps the invariant: one lemma step per action, the type first. *)
LEMMA NextIInv == IInv /\ [Next]_vars => IInv'
<1> SUFFICES ASSUME IInv, [Next]_vars PROVE IInv'
  OBVIOUS
<1> USE OrderLedgerAssumption
    DEF IInv, OrderInv, TypeOK, Sources, HandlersMatchRow, RowConsistentAt, Handed,
        ChannelBounds, ClosedIsFinal, KeepsPolling, exchVars, rowVars, noticeVars, pollVars, Open, Goto, PollSteps, Phases, RowStatus,
        OpenStatus, ClosedStatus, Qty, Attempts, Channels
<1>1. ASSUME NEW o \in Orders, OrderCashAccepted(o) PROVE IInv'
  <2>1. TypeOK'
    BY <1>1 DEF OrderCashAccepted
  <2>2. ASSUME NEW p \in Orders PROVE OrderInv(p)'
    <3>1. CASE p = o
      BY <1>1, <3>1 DEF OrderCashAccepted
    <3>2. CASE p # o
      BY <1>1, <3>2 DEF OrderCashAccepted
    <3>3. QED
      BY <3>1, <3>2
  <2>3. QED
    BY <2>1, <2>2
<1>2. ASSUME NEW o \in Orders, OrderCashRefused(o) PROVE IInv'
  BY <1>2 DEF OrderCashRefused
<1>3. ASSUME NEW o \in Orders, OrderCashResponseLost(o) PROVE IInv'
  BY <1>3 DEF OrderCashResponseLost
<1>4. ASSUME NEW o \in Orders, SaveHistory(o) PROVE IInv'
  <2>1. TypeOK'
    <3>1. timer' \in [Orders -> Attempts]
      BY <1>4, 1 \in Attempts, ScheduleKeepsTimers DEF SaveHistory, ScheduleWhenUntracked
    <3>2. status' \in [Orders -> RowStatus] /\ saving' \subseteq Orders
      BY <1>4 DEF SaveHistory
    <3>3. QED
      BY <1>4, <3>1, <3>2 DEF SaveHistory
  <2>2. ASSUME NEW p \in Orders PROVE OrderInv(p)'
    <3>1. CASE p = o
      BY <1>4, <3>1 DEF SaveHistory, ScheduleOrderPollingFallback, ScheduleWhenUntracked
    <3>2. CASE p # o
      BY <1>4, <3>2 DEF SaveHistory, ScheduleOrderPollingFallback, ScheduleWhenUntracked
    <3>3. QED
      BY <3>1, <3>2
  <2>3. QED
    BY <2>1, <2>2
<1>5. ASSUME NEW o \in Orders, SaveHistoryFails(o) PROVE IInv'
  <2>1. TypeOK'
    <3>1. timer' \in [Orders -> Attempts]
      BY <1>5, 1 \in Attempts, ScheduleKeepsTimers DEF SaveHistoryFails, ScheduleWhenUntracked
    <3>2. status' \in [Orders -> RowStatus] /\ saving' \subseteq Orders
      BY <1>5 DEF SaveHistoryFails
    <3>3. QED
      BY <1>5, <3>1, <3>2 DEF SaveHistoryFails
  <2>2. ASSUME NEW p \in Orders PROVE OrderInv(p)'
    <3>1. CASE p = o
      BY <1>5, <3>1 DEF SaveHistoryFails, ScheduleOrderPollingFallback, ScheduleWhenUntracked
    <3>2. CASE p # o
      BY <1>5, <3>2 DEF SaveHistoryFails, ScheduleOrderPollingFallback, ScheduleWhenUntracked
    <3>3. QED
      BY <3>1, <3>2
  <2>3. QED
    BY <2>1, <2>2
<1>6. ASSUME NEW o \in Orders, ExchangeFills(o) PROVE IInv'
  <2>1. TypeOK'
    BY <1>6 DEF ExchangeFills
  <2>2. ASSUME NEW p \in Orders PROVE OrderInv(p)'
    <3>1. CASE p = o
      <4>1. Sources(p)' /\ HandlersMatchRow(p)'
        <5>1. ~over[o] /\ over' = over
          BY <1>6 DEF ExchangeFills
        <5>2. o \notin rejectNotice /\ o \notin rejectFound
          <6>1. filled[o] \in Nat /\ phase[o] = "live"
            BY <1>6 DEF ExchangeFills
          <6>2. QED
            BY <6>1
        <5>3. Sources(p)'
          BY <1>6, <3>1, <5>1, <5>2 DEF ExchangeFills
        <5>4. HandlersMatchRow(p)'
          BY <1>6, <3>1 DEF ExchangeFills
        <5>5. QED
          BY <5>3, <5>4
      <4>2. RowConsistentAt(p)' /\ Handed(p)'
        BY <1>6, <3>1 DEF ExchangeFills
      <4>3. ChannelBounds(p)'
        BY <1>6, <3>1 DEF ExchangeFills
      <4>4. ClosedIsFinal(p)'
        BY <1>6, <3>1 DEF ExchangeFills
      <4>5. KeepsPolling(p)'
        BY <1>6, <3>1 DEF ExchangeFills
      <4>6. QED
        BY <4>1, <4>2, <4>3, <4>4, <4>5
    <3>2. CASE p # o
      BY <1>6, <3>2 DEF ExchangeFills
    <3>3. QED
      BY <3>1, <3>2
  <2>3. QED
    BY <2>1, <2>2
<1>7. ASSUME NEW o \in Orders, ExchangeRejects(o) PROVE IInv'
  BY <1>7 DEF ExchangeRejects
<1>8. ASSUME NEW o \in Orders, ExchangeCancels(o) PROVE IInv'
  BY <1>8 DEF ExchangeCancels
<1>9. ASSUME NEW o \in Orders, NoticeLookup(o) PROVE IInv'
  BY <1>9 DEF NoticeLookup
<1>10. ASSUME NEW o \in Orders, RecordExecutionNotification(o) PROVE IInv'
  <2> DEFINE next == NextExecuted(o, executed[o] + 1)
  <2>1. /\ next \in Qty /\ next >= executed[o] /\ next <= executed[o] + 1
        /\ AppliedQty(o, executed[o] + 1) = next - executed[o]
    BY NextExecutedBounds DEF AppliedQty, Max2
  <2>2. CASE AppliedQty(o, executed[o] + 1) <= 0
    BY <1>10, <2>2 DEF RecordExecutionNotification
  <2>3. CASE ~(AppliedQty(o, executed[o] + 1) <= 0)
    <3> HIDE DEF next
    <3>1. next = executed[o] + 1
      BY <2>1, <2>3
    <3>2. /\ executed' = [executed EXCEPT ![o] = next]
          /\ status' = [status EXCEPT ![o] = IF next >= Quantity THEN "executed" ELSE "partial"]
          /\ recorded' = [recorded EXCEPT ![o] = @ + 1]
          /\ via' = [via EXCEPT ![o] = @ \cup {"notice"}]
          /\ found' = [found EXCEPT ![o] = @ - 1]
          /\ found[o] > 0
      BY <1>10, <2>3 DEF RecordExecutionNotification, ApplyExecutionToHistory, next
    <3>3. UNCHANGED <<exchVars, mode, saving, tracking, notices, rejectNotice, rejectFound,
                      timer, pollVars, position>>
      BY <1>10 DEF RecordExecutionNotification
    <3>4. TypeOK'
      BY <2>1, <3>1, <3>2, <3>3
    <3>5. ASSUME NEW p \in Orders PROVE OrderInv(p)'
      <4>1. CASE p = o
        <5>1. Sources(p)'
          BY <3>2, <3>3, <4>1
        <5>2. HandlersMatchRow(p)'
          BY <2>1, <3>1, <3>2, <3>3, <4>1
        <5>3. RowConsistentAt(p)'
          <6>1. CASE next >= Quantity
            BY <2>1, <3>2, <4>1, <6>1
          <6>2. CASE ~(next >= Quantity)
            BY <2>1, <3>1, <3>2, <4>1, <6>2
          <6>3. QED
            BY <6>1, <6>2
        <5>4. Handed(p)' /\ ChannelBounds(p)'
          BY <2>1, <3>1, <3>2, <3>3, <4>1
        <5>5. ClosedIsFinal(p)' /\ KeepsPolling(p)'
          BY <2>1, <3>1, <3>2, <3>3, <4>1
        <5>6. QED
          BY <5>1, <5>2, <5>3, <5>4, <5>5
      <4>2. CASE p # o
        BY <3>2, <3>3, <4>2
      <4>3. QED
        BY <4>1, <4>2
    <3>6. QED
      BY <3>4, <3>5
  <2>4. QED
    BY <2>2, <2>3
<1>11. ASSUME NEW o \in Orders, NoticeApply(o) PROVE IInv'
  <2>1. TypeOK'
    BY <1>11 DEF NoticeApply, ApplyConfirmedOrderExecution
  <2>2. ASSUME NEW p \in Orders PROVE OrderInv(p)'
    <3>1. CASE p = o
      <4>1. Sources(p)' /\ HandlersMatchRow(p)'
        BY <1>11, <3>1 DEF NoticeApply, ApplyConfirmedOrderExecution
      <4>2. RowConsistentAt(p)' /\ Handed(p)'
        BY <1>11, <3>1 DEF NoticeApply, ApplyConfirmedOrderExecution
      <4>3. ChannelBounds(p)'
        BY <1>11, <3>1 DEF NoticeApply, ApplyConfirmedOrderExecution
      <4>4. ClosedIsFinal(p)'
        BY <1>11, <3>1 DEF NoticeApply, ApplyConfirmedOrderExecution
      <4>5. KeepsPolling(p)'
        BY <1>11, <3>1 DEF NoticeApply, ApplyConfirmedOrderExecution
      <4>6. QED
        BY <4>1, <4>2, <4>3, <4>4, <4>5
    <3>2. CASE p # o
      BY <1>11, <3>2 DEF NoticeApply, ApplyConfirmedOrderExecution
    <3>3. QED
      BY <3>1, <3>2
  <2>3. QED
    BY <2>1, <2>2
<1>12. ASSUME NEW o \in Orders, RejectLookup(o) PROVE IInv'
  <2>1. TypeOK'
    BY <1>12 DEF RejectLookup
  <2>2. ASSUME NEW p \in Orders PROVE OrderInv(p)'
    <3>1. CASE p = o
      <4>1. Sources(p)' /\ HandlersMatchRow(p)'
        BY <1>12, <3>1 DEF RejectLookup
      <4>2. RowConsistentAt(p)' /\ Handed(p)'
        BY <1>12, <3>1 DEF RejectLookup
      <4>3. ChannelBounds(p)'
        BY <1>12, <3>1 DEF RejectLookup
      <4>4. ClosedIsFinal(p)'
        BY <1>12, <3>1 DEF RejectLookup
      <4>5. KeepsPolling(p)'
        BY <1>12, <3>1 DEF RejectLookup
      <4>6. QED
        BY <4>1, <4>2, <4>3, <4>4, <4>5
    <3>2. CASE p # o
      BY <1>12, <3>2 DEF RejectLookup
    <3>3. QED
      BY <3>1, <3>2
  <2>3. QED
    BY <2>1, <2>2
<1>13. ASSUME NEW o \in Orders, MarkOrderRejected(o) PROVE IInv'
  <2>1. TypeOK'
    BY <1>13 DEF MarkOrderRejected
  <2>2. ASSUME NEW p \in Orders PROVE OrderInv(p)'
    <3>1. CASE p = o
      <4>1. Sources(p)' /\ HandlersMatchRow(p)'
        BY <1>13, <3>1 DEF MarkOrderRejected
      <4>2. RowConsistentAt(p)' /\ Handed(p)'
        BY <1>13, <3>1 DEF MarkOrderRejected
      <4>3. ChannelBounds(p)'
        BY <1>13, <3>1 DEF MarkOrderRejected
      <4>4. ClosedIsFinal(p)'
        <5>1. filled[o] = 0
          BY <1>13, Zenon DEF MarkOrderRejected
        <5>2. found[o] = 0 /\ polled[o] = 0
          BY <5>1, NothingToReport
        <5>3. executed[o] \in Nat
          OBVIOUS
        <5>4. UNCHANGED <<found, polled, executed>>
          BY <1>13 DEF MarkOrderRejected
        <5>5. QED
          BY <3>1, <5>2, <5>3, <5>4
      <4>5. KeepsPolling(p)'
        BY <1>13, <3>1 DEF MarkOrderRejected
      <4>6. QED
        BY <4>1, <4>2, <4>3, <4>4, <4>5
    <3>2. CASE p # o
      BY <1>13, <3>2 DEF MarkOrderRejected
    <3>3. QED
      BY <3>1, <3>2
  <2>3. QED
    BY <2>1, <2>2
<1>14. ASSUME NEW o \in Orders, PollFires(o) PROVE IInv'
  BY <1>14 DEF PollFires
<1>15. ASSUME NEW o \in Orders, PollAnswered(o) PROVE IInv'
  <2>1. TypeOK'
    <3>1. over' \in [Orders -> BOOLEAN]
      BY <1>15, Zenon DEF PollAnswered
    <3>2. polled' \in [Orders -> Qty]
      <4>1. polled' = [polled EXCEPT ![o] = filled[o]] \/ polled' = polled
        BY <1>15, Zenon DEF PollAnswered
      <4>2. polled \in [Orders -> Qty] /\ filled[o] \in Qty
        OBVIOUS
      <4>3. QED
        BY <4>1, <4>2, Zenon
    <3>3. step' \in [Orders -> PollSteps]
      <4>1. \/ step' = [step EXCEPT ![o] = "answered"]
            \/ step' = [step EXCEPT ![o] = "finishing"]
        BY <1>15, Zenon DEF PollAnswered
      <4>2. QED
        BY <4>1
    <3>4. UNCHANGED <<exchVars, rowVars, mode, saving, tracking, noticeVars, timer, attempt,
                      taken, position, via>>
      BY <1>15 DEF PollAnswered
    <3>5. QED
      BY <3>1, <3>2, <3>3, <3>4
  <2>2. ASSUME NEW p \in Orders PROVE OrderInv(p)'
    <3>1. CASE p = o
      BY <1>15, <3>1 DEF PollAnswered
    <3>2. CASE p # o
      BY <1>15, <3>2 DEF PollAnswered
    <3>3. QED
      BY <3>1, <3>2
  <2>3. QED
    BY <2>1, <2>2
<1>16. ASSUME NEW o \in Orders, PollFails(o) PROVE IInv'
  <2>1. TypeOK'
    BY <1>16 DEF PollFails, ScheduleOrderPollingFallback
  <2>2. ASSUME NEW p \in Orders PROVE OrderInv(p)'
    <3>1. CASE p = o
      <4>1. Sources(p)' /\ HandlersMatchRow(p)'
        BY <1>16, <3>1 DEF PollFails, ScheduleOrderPollingFallback
      <4>2. RowConsistentAt(p)' /\ Handed(p)'
        BY <1>16, <3>1 DEF PollFails, ScheduleOrderPollingFallback
      <4>3. ChannelBounds(p)'
        BY <1>16, <3>1 DEF PollFails, ScheduleOrderPollingFallback
      <4>4. ClosedIsFinal(p)'
        BY <1>16, <3>1 DEF PollFails, ScheduleOrderPollingFallback
      <4>5. KeepsPolling(p)'
        <5>1. CASE attempt[o] >= MaxAttempts
          <6>1. attempt[o] = MaxAttempts
            <7>1. ~(attempt[o] < MaxAttempts)
              BY <5>1, TypesOfOne
            <7>2. QED
              BY <7>1, LastAttempt
          <6>2. attempt' = attempt
            BY <1>16 DEF PollFails
          <6>3. QED
            BY <3>1, <6>1, <6>2
        <5>2. CASE ~(attempt[o] >= MaxAttempts)
          <6>1. timer'[o] > 0
            BY <1>16, <5>2 DEF PollFails, ScheduleOrderPollingFallback
          <6>2. QED
            BY <3>1, <6>1
        <5>3. QED
          BY <5>1, <5>2
      <4>6. QED
        BY <4>1, <4>2, <4>3, <4>4, <4>5
    <3>2. CASE p # o
      BY <1>16, <3>2 DEF PollFails, ScheduleOrderPollingFallback
    <3>3. QED
      BY <3>1, <3>2
  <2>3. QED
    BY <2>1, <2>2
<1>17. ASSUME NEW o \in Orders, PollLookup(o) PROVE IInv'
  <2>1. TypeOK'
    BY <1>17 DEF PollLookup
  <2>2. ASSUME NEW p \in Orders PROVE OrderInv(p)'
    <3>1. CASE p = o
      <4>1. Sources(p)' /\ HandlersMatchRow(p)'
        BY <1>17, <3>1 DEF PollLookup
      <4>2. RowConsistentAt(p)' /\ Handed(p)'
        BY <1>17, <3>1 DEF PollLookup
      <4>3. ChannelBounds(p)'
        BY <1>17, <3>1 DEF PollLookup
      <4>4. ClosedIsFinal(p)'
        BY <1>17, <3>1 DEF PollLookup
      <4>5. KeepsPolling(p)'
        BY <1>17, <3>1 DEF PollLookup
      <4>6. QED
        BY <4>1, <4>2, <4>3, <4>4, <4>5
    <3>2. CASE p # o
      BY <1>17, <3>2 DEF PollLookup
    <3>3. QED
      BY <3>1, <3>2
  <2>3. QED
    BY <2>1, <2>2
<1>18. ASSUME NEW o \in Orders, PollClosesOrder(o) PROVE IInv'
  <2>1. TypeOK'
    BY <1>18 DEF PollClosesOrder, NothingNew
  <2>2. ASSUME NEW p \in Orders PROVE OrderInv(p)'
    <3>1. CASE p = o
      <4>1. Sources(p)' /\ HandlersMatchRow(p)'
        BY <1>18, <3>1 DEF PollClosesOrder, NothingNew
      <4>2. RowConsistentAt(p)' /\ Handed(p)'
        BY <1>18, <3>1 DEF PollClosesOrder, NothingNew
      <4>3. ChannelBounds(p)'
        BY <1>18, <3>1 DEF PollClosesOrder, NothingNew
      <4>4. ClosedIsFinal(p)'
        <5>1. polled[o] = filled[o] /\ polled[o] <= executed[o]
          BY <1>18, Zenon DEF PollClosesOrder, NothingNew
        <5>2. "poll" \notin via[o] => found[o] = 0
          BY <5>1
        <5>3. UNCHANGED <<found, polled, executed, via>>
          BY <1>18 DEF PollClosesOrder
        <5>4. QED
          BY <3>1, <5>1, <5>2, <5>3
      <4>5. KeepsPolling(p)'
        BY <1>18, <3>1 DEF PollClosesOrder, NothingNew
      <4>6. QED
        BY <4>1, <4>2, <4>3, <4>4, <4>5
    <3>2. CASE p # o
      BY <1>18, <3>2 DEF PollClosesOrder, NothingNew
    <3>3. QED
      BY <3>1, <3>2
  <2>3. QED
    BY <2>1, <2>2
<1>19. ASSUME NEW o \in Orders, RecordPolledOrderExecution(o) PROVE IInv'
  <2> DEFINE next == NextExecuted(o, polled[o])
  <2>1. /\ next \in Qty /\ next >= executed[o] /\ next <= Max2(executed[o], polled[o])
        /\ AppliedQty(o, polled[o]) = next - executed[o]
    BY NextExecutedBounds DEF AppliedQty
  <2>2. CASE AppliedQty(o, polled[o]) <= 0
    <3>1. TypeOK'
      BY <1>19, <2>2 DEF RecordPolledOrderExecution
    <3>2. ASSUME NEW p \in Orders PROVE OrderInv(p)'
      <4>1. CASE p = o
        BY <1>19, <2>2, <4>1 DEF RecordPolledOrderExecution
      <4>2. CASE p # o
        BY <1>19, <2>2, <4>2 DEF RecordPolledOrderExecution
      <4>3. QED
        BY <4>1, <4>2
    <3>3. QED
      BY <3>1, <3>2
  <2>3. CASE ~(AppliedQty(o, polled[o]) <= 0)
    <3> HIDE DEF next
    <3>1. next > executed[o] /\ next <= polled[o]
      BY <2>1, <2>3 DEF Max2
    <3>2. /\ executed' = [executed EXCEPT ![o] = next]
          /\ status' = [status EXCEPT ![o] = IF next >= Quantity THEN "executed" ELSE "partial"]
          /\ taken' = [taken EXCEPT ![o] = next - executed[o]]
          /\ via' = [via EXCEPT ![o] = @ \cup {"poll"}]
          /\ step' = [step EXCEPT ![o] = "recorded"]
          /\ step[o] = "found"
      BY <1>19, <2>1, <2>3 DEF RecordPolledOrderExecution, ApplyExecutionToHistory, next
    <3>3. UNCHANGED <<exchVars, mode, saving, tracking, noticeVars, timer, attempt, polled,
                      over, position>>
      BY <1>19 DEF RecordPolledOrderExecution
    <3>4. TypeOK'
      BY <2>1, <3>1, <3>2, <3>3
    <3>5. ASSUME NEW p \in Orders PROVE OrderInv(p)'
      <4>1. CASE p = o
        BY <2>1, <3>1, <3>2, <3>3, <4>1
      <4>2. CASE p # o
        BY <3>2, <3>3, <4>2
      <4>3. QED
        BY <4>1, <4>2
    <3>6. QED
      BY <3>4, <3>5
  <2>4. QED
    BY <2>2, <2>3
<1>20. ASSUME NEW o \in Orders, PollClosesPartial(o) PROVE IInv'
  BY <1>20 DEF PollClosesPartial
<1>21. ASSUME NEW o \in Orders, PollApply(o) PROVE IInv'
  BY <1>21 DEF PollApply, ApplyConfirmedOrderExecution
<1>22. ASSUME NEW o \in Orders, PollFinishes(o) PROVE IInv'
  <2>1. TypeOK'
    <3>1. timer' \in [Orders -> Attempts]
      <4>1. CASE Open(o) /\ attempt[o] < MaxAttempts
        <5>1. attempt[o] + 1 \in Attempts
          BY <4>1
        <5>2. ScheduleOrderPollingFallback(o, attempt[o] + 1)
          BY <1>22, <4>1, Zenon DEF PollFinishes
        <5>3. QED
          BY <5>1, <5>2, ScheduleKeepsTimers
      <4>2. CASE ~(Open(o) /\ attempt[o] < MaxAttempts)
        BY <1>22, <4>2 DEF PollFinishes
      <4>3. QED
        BY <4>1, <4>2
    <3>2. step' \in [Orders -> PollSteps]
      BY <1>22 DEF PollFinishes
    <3>3. UNCHANGED <<exchVars, rowVars, mode, saving, tracking, noticeVars, attempt, polled,
                      over, taken, position, via>>
      BY <1>22 DEF PollFinishes
    <3>4. QED
      BY <3>1, <3>2, <3>3
  <2>2. ASSUME NEW p \in Orders PROVE OrderInv(p)'
    <3>1. CASE p = o
      <4>1. Sources(p)' /\ HandlersMatchRow(p)'
        BY <1>22, <3>1 DEF PollFinishes, ScheduleOrderPollingFallback
      <4>2. RowConsistentAt(p)' /\ Handed(p)'
        BY <1>22, <3>1 DEF PollFinishes, ScheduleOrderPollingFallback
      <4>3. ChannelBounds(p)'
        BY <1>22, <3>1 DEF PollFinishes, ScheduleOrderPollingFallback
      <4>4. ClosedIsFinal(p)'
        BY <1>22, <3>1 DEF PollFinishes, ScheduleOrderPollingFallback
      <4>5. KeepsPolling(p)'
        <5>1. CASE Open(o) /\ attempt[o] < MaxAttempts
          <6>1. timer'[o] > 0
            BY <1>22, <5>1 DEF PollFinishes, ScheduleOrderPollingFallback
          <6>2. QED
            BY <3>1, <6>1
        <5>2. CASE ~Open(o)
          <6>1. status' = status
            BY <1>22 DEF PollFinishes
          <6>2. QED
            BY <3>1, <5>2, <6>1
        <5>3. CASE ~(attempt[o] < MaxAttempts)
          <6>1. attempt[o] = MaxAttempts
            BY <5>3, LastAttempt
          <6>2. attempt' = attempt
            BY <1>22 DEF PollFinishes
          <6>3. QED
            BY <3>1, <6>1, <6>2
        <5>4. QED
          BY <5>1, <5>2, <5>3
      <4>6. QED
        BY <4>1, <4>2, <4>3, <4>4, <4>5
    <3>2. CASE p # o
      BY <1>22, <3>2 DEF PollFinishes, ScheduleOrderPollingFallback
    <3>3. QED
      BY <3>1, <3>2
  <2>3. QED
    BY <2>1, <2>2
<1>23. CASE TrackingLost
  <2>1. TypeOK'
    <3>1. tracking' \in BOOLEAN
      BY <1>23, Zenon DEF TrackingLost
    <3>2. notices' \in [Orders -> Qty] /\ rejectNotice' \subseteq Orders
      BY <1>23 DEF TrackingLost
    <3>3. UNCHANGED <<exchVars, rowVars, mode, saving, found, rejectFound, recorded, timer,
                      pollVars, position, via>>
      BY <1>23 DEF TrackingLost
    <3>4. QED
      BY <3>1, <3>2, <3>3
  <2>2. ASSUME NEW p \in Orders PROVE OrderInv(p)'
    BY <1>23 DEF TrackingLost
  <2>3. QED
    BY <2>1, <2>2
<1>24. CASE TrackingBack
  BY <1>24 DEF TrackingBack
<1>25. CASE Restart
  BY <1>25 DEF Restart
<1>26. CASE UNCHANGED vars
  BY <1>26 DEF vars
<1>27. QED
  BY <1>1, <1>2, <1>3, <1>4, <1>5, <1>6, <1>7, <1>8, <1>9, <1>10, <1>11, <1>12, <1>13, <1>14, <1>15, <1>16, <1>17, <1>18, <1>19, <1>20, <1>21, <1>22, <1>23, <1>24, <1>25, <1>26
  DEF Next, Placement, Exchange, NoticeHandlers, PollHandler

(* The invariant holds in every reachable state. *)
LEMMA Invariance == Spec => []IInv
<1>1. QED
  BY InitIInv, NextIInv, PTL DEF Spec

-----------------------------------------------------------------------------
(* No behaviour of the ledger leaves the declared types: in particular no    *)
(* count of units exceeds the order's quantity, for any quantity.            *)
THEOREM TypeCorrect == Spec => []TypeOK
<1>1. IInv => TypeOK
  BY DEF IInv
<1>2. QED
  BY <1>1, Invariance, PTL

(* A row's status and its executed quantity always agree, however the notice *)
(* and the polling handlers of applyExecutionToHistory interleave.           *)
THEOREM RowsStayConsistent == Spec => []RowConsistent
<1>1. IInv => RowConsistent
  BY DEF IInv, OrderInv, RowConsistentAt, RowConsistent
<1>2. QED
  BY <1>1, Invariance, PTL

(* The session's position is never ahead of the row: no unit that was        *)
(* recorded once is applied twice by applyConfirmedOrderExecution.           *)
THEOREM PositionIsNeverAhead == Spec => []PositionNeverAhead
<1>1. IInv => PositionNeverAhead
  BY DEF IInv, OrderInv, Handed, PositionNeverAhead
<1>2. QED
  BY <1>1, Invariance, PTL

(* A row that only one of the two channels moved never holds more units than *)
(* the exchange filled: notices and polls are each exact on their own.       *)
THEOREM OneChannelIsExact == Spec => []SingleChannelExact
<1>1. IInv => SingleChannelExact
  <2> SUFFICES ASSUME IInv, NEW o \in Orders, via[o] # Channels
               PROVE  executed[o] <= filled[o]
    BY DEF SingleChannelExact
  <2>1. "notice" \notin via[o] \/ "poll" \notin via[o]
    BY DEF IInv, TypeOK, Channels
  <2>2. /\ executed[o] \in Nat /\ filled[o] \in Nat
        /\ notices[o] \in Nat /\ found[o] \in Nat
    BY OrderLedgerAssumption DEF IInv, TypeOK, Qty
  <2>3. QED
    BY <2>1, <2>2 DEF IInv, OrderInv, ChannelBounds
<1>2. QED
  BY <1>1, Invariance, PTL

-----------------------------------------------------------------------------
(* A step that leaves the row's quantity, the position and the units in the  *)
(* handlers' hands alone is a stuttering step of the feed.                   *)
LEMMA FeedStutters ==
    ASSUME UNCHANGED <<executed, recorded, taken, position>>
    PROVE  UNCHANGED Feed!vars
  BY DEF Feed!vars, Held

(* The units in hand after the units of one order changed. *)
LEMMA HeldChanges ==
    ASSUME NEW o \in Orders, NEW h,
           recorded'[o] + taken'[o] = h,
           \A p \in Orders : p # o => recorded'[p] = recorded[p] /\ taken'[p] = taken[p]
    PROVE  Held' = [Held EXCEPT ![o] = h]
  BY DEF Held

(* Every step of the ledger is a step of the feed, or a stutter: recording is *)
(* Record, applying is Apply or Drop, a restart is Crash.                     *)
LEMMA StepImplementsFeed == IInv /\ [Next]_vars => [Feed!Next]_Feed!vars
<1> SUFFICES ASSUME IInv, [Next]_vars PROVE [Feed!Next]_Feed!vars
  OBVIOUS
<1> USE OrderLedgerAssumption
<1>1. ASSUME NEW o \in Orders, RecordExecutionNotification(o)
      PROVE  [Feed!Next]_Feed!vars
  <2> DEFINE n == AppliedQty(o, executed[o] + 1)
  <2>1. /\ executed[o] \in Qty /\ n \in Qty
        /\ NextExecuted(o, executed[o] + 1) = executed[o] + n
        /\ NextExecuted(o, executed[o] + 1) \in Qty
        /\ NextExecuted(o, executed[o] + 1) <= executed[o] + 1
    BY NextExecutedBounds DEF IInv, TypeOK, Qty, Max2
  <2> HIDE DEF n
  <2>2. CASE n <= 0
    BY <1>1, <2>2, FeedStutters DEF RecordExecutionNotification, rowVars, pollVars, n
  <2>3. CASE ~(n <= 0)
    <3>1. n = 1
      BY <2>1, <2>3 DEF Qty
    <3>2. /\ executed' = [executed EXCEPT ![o] = @ + 1]
          /\ recorded' = [recorded EXCEPT ![o] = @ + 1]
          /\ UNCHANGED <<taken, position>>
      BY <1>1, <2>1, <2>3, <3>1
      DEF RecordExecutionNotification, ApplyExecutionToHistory, pollVars, n
    <3>3. Held' = [Held EXCEPT ![o] = @ + 1]
      <4>1. recorded'[o] + taken'[o] = Held[o] + 1
        BY <3>2 DEF Held, IInv, TypeOK, Qty
      <4>2. QED
        BY <3>2, <4>1, HeldChanges DEF IInv, TypeOK
    <3>4. executed[o] + 1 <= Quantity /\ 1 \in 1 .. Quantity
      BY <2>1, <3>1 DEF Qty
    <3>5. QED
      BY <3>2, <3>3, <3>4 DEF Feed!Next, Feed!Record
  <2>4. QED
    BY <2>2, <2>3
<1>2. ASSUME NEW o \in Orders, RecordPolledOrderExecution(o)
      PROVE  [Feed!Next]_Feed!vars
  <2> DEFINE n == AppliedQty(o, polled[o])
  <2>1. /\ executed[o] \in Qty /\ n \in Qty
        /\ NextExecuted(o, polled[o]) = executed[o] + n
        /\ NextExecuted(o, polled[o]) \in Qty
    BY NextExecutedBounds DEF IInv, TypeOK, Qty
  <2> HIDE DEF n
  <2>2. CASE n <= 0
    BY <1>2, <2>2, FeedStutters DEF RecordPolledOrderExecution, rowVars, noticeVars, n
  <2>3. CASE ~(n <= 0)
    <3>1. n \in 1 .. Quantity /\ executed[o] + n <= Quantity
      BY <2>1, <2>3 DEF Qty
    <3>2. /\ executed' = [executed EXCEPT ![o] = @ + n]
          /\ taken' = [taken EXCEPT ![o] = n]
          /\ step[o] = "found"
          /\ UNCHANGED <<recorded, position>>
      BY <1>2, <2>1, <2>3
      DEF RecordPolledOrderExecution, ApplyExecutionToHistory, noticeVars, n
    <3>3. taken[o] = 0
      BY <3>2 DEF IInv, OrderInv, HandlersMatchRow, TypeOK, Qty
    <3>4. Held' = [Held EXCEPT ![o] = @ + n]
      <4>1. recorded'[o] + taken'[o] = Held[o] + n
        BY <3>1, <3>2, <3>3 DEF Held, IInv, TypeOK, Qty
      <4>2. QED
        BY <3>2, <4>1, HeldChanges DEF IInv, TypeOK
    <3>5. QED
      BY <3>1, <3>2, <3>4 DEF Feed!Next, Feed!Record
  <2>4. QED
    BY <2>2, <2>3
<1>3. ASSUME NEW o \in Orders, NoticeApply(o) PROVE [Feed!Next]_Feed!vars
  <2>1. /\ recorded[o] > 0
        /\ recorded' = [recorded EXCEPT ![o] = @ - 1]
        /\ UNCHANGED <<executed, taken>>
    BY <1>3 DEF NoticeApply, rowVars, pollVars
  <2>2. Held' = [Held EXCEPT ![o] = @ - 1] /\ 1 <= Held[o] /\ 1 \in 1 .. Quantity
    <3>1. recorded'[o] + taken'[o] = Held[o] - 1 /\ 1 <= Held[o] /\ 1 \in 1 .. Quantity
      BY <2>1 DEF Held, IInv, TypeOK, Qty
    <3>2. QED
      BY <2>1, <3>1, HeldChanges DEF IInv, TypeOK
  <2>3. position' = [position EXCEPT ![o] = @ + 1] \/ position' = position
    BY <1>3 DEF NoticeApply, ApplyConfirmedOrderExecution
  <2>4. CASE position' = [position EXCEPT ![o] = @ + 1]
    BY <2>1, <2>2, <2>4 DEF Feed!Next, Feed!Apply
  <2>5. CASE position' = position
    BY <2>1, <2>2, <2>5 DEF Feed!Next, Feed!Drop
  <2>6. QED
    BY <2>3, <2>4, <2>5
<1>4. ASSUME NEW o \in Orders, PollApply(o) PROVE [Feed!Next]_Feed!vars
  <2> DEFINE n == taken[o]
  <2>1. /\ taken' = [taken EXCEPT ![o] = 0]
        /\ UNCHANGED <<executed, recorded>>
        /\ n \in Qty
    BY <1>4 DEF PollApply, rowVars, noticeVars, IInv, TypeOK
  <2>2. position' = [position EXCEPT ![o] = @ + n] \/ position' = position
    BY <1>4 DEF PollApply, ApplyConfirmedOrderExecution
  <2>3. CASE n = 0
    <3>1. taken' = taken /\ position' = position
      BY <2>1, <2>2, <2>3 DEF IInv, TypeOK, Qty
    <3>2. QED
      BY <2>1, <3>1, FeedStutters
  <2>4. CASE n # 0
    <3>1. n \in 1 .. Quantity
      BY <2>1, <2>4 DEF Qty
    <3>2. Held' = [Held EXCEPT ![o] = @ - n] /\ n <= Held[o]
      <4>1. recorded'[o] + taken'[o] = Held[o] - n /\ n <= Held[o]
        BY <2>1 DEF Held, IInv, TypeOK, Qty
      <4>2. QED
        BY <2>1, <4>1, HeldChanges DEF IInv, TypeOK
    <3>3. CASE position' = [position EXCEPT ![o] = @ + n]
      BY <2>1, <3>1, <3>2, <3>3 DEF Feed!Next, Feed!Apply
    <3>4. CASE position' = position
      BY <2>1, <3>1, <3>2, <3>4 DEF Feed!Next, Feed!Drop
    <3>5. QED
      BY <2>2, <3>3, <3>4
  <2>5. QED
    BY <2>3, <2>4
<1>5. CASE Restart
  <2>1. Held' = [o \in Orders |-> 0] /\ UNCHANGED <<executed, position>>
    BY <1>5 DEF Restart, Held, rowVars
  <2>2. QED
    BY <2>1 DEF Feed!Next, Feed!Crash
<1>6. ASSUME NEW o \in Orders, Placement(o) \/ Exchange(o)
      PROVE  [Feed!Next]_Feed!vars
  BY <1>6, FeedStutters
  DEF Placement, Exchange, OrderCashAccepted, OrderCashRefused, OrderCashResponseLost,
      SaveHistory, SaveHistoryFails, ExchangeFills, ExchangeRejects, ExchangeCancels,
      rowVars, noticeVars, pollVars
<1>7. ASSUME NEW o \in Orders, NoticeLookup(o) \/ RejectLookup(o) \/ MarkOrderRejected(o)
      PROVE  [Feed!Next]_Feed!vars
  BY <1>7, FeedStutters
  DEF NoticeLookup, RejectLookup, MarkOrderRejected, rowVars, noticeVars, pollVars
<1>8. ASSUME NEW o \in Orders,
             \/ PollFires(o) \/ PollAnswered(o) \/ PollFails(o) \/ PollLookup(o)
             \/ PollClosesOrder(o) \/ PollClosesPartial(o) \/ PollFinishes(o)
      PROVE  [Feed!Next]_Feed!vars
  BY <1>8, FeedStutters
  DEF PollFires, PollAnswered, PollFails, PollLookup, PollClosesOrder, PollClosesPartial,
      PollFinishes, rowVars, noticeVars, pollVars
<1>9. CASE TrackingLost \/ TrackingBack \/ UNCHANGED vars
  BY <1>9, FeedStutters DEF TrackingLost, TrackingBack, rowVars, noticeVars, pollVars, vars
<1>10. QED
  BY <1>1, <1>2, <1>3, <1>4, <1>5, <1>6, <1>7, <1>8, <1>9
  DEF Next, NoticeHandlers, PollHandler

(* The two channels with all their races, losses and restarts implement the  *)
(* abstract feed: units are recorded up to the quantity and handed over once. *)
THEOREM LedgerImplementsFeed == Spec => ImplementsFeed
<1>1. Init => Feed!Init
  BY DEF Init, Feed!Init, Held
<1>2. QED
  BY <1>1, Invariance, StepImplementsFeed, PTL DEF Spec, ImplementsFeed, Feed!Spec

(* A row that only one channel moved is never reopened after it was closed:  *)
(* a late notice, or a poll that had already asked, finds nothing to add.     *)
THEOREM RowsStayClosed == Spec => ClosedStaysClosed
<1>1. IInv /\ [Next]_vars =>
        [\A o \in Orders : status[o] \in ClosedStatus /\ via'[o] # Channels
                            => status'[o] \in ClosedStatus]_vars
  <2> SUFFICES ASSUME IInv, Next, NEW p \in Orders,
                      status[p] \in ClosedStatus, via'[p] # Channels,
                      status'[p] \notin ClosedStatus
               PROVE  FALSE
    OBVIOUS
  <2> USE DEF ClosedStatus
  <2>0. ASSUME NEW o \in Orders
        PROVE  /\ executed[o] \in Nat /\ polled[o] \in Nat /\ executed[o] \in Qty
               /\ Quantity \in Nat
               /\ via \in [Orders -> SUBSET Channels] /\ status \in [Orders -> RowStatus]
               /\ OrderInv(o)
    BY OrderLedgerAssumption, TypesOfOne DEF IInv, TypeOK, Qty
  <2>1. ASSUME NEW o \in Orders, RecordExecutionNotification(o) PROVE FALSE
    <3>1. AppliedQty(o, executed[o] + 1) \in Qty
      BY <2>0, NextExecutedBounds
    <3>2. AppliedQty(o, executed[o] + 1) > 0
      BY <2>0, <2>1, <3>1 DEF RecordExecutionNotification, rowVars, Qty
    <3>3. /\ found[o] > 0
          /\ via' = [via EXCEPT ![o] = @ \cup {"notice"}]
          /\ \A q \in Orders : q # o => status'[q] = status[q]
      BY <2>0, <2>1, <3>1, <3>2 DEF RecordExecutionNotification, Qty, ApplyExecutionToHistory
    <3>4. o = p
      BY <3>3
    <3>5. "poll" \notin via[p]
      BY <2>0, <3>3, <3>4 DEF Channels
    <3>6. executed[p] = Quantity
      BY <2>0, <3>3, <3>4, <3>5 DEF OrderInv, ClosedIsFinal
    <3>7. QED
      BY <2>0, <3>2, <3>4, <3>6 DEF AppliedQty, NextExecuted, Min2, Max2, Qty
  <2>2. ASSUME NEW o \in Orders, RecordPolledOrderExecution(o) PROVE FALSE
    <3>1. AppliedQty(o, polled[o]) \in Qty
      BY <2>0, NextExecutedBounds
    <3>2. AppliedQty(o, polled[o]) > 0
      BY <2>0, <2>2, <3>1 DEF RecordPolledOrderExecution, rowVars, Qty
    <3>3. /\ step[o] = "found"
          /\ via' = [via EXCEPT ![o] = @ \cup {"poll"}]
          /\ \A q \in Orders : q # o => status'[q] = status[q]
      BY <2>0, <2>2, <3>1, <3>2 DEF RecordPolledOrderExecution, Qty, ApplyExecutionToHistory
    <3>4. o = p
      BY <3>3
    <3>5. "notice" \notin via[p]
      BY <2>0, <3>3, <3>4 DEF Channels
    <3>6. polled[p] <= executed[p]
      BY <2>0, <3>3, <3>4, <3>5 DEF OrderInv, ClosedIsFinal
    <3>7. QED
      BY <2>0, <3>2, <3>4, <3>6 DEF AppliedQty, NextExecuted, Min2, Max2, Qty
  <2>3. ASSUME NEW o \in Orders, Placement(o) PROVE FALSE
    BY <2>0, <2>3
    DEF Placement, OrderCashAccepted, OrderCashRefused, OrderCashResponseLost, SaveHistory,
        SaveHistoryFails, OrderInv, HandlersMatchRow, rowVars
  <2>4. ASSUME NEW o \in Orders, Exchange(o) PROVE FALSE
    BY <2>0, <2>4 DEF Exchange, ExchangeFills, ExchangeRejects, ExchangeCancels, rowVars
  <2>5. ASSUME NEW o \in Orders,
               NoticeLookup(o) \/ NoticeApply(o) \/ RejectLookup(o) \/ MarkOrderRejected(o)
        PROVE FALSE
    BY <2>0, <2>5 DEF NoticeLookup, NoticeApply, RejectLookup, MarkOrderRejected, rowVars
  <2>6. ASSUME NEW o \in Orders,
               \/ PollFires(o) \/ PollAnswered(o) \/ PollFails(o) \/ PollLookup(o)
               \/ PollApply(o) \/ PollFinishes(o)
        PROVE FALSE
    BY <2>0, <2>6 DEF PollFires, PollAnswered, PollFails, PollLookup, PollApply, PollFinishes, rowVars
  <2>7. ASSUME NEW o \in Orders, PollClosesOrder(o) \/ PollClosesPartial(o) PROVE FALSE
    BY <2>0, <2>7 DEF PollClosesOrder, PollClosesPartial
  <2>8. CASE TrackingLost \/ TrackingBack \/ Restart
    BY <2>0, <2>8 DEF TrackingLost, TrackingBack, Restart, rowVars
  <2>9. QED
    BY <2>1, <2>2, <2>3, <2>4, <2>5, <2>6, <2>7, <2>8
    DEF Next, NoticeHandlers, PollHandler
<1>2. QED
  BY <1>1, Invariance, PTL DEF Spec, ClosedStaysClosed

(* The chain of polls of an order placed without notices never breaks before *)
(* the order closes or the attempts are spent, unless a notice moved it.      *)
THEOREM FallbackIsNotDropped == Spec => []FallbackKeepsPolling
<1>1. IInv => FallbackKeepsPolling
  <2> SUFFICES ASSUME IInv, NEW o \in Orders, Open(o), mode[o] = "polling-fallback",
                      "notice" \notin via[o], timer[o] = 0, step[o] = "idle",
                      o \notin rejectFound
               PROVE  attempt[o] = MaxAttempts
    BY OrderLedgerAssumption
    DEF FallbackKeepsPolling, Polled, GaveUp, IInv, TypeOK, Attempts
  <2>1. QED
    BY DEF IInv, OrderInv, KeepsPolling
<1>2. QED
  BY <1>1, Invariance, PTL
=============================================================================
