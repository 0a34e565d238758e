--------------------------- MODULE ScheduledScan ---------------------------
(***************************************************************************)
(* The scheduled AI scan across the two services.  triggerScan takes the   *)
(* row 'scheduled-ai-scan' of scheduled_job_locks under a fresh request id *)
(* and emits strategy.scan.request; the market-data service scans and      *)
(* emits the result to every backend instance; the instance that changes   *)
(* the row's owner from the request id to its own handling mark applies    *)
(* the result and releases the row.  A row is taken over when its          *)
(* locked_until has passed, whoever owns it.                               *)
(*                                                                         *)
(* Time is the time left until locked_until, counted down in ticks.        *)
(***************************************************************************)
EXTENDS Naturals, FiniteSets

CONSTANTS
    Requests,   \* request ids, one for each call of triggerScan
    Instances,  \* backend processes
    LockTTL,    \* SCAN_LOCK_TTL_MINUTES, in ticks
    ClaimTTL,   \* SCAN_RESULT_CLAIM_TTL_MINUTES, in ticks
    Faults      \* subset of FaultKinds

(* "db": a statement on the lock row fails, before or after it took effect;    *)
(* "publish": emitting an event fails, before or after it was sent; "crash": a *)
(* backend instance or the market-data service restarts.                       *)
FaultKinds == {"db", "publish", "crash"}

NoOne == "no one"

ASSUME ScheduledScanAssumption ==
    /\ LockTTL \in Nat \ {0}
    /\ ClaimTTL \in 1 .. LockTTL
    /\ Faults \subseteq FaultKinds
    /\ NoOne \notin Requests \cup Instances

VARIABLES
    mark,      \* the row's owner: "none", "request", "handling" or "released" ...
    holder,    \* ... the request id in it ...
    handler,   \* ... and the instance in a handling mark
    lease,     \* time until locked_until, 0 when it has passed
    trigger,   \* where triggerScan of a request is
    job,       \* where the market-data service is with it
    result,    \* the event it emits: completed or failed
    base,      \* samples in the regime state that the scan read ...
    regime,    \* ... and in market_regime_state.json
    inbox,     \* result events on their way: <<instance, request>>
    applying,  \* instances that claimed a result and apply it
    releasing, \* instances that applied it and release the row
    applied,   \* times a request's result was applied (history variable)
    overtaken  \* requests whose running scan lost the row to its TTL (history variable)

lockVars == <<mark, holder, handler, lease>>
scanVars == <<job, result, base, regime>>
handlerVars == <<applying, releasing, applied>>

vars == <<mark, holder, handler, lease, trigger, job, result, base, regime, inbox, applying,
          releasing, applied, overtaken>>

Marks == {"none", "request", "handling", "released"}
Pairs == Instances \X Requests

Init ==
    /\ mark = "none" /\ holder = NoOne /\ handler = NoOne /\ lease = 0
    /\ trigger = [r \in Requests |-> "unsent"]
    /\ job = [r \in Requests |-> "none"]
    /\ result = [r \in Requests |-> "none"]
    /\ base = [r \in Requests |-> 0]
    /\ regime = 0
    /\ inbox = {}
    /\ applying = {}
    /\ releasing = {}
    /\ applied = [r \in Requests |-> 0]
    /\ overtaken = {}

-----------------------------------------------------------------------------
(* The lock row: one SQL statement each. *)

(* Mutant: a row is taken only when it was released, however old it is. *)
FreeWhenReleased == lease = 0 /\ mark \in {"none", "released"}

(* "locked_until" <= now(), or no row yet. *)
Free == lease = 0

AcquireScanLock(r) ==
    /\ Free
    /\ mark' = "request" /\ holder' = r /\ handler' = NoOne
    /\ lease' = LockTTL
    /\ overtaken' = IF mark \in {"request", "handling"} THEN overtaken \cup {holder} ELSE overtaken

(* Mutant: a handling mark can be claimed again. *)
ClaimableTwice(r) == mark \in {"request", "handling"} /\ holder = r

(* where owner = requestId: the TTL is not asked about. *)
Claimable(r) == mark = "request" /\ holder = r

(* The claim leaves at least ClaimTTL for the handling. *)
ClaimResultHandlingLock(i, r) ==
    /\ mark' = "handling" /\ holder' = r /\ handler' = i
    /\ lease' = IF lease >= ClaimTTL THEN lease ELSE ClaimTTL

OwnedBy(m, r, i) == mark = m /\ holder = r /\ handler = i

(* Mutant: the row is released by job name alone. *)
ReleaseAnyLock(m, r, i) ==
    /\ mark' = "released" /\ holder' = r /\ handler' = NoOne /\ lease' = 0

ReleaseScanLock(m, r, i) ==
    IF OwnedBy(m, r, i)
      THEN mark' = "released" /\ holder' = r /\ handler' = NoOne /\ lease' = 0
      ELSE UNCHANGED lockVars

-----------------------------------------------------------------------------
(* triggerScan. *)

(* A trigger that does not get the row returns already_running: no step. *)
TriggerScan(r) ==
    /\ trigger[r] = "unsent"
    /\ AcquireScanLock(r)
    /\ trigger' = [trigger EXCEPT ![r] = "preparing"]
    /\ UNCHANGED <<scanVars, inbox, handlerVars>>

(* requestScan: the request is emitted ... *)
RequestScan(r) ==
    /\ trigger[r] = "preparing"
    /\ trigger' = [trigger EXCEPT ![r] = "ended"]
    /\ job' = [job EXCEPT ![r] = "queued"]
    /\ UNCHANGED <<lockVars, result, base, regime, inbox, handlerVars, overtaken>>

(* ... or it throws: no cash, a failing inquiry, an emit that failed or whose *)
(* confirmation was lost.                                                     *)
RequestScanThrows(r) ==
    /\ trigger[r] = "preparing"
    /\ trigger' = [trigger EXCEPT ![r] = "failing"]
    /\ \/ job' = job
       \/ "publish" \in Faults /\ job' = [job EXCEPT ![r] = "queued"]
    /\ UNCHANGED <<lockVars, result, base, regime, inbox, handlerVars, overtaken>>

(* The catch block releases the row; a failing statement is only logged. *)
ReleaseAfterThrow(r) ==
    /\ trigger[r] = "failing"
    /\ trigger' = [trigger EXCEPT ![r] = "ended"]
    /\ \/ ReleaseScanLock("request", r, NoOne)
       \/ "db" \in Faults /\ UNCHANGED lockVars
    /\ UNCHANGED <<scanVars, inbox, handlerVars, overtaken>>

-----------------------------------------------------------------------------
(* The market-data service: handleScanRequest and scanAllStocks. *)

StartScan(r) ==
    /\ job[r] = "queued"
    /\ job' = [job EXCEPT ![r] = "scanning"]
    /\ UNCHANGED <<lockVars, trigger, result, base, regime, inbox, handlerVars, overtaken>>

(* readMarketRegimeState at the end of the scan ... *)
ReadMarketRegimeState(r) ==
    /\ job[r] = "scanning"
    /\ job' = [job EXCEPT ![r] = "smoothing"]
    /\ base' = [base EXCEPT ![r] = regime]
    /\ UNCHANGED <<lockVars, trigger, result, regime, inbox, handlerVars, overtaken>>

(* ... and the smoothed score written back: one more sample than was read. *)
WriteMarketRegimeState(r) ==
    /\ job[r] = "smoothing"
    /\ job' = [job EXCEPT ![r] = "reporting"]
    /\ result' = [result EXCEPT ![r] = "completed"]
    /\ regime' = base[r] + 1
    /\ UNCHANGED <<lockVars, trigger, base, inbox, handlerVars, overtaken>>

ScanThrows(r) ==
    /\ job[r] = "scanning"
    /\ job' = [job EXCEPT ![r] = "reporting"]
    /\ result' = [result EXCEPT ![r] = "failed"]
    /\ UNCHANGED <<lockVars, trigger, base, regime, inbox, handlerVars, overtaken>>

(* emitBackendEventWithRetry: the event goes to the queue of every instance; a *)
(* lost confirmation makes it send again, attempts that all fail send nothing. *)
EmitBackendEventWithRetry(r) ==
    /\ job[r] = "reporting"
    /\ \/ inbox' = inbox \cup (Instances \X {r}) /\ job' = [job EXCEPT ![r] = "reported"]
       \/ "publish" \in Faults /\ inbox' = inbox \cup (Instances \X {r}) /\ job' = job
       \/ "publish" \in Faults /\ inbox' = inbox /\ job' = [job EXCEPT ![r] = "reported"]
    /\ UNCHANGED <<lockVars, trigger, result, base, regime, handlerVars, overtaken>>

-----------------------------------------------------------------------------
(* A backend instance: handleScanCompleted and handleScanFailed. *)

(* The event is dropped unless the instance claims the row for it; a claim that *)
(* threw counts as none, even if its update was committed.                      *)
ReceiveResult(i, r) ==
    /\ <<i, r>> \in inbox
    /\ inbox' = inbox \ {<<i, r>>}
    /\ \/ /\ Claimable(r)
          /\ ClaimResultHandlingLock(i, r)
          /\ \/ applying' = applying \cup {<<i, r>>}
             \/ "db" \in Faults /\ applying' = applying
       \/ /\ ~Claimable(r) \/ "db" \in Faults
          /\ UNCHANGED <<lockVars, applying>>
    /\ UNCHANGED <<trigger, scanVars, releasing, applied, overtaken>>

(* applyScanResults of a completed scan, or the notice of a failed one; what it *)
(* throws is caught.                                                            *)
ApplyScanResults(i, r) ==
    /\ <<i, r>> \in applying
    /\ applying' = applying \ {<<i, r>>}
    /\ releasing' = releasing \cup {<<i, r>>}
    /\ applied' = [applied EXCEPT ![r] = IF result[r] = "completed" THEN @ + 1 ELSE @]
    /\ UNCHANGED <<lockVars, trigger, scanVars, inbox, overtaken>>

ReleaseAfterHandling(i, r) ==
    /\ <<i, r>> \in releasing
    /\ releasing' = releasing \ {<<i, r>>}
    /\ \/ ReleaseScanLock("handling", r, i)
       \/ "db" \in Faults /\ UNCHANGED lockVars
    /\ UNCHANGED <<trigger, scanVars, inbox, applying, applied, overtaken>>

-----------------------------------------------------------------------------
(* Time and restarts. *)

Tick ==
    /\ lease > 0
    /\ lease' = lease - 1
    /\ UNCHANGED <<mark, holder, handler, trigger, scanVars, inbox, handlerVars, overtaken>>

Of(i, pairs) == {p \in pairs : p[1] = i}

(* An instance takes its queue, its handlers and the triggers it ran with it; *)
(* a new process has a new handler id, so it never releases for the old one.  *)
BackendRestarts(i, ran) ==
    /\ "crash" \in Faults
    /\ \A r \in ran : trigger[r] \in {"preparing", "failing"}
    /\ trigger' = [r \in Requests |-> IF r \in ran THEN "ended" ELSE trigger[r]]
    /\ inbox' = inbox \ Of(i, inbox)
    /\ applying' = applying \ Of(i, applying)
    /\ releasing' = releasing \ Of(i, releasing)
    /\ UNCHANGED <<lockVars, scanVars, applied, overtaken>>

(* Events are acknowledged when they are received: a scan under way is lost. *)
MarketDataRestarts ==
    /\ "crash" \in Faults
    /\ job' = [r \in Requests |->
         IF job[r] \in {"scanning", "smoothing", "reporting"} THEN "lost" ELSE job[r]]
    /\ UNCHANGED <<lockVars, trigger, result, base, regime, inbox, handlerVars, overtaken>>

-----------------------------------------------------------------------------
Backend(r) ==
    \/ TriggerScan(r) \/ RequestScan(r) \/ RequestScanThrows(r) \/ ReleaseAfterThrow(r)

MarketData(r) ==
    \/ StartScan(r) \/ ReadMarketRegimeState(r) \/ WriteMarketRegimeState(r) \/ ScanThrows(r)
    \/ EmitBackendEventWithRetry(r)

Handle(i, r) == ReceiveResult(i, r) \/ ApplyScanResults(i, r) \/ ReleaseAfterHandling(i, r)

Next ==
    \/ \E r \in Requests : Backend(r) \/ MarketData(r)
    \/ \E i \in Instances, r \in Requests : Handle(i, r)
    \/ \E i \in Instances, ran \in SUBSET Requests : BackendRestarts(i, ran)
    \/ MarketDataRestarts
    \/ Tick

Spec == Init /\ [][Next]_vars

(* Time passes; nothing else is assumed: not even that a handler ends. *)
FairSpec == Spec /\ WF_vars(Tick)

-----------------------------------------------------------------------------
(* Properties. *)

(* The row and every task keep their types; the TTL never exceeds LockTTL. *)
TypeOK ==
    /\ mark \in Marks
    /\ holder \in Requests \cup {NoOne}
    /\ handler \in Instances \cup {NoOne}
    /\ lease \in 0 .. LockTTL
    /\ trigger \in [Requests -> {"unsent", "preparing", "failing", "ended"}]
    /\ job \in [Requests -> {"none", "queued", "scanning", "smoothing", "reporting", "reported",
                             "lost"}]
    /\ result \in [Requests -> {"none", "completed", "failed"}]
    /\ base \in [Requests -> Nat]
    /\ regime \in Nat
    /\ inbox \subseteq Pairs
    /\ applying \subseteq Pairs
    /\ releasing \subseteq Pairs
    /\ applied \in [Requests -> 0 .. 1]
    /\ overtaken \subseteq Requests

(* A result is applied at most once, although every instance receives it, the  *)
(* sender repeats it and a claim may outlive its TTL.                          *)
AppliedOnce ==
    \A r \in Requests :
        /\ applied[r] <= 1
        /\ \A i, j \in Instances :
             <<i, r>> \in applying \cup releasing /\ <<j, r>> \in applying \cup releasing
                 => i = j /\ <<i, r>> \notin applying \cap releasing

(* Whoever works under the row keeps it until its own release or its TTL: a     *)
(* trigger before its emit and a handler that claimed own the row unless they   *)
(* were overtaken, whatever late handlers of other requests release meanwhile.  *)
WorkerKeepsRow ==
    \A r \in Requests \ overtaken :
        /\ trigger[r] = "preparing" => mark = "request" /\ holder = r
        /\ \A i \in Instances :
             <<i, r>> \in applying \cup releasing => OwnedBy("handling", r, i)

(* Results are applied in the order of the scans: once a newer request has taken *)
(* the row over, no instance begins to handle the older one's late result.       *)
OvertakenNotClaimed ==
    [][\A p \in Pairs : p[2] \in overtaken /\ p \notin applying => p \notin applying']_vars

(* Lost results, failed releases and crashes never block the next day's scan:   *)
(* again and again the row can be taken.                                        *)
RowComesFree == []<>Free

=============================================================================
