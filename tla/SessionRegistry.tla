-------------------------- MODULE SessionRegistry --------------------------
(***************************************************************************)
(* The sessions of one account and everybody who starts, changes, ends and *)
(* deletes them: the user's browser pages through the REST handlers, the   *)
(* exits and fills of AutoTrading, and the scheduled scan, which deletes   *)
(* its unused sessions before a scan and resumes and starts sessions with  *)
(* the scan's result.                                                      *)
(*                                                                         *)
(* A command reads rows, awaits the database or the market-data service,   *)
(* and flushes.  A flush writes the columns whose value the command        *)
(* changed, over whatever the row has become; the unique index on          *)
(* (user, stock) of active sessions can refuse it.                         *)
(***************************************************************************)
EXTENDS ScanSelection

CONSTANTS
    Pages,       \* browser pages of the user
    Ids,         \* ids of session rows
    Taken,       \* the ids in use at the start
    MaxBatch,    \* stocks in a page's batch
    MaxCommands, \* bound: commands of the pages
    Cash,        \* amounts the exchange may answer
    Regimes      \* regimes a scan may find

Scanner == "scanner"

ASSUME SessionRegistryAssumption ==
    /\ Ids \subseteq Nat /\ IsFiniteSet(Ids)
    /\ Taken \subseteq Ids
    /\ MaxBatch \in Nat \ {0}
    /\ MaxCommands \in Nat
    /\ Cash \subseteq Nat
    /\ Stocks # {}
    /\ Regimes \subseteq [on : BOOLEAN, slots : Nat, amount : Nat, clusters : BOOLEAN]
    /\ Scanner \notin Pages

Writers == Pages \cup {Scanner}

VARIABLES
    row,      \* the session rows
    cmd,      \* where each writer is
    scan,     \* the scheduled scan
    commands  \* commands the pages may still give

registryVars == <<row, cmd, scan, commands>>

(* by: who configured the session last: strategy, exits, amount. *)
Row == [stock: Stocks, status: {"active", "paused", "stopped"},
        reason: {"none", "manual", "autoSell"}, scheduled: BOOLEAN, held: BOOLEAN,
        by: {"user", "scan"}]
NoRow == [status |-> "none"]

Orders == {"pause", "resume", "edit", "stop", "delete"}
Policies == {"ask", "update", "skip"}

(* id and seen: the row the writer read; todo and policy: the rest of its batch; asked: the stocks *)
(* a conflict was reported for.                                                                    *)
NoCommand == [op |-> "none", at |-> "idle", id |-> 0, seen |-> NoRow, todo |-> <<>>,
              policy |-> [s \in Stocks |-> "ask"], asked |-> {}]

(* stale: sessions the cleanup looks at; excluded: stocks left out of the scan; then, as read   *)
(* when the result arrived: manual sessions, active stocks (base), those of them whose sector is *)
(* known (counted) and paused sessions with their stocks; then what was decided, and the stocks  *)
(* opened so far (history).                                                                      *)
NoScan == [at |-> "off", stale |-> {}, excluded |-> {}, manual |-> {}, base |-> {}, counted |-> {},
           paused |-> {}, regime |-> NoScaling, picked |-> <<>>, cash |-> 0, given |-> <<>>,
           resume |-> <<>>, start |-> <<>>, opened |-> {}]

(* One scan in a behaviour; after the last step nothing is looked at again. *)
ScanEnded == [NoScan EXCEPT !.at = "done"]

Exists(i) == row[i].status # "none"
ActiveRows(r, s) == {i \in Ids : r[i].status = "active" /\ r[i].stock = s}
Active(s) == ActiveRows(row, s)
ActiveStocks == {s \in Stocks : Active(s) # {}}

(* Rows as the program leaves them, before anything is bought. *)
Plausible(r) ==
    /\ \A s \in Stocks : Cardinality(ActiveRows(r, s)) <= 1
    /\ \A i \in Taken :
        /\ (r[i].reason = "none") <=> (r[i].status # "paused")
        /\ r[i].status = "stopped" => ~r[i].scheduled
        /\ ~r[i].held
        /\ r[i].by = IF r[i].scheduled THEN "scan" ELSE "user"

RegistryInit ==
    /\ row \in {[i \in Ids |-> IF i \in Taken THEN r[i] ELSE NoRow] : r \in [Taken -> Row]}
    /\ Plausible(row)
    /\ cmd = [w \in Writers |-> NoCommand]
    /\ scan = NoScan
    /\ commands = MaxCommands

-----------------------------------------------------------------------------
(* The database. *)

(* An id nobody holds. *)
Unused(i) ==
    /\ ~Exists(i)
    /\ \A w \in Writers : cmd[w].id # i
    /\ i \notin scan.stale \cup scan.manual \cup Range(scan.resume) \cup {q.id : q \in scan.paused}
Fresh == {i \in Ids : Unused(i)}

(* What a flush leaves in a row that was read as seen and changed to new. *)
Written(r, seen, new) ==
    IF r = NoRow THEN NoRow ELSE [f \in DOMAIN r |-> IF new[f] # seen[f] THEN new[f] ELSE r[f]]

(* auto_trading_sessions_user_stock_active_uniq *)
Accepted(rows) == \A s \in Stocks : Cardinality(ActiveRows(rows, s)) <= 1

Flushed(i, seen, new) == [row EXCEPT ![i] = Written(@, seen, new)]

-----------------------------------------------------------------------------
(* startSessions and startSession.  A page sends a batch, perhaps after asking the user about the  *)
(* stocks that have a session; the scanner sends its batch with the policy "update" for each.      *)

Batches == {b \in UNION {[1 .. n -> Stocks] : n \in 1 .. MaxBatch} : IsInjective(b)}

SubmitSessions(p) ==
    /\ commands > 0
    /\ cmd[p].at = "idle"
    /\ \E b \in Batches : cmd' = [cmd EXCEPT ![p] = [NoCommand EXCEPT !.op = "batch",
                                                                      !.at = "check", !.todo = b]]
    /\ commands' = commands - 1
    /\ UNCHANGED <<row, scan>>

Conflicts(w) == {s \in Range(cmd[w].todo) : cmd[w].policy[s] = "ask" /\ Active(s) # {}}

CheckConflicts(w) ==
    /\ cmd[w].at = "check"
    /\ cmd' = [cmd EXCEPT ![w].at = IF Conflicts(w) = {} THEN "find" ELSE "conflict",
                          ![w].asked = Conflicts(w)]
    /\ UNCHANGED <<row, scan, commands>>

(* Where a writer goes after the first stock of its batch. *)
Following(c) ==
    IF Len(c.todo) = 1
      THEN NoCommand
      ELSE [c EXCEPT !.at = "find", !.todo = Tail(@), !.id = 0, !.seen = NoRow]

FindSession(w) ==
    LET s == Head(cmd[w].todo)
    IN  /\ cmd[w].at = "find"
        /\ \/ /\ Active(s) = {}
              /\ cmd' = [cmd EXCEPT ![w].at = "create"]
           \/ \E i \in Active(s) :
                cmd' = [cmd EXCEPT ![w] =
                          CASE cmd[w].policy[s] = "skip" -> Following(@)
                            [] cmd[w].policy[s] = "update" ->
                                 [@ EXCEPT !.at = "overwrite", !.id = i, !.seen = row[i]]
                            [] OTHER -> [@ EXCEPT !.at = "conflict", !.asked = {s}]]
        /\ UNCHANGED <<row, scan, commands>>

Opened(w, s) == [scan EXCEPT !.opened = IF w = Scanner THEN @ \cup {s} ELSE @]

NewRow(w, s) == [stock |-> s, status |-> "active", reason |-> "none", scheduled |-> w = Scanner,
                 held |-> FALSE, by |-> IF w = Scanner THEN "scan" ELSE "user"]

(* The name and the strategy are resolved between the search and the insert.  A refused insert *)
(* ends the whole batch; what it started before stays.                                          *)
CreateSession(w) ==
    LET s == Head(cmd[w].todo)
        i == Min(Fresh)
        rows == [row EXCEPT ![i] = NewRow(w, s)]
    IN  /\ cmd[w].at = "create"
        /\ Fresh # {}
        /\ IF Accepted(rows)
             THEN row' = rows /\ cmd' = [cmd EXCEPT ![w] = Following(@)] /\ scan' = Opened(w, s)
             ELSE cmd' = [cmd EXCEPT ![w] = NoCommand] /\ UNCHANGED <<row, scan>>
        /\ UNCHANGED commands

(* A page's batch never carries scheduledScan: the controller removes it. *)
Overwriting(w, seen) ==
    [seen EXCEPT !.by = IF w = Scanner THEN "scan" ELSE "user",
                 !.scheduled = w = Scanner \/ @]

OverwriteSession(w) ==
    /\ cmd[w].at = "overwrite"
    /\ row' = Flushed(cmd[w].id, cmd[w].seen, Overwriting(w, cmd[w].seen))
    /\ cmd' = [cmd EXCEPT ![w] = Following(@)]
    /\ UNCHANGED <<scan, commands>>

(* SessionConflictModal: an action for each conflict, and the batch is sent again. *)
ConfirmConflict(p) ==
    /\ cmd[p].at = "conflict"
    /\ \E action \in [cmd[p].asked -> {"update", "skip"}] :
         cmd' = [cmd EXCEPT ![p].at = "check", ![p].asked = {},
                            ![p].policy = [s \in Stocks |-> IF s \in cmd[p].asked THEN action[s]
                                                              ELSE @[s]]]
    /\ UNCHANGED <<row, scan, commands>>

CancelConflict(p) ==
    /\ cmd[p].at = "conflict"
    /\ cmd' = [cmd EXCEPT ![p] = NoCommand]
    /\ UNCHANGED <<row, scan, commands>>

-----------------------------------------------------------------------------
(* pauseSession, resumeSession, updateSession, stopSession, deleteSession. *)

(* getSession, and what updateSession and deleteSession refuse. *)
Allowed(op, r) ==
    /\ r # NoRow
    /\ op = "edit" => r.status # "stopped"
    /\ op = "delete" => r.status = "stopped"

GiveOrder(p, op, i) ==
    /\ commands > 0
    /\ cmd[p].at = "idle"
    /\ Allowed(op, row[i])
    /\ cmd' = [cmd EXCEPT ![p] = [@ EXCEPT !.op = op, !.at = "write", !.id = i, !.seen = row[i]]]
    /\ commands' = commands - 1
    /\ UNCHANGED <<row, scan>>

Commanded(w, op, r) ==
    CASE op = "pause" -> [r EXCEPT !.status = "paused", !.reason = "manual"]
      [] op = "resume" -> [r EXCEPT !.status = "active", !.reason = "none"]
      [] op = "stop" -> [r EXCEPT !.status = "stopped", !.reason = "none", !.scheduled = FALSE]
      [] op = "edit" -> [r EXCEPT !.by = IF w = Scanner THEN "scan" ELSE "user",
                                  !.scheduled = w = Scanner]

Carried(w) ==
    IF cmd[w].op = "delete"
      THEN [row EXCEPT ![cmd[w].id] = NoRow]
      ELSE Flushed(cmd[w].id, cmd[w].seen, Commanded(w, cmd[w].op, cmd[w].seen))

(* The scanner resumes a session it has updated; a refused flush ends the command. *)
AfterOrder(w) ==
    IF w = Scanner /\ cmd[w].op = "edit"
      THEN [NoCommand EXCEPT !.op = "resume", !.at = "read", !.id = cmd[w].id]
      ELSE NoCommand

CarryOut(w) ==
    /\ cmd[w].at = "write"
    /\ IF Accepted(Carried(w))
         THEN /\ row' = Carried(w)
              /\ cmd' = [cmd EXCEPT ![w] = AfterOrder(w)]
              /\ scan' = IF cmd[w].op = "resume" /\ row'[cmd[w].id].status = "active"
                           THEN Opened(w, cmd[w].seen.stock) ELSE scan
         ELSE cmd' = [cmd EXCEPT ![w] = NoCommand] /\ UNCHANGED <<row, scan>>
    /\ UNCHANGED commands

-----------------------------------------------------------------------------
(* The session's own life, in steps of AutoTrading. *)

EntryFilled(i) ==
    /\ row[i].status = "active" /\ ~row[i].held
    /\ row' = [row EXCEPT ![i].held = TRUE]
    /\ UNCHANGED <<cmd, scan, commands>>

ExitFilled(i) ==
    /\ row[i].status = "active" /\ row[i].held
    /\ row' = [row EXCEPT ![i].held = FALSE, ![i].status = "paused", ![i].reason = "autoSell"]
    /\ UNCHANGED <<cmd, scan, commands>>

-----------------------------------------------------------------------------
(* The scheduled scan. *)

ManualRows == {i \in Ids : Exists(i) /\ ~row[i].scheduled}

(* Mutant: the cleanup does not ask whether a session is scheduled. *)
StaleOrManual == {i \in Ids : Exists(i) /\ row[i].status \in {"active", "paused"}}

(* The sessions the cleanup looks at. *)
Stale == {i \in Ids : Exists(i) /\ row[i].scheduled /\ row[i].status \in {"active", "paused"}}

(* requestScan, up to the balance that the cleanup asks for. *)
FindStale ==
    /\ scan.at = "off"
    /\ scan' = [NoScan EXCEPT !.at = "cleanup", !.stale = Stale, !.manual = ManualRows]
    /\ UNCHANGED <<row, cmd, commands>>

(* Stocks with an active or a manual session are not scanned. *)
Excluded(rows) ==
    {rows[i].stock : i \in {j \in Ids : /\ rows[j] # NoRow
                                        /\ rows[j].status = "active" \/ ~rows[j].scheduled}}

(* removeStaleScheduledScanSessions; without a balance nothing is removed. *)
RemoveStaleSessions ==
    /\ scan.at = "cleanup"
    /\ \E removed \in {{}, {i \in scan.stale : Exists(i) /\ ~row[i].held}} :
         row' = [i \in Ids |-> IF i \in removed THEN NoRow ELSE row[i]]
    /\ scan' = [scan EXCEPT !.at = "scanning", !.stale = {}, !.excluded = Excluded(row')]
    /\ UNCHANGED <<cmd, commands>>

(* manualCodes: whatever their status. *)
Protected == {row[i].stock : i \in ManualRows}

(* pausedByCode: the sessions the scan may resume. *)
Resumable ==
    {[id |-> i, stock |-> row[i].stock] :
        i \in {j \in Ids : /\ Exists(j) /\ row[j].scheduled
                                           /\ row[j].status = "paused"
                                           /\ row[j].reason = "autoSell"}}

Rankings(stocks) ==
    {b \in UNION {[1 .. n -> stocks] : n \in 0 .. Cardinality(stocks)} : IsInjective(b)}

(* The result arrives: applyScanResults reads the sessions once and filters the candidates.  The *)
(* sectors of active stocks come from a query that may fail.                                     *)
ChooseCandidates ==
    /\ scan.at = "scanning"
    /\ \E ranked \in Rankings(Stocks \ scan.excluded), regime \in Regimes,
          counted \in {{}, ActiveStocks} :
         scan' = [NoScan EXCEPT
                    !.at = "picked", !.manual = ManualRows, !.base = ActiveStocks,
                    !.counted = counted, !.paused = Resumable, !.regime = regime,
                    !.picked = FilterCandidates(Among(ranked, Stocks \ Protected),
                                                ActiveStocks, counted, regime)]
    /\ UNCHANGED <<row, cmd, commands>>

(* One paused session for every stock that has one. *)
PausedByStock ==
    LET stocks == {q.stock : q \in scan.paused}
    IN  {f \in [stocks -> {q.id : q \in scan.paused}] :
           \A s \in stocks : [id |-> f[s], stock |-> s] \in scan.paused}

(* fetchAvailableCash and the division of the cash. *)
AllotCash ==
    /\ scan.at = "picked"
    /\ \E cash \in Cash, paused \in PausedByStock :
         LET budget == AllocatedBudget(cash, scan.regime)
             chosen == Affordable(budget, scan.picked)
             again == Among(chosen, DOMAIN paused)
         IN  scan' = IF cash = 0 \/ chosen = <<>>
                       THEN ScanEnded
                       ELSE [scan EXCEPT
                               !.at = "apply", !.picked = <<>>, !.paused = {}, !.cash = cash,
                               !.given = Investments(chosen, budget),
                               !.resume = [k \in DOMAIN again |-> paused[again[k]]],
                               !.start = Among(chosen, Stocks \ DOMAIN paused)]
    /\ UNCHANGED <<row, cmd, commands>>

ScannerFree == scan.at = "apply" /\ cmd[Scanner].at = "idle"

(* Each session to resume is updated first, what it may invest with it, and resumed then, each with *)
(* a read of its own; one that is gone or stopped is passed over.                                   *)
UpdateForResume ==
    LET i == Head(scan.resume)
    IN  /\ ScannerFree /\ scan.resume # <<>>
        /\ cmd' = IF Allowed("edit", row[i])
                    THEN [cmd EXCEPT ![Scanner] = [@ EXCEPT !.op = "edit", !.at = "write", !.id = i,
                                                            !.seen = row[i]]]
                    ELSE cmd
        /\ scan' = [scan EXCEPT !.resume = Tail(@), !.cash = 0, !.given = <<>>]
        /\ UNCHANGED <<row, commands>>

ReadForResume ==
    LET i == cmd[Scanner].id
    IN  /\ cmd[Scanner].at = "read"
        /\ cmd' = IF Exists(i) THEN [cmd EXCEPT ![Scanner].at = "write", ![Scanner].seen = row[i]]
                  ELSE [cmd EXCEPT ![Scanner] = NoCommand]
        /\ UNCHANGED <<row, scan, commands>>

StartScanned ==
    /\ ScannerFree /\ scan.resume = <<>> /\ scan.start # <<>>
    /\ cmd' = [cmd EXCEPT ![Scanner] = [@ EXCEPT !.op = "batch", !.at = "check", !.todo = scan.start,
                                                 !.policy = [s \in Stocks |-> "update"]]]
    /\ scan' = [scan EXCEPT !.start = <<>>, !.cash = 0, !.given = <<>>]
    /\ UNCHANGED <<row, commands>>

ScanApplied ==
    /\ ScannerFree /\ scan.resume = <<>> /\ scan.start = <<>>
    /\ scan' = ScanEnded
    /\ UNCHANGED <<row, cmd, commands>>

-----------------------------------------------------------------------------
ScannerNext ==
    \/ FindStale \/ RemoveStaleSessions \/ ChooseCandidates \/ AllotCash
    \/ UpdateForResume \/ ReadForResume \/ StartScanned \/ ScanApplied

RegistryNext ==
    \/ \E w \in Writers : \/ CheckConflicts(w) \/ FindSession(w) \/ CreateSession(w)
                          \/ OverwriteSession(w) \/ CarryOut(w)
    \/ \E p \in Pages : \/ SubmitSessions(p) \/ ConfirmConflict(p) \/ CancelConflict(p)
                        \/ \E op \in Orders, i \in Ids : GiveOrder(p, op, i)
    \/ \E i \in Ids : EntryFilled(i) \/ ExitFilled(i)
    \/ ScannerNext

RegistrySpec == RegistryInit /\ [][RegistryNext]_registryVars

-----------------------------------------------------------------------------
CommandType ==
    [op : Orders \cup {"none", "batch"},
     at : {"idle", "check", "find", "create", "overwrite", "conflict", "read", "write"},
     id : Ids \cup {0}, seen : Row \cup {NoRow}, todo : Seq(Stocks),
     policy : [Stocks -> Policies], asked : SUBSET Stocks]

ScanType ==
    [at : {"off", "cleanup", "scanning", "picked", "apply", "done"},
     stale : SUBSET Ids, excluded : SUBSET Stocks, manual : SUBSET Ids,
     base : SUBSET Stocks, counted : SUBSET Stocks,
     paused : SUBSET [id : Ids, stock : Stocks], regime : Regimes \cup {NoScaling},
     picked : Seq(Stocks), cash : Nat, given : Seq(Nat),
     resume : Seq(Ids), start : Seq(Stocks), opened : SUBSET Stocks]

(* Every variable keeps its type: rows, commands and the scan's fields. *)
RegistryTypeOK ==
    /\ row \in [Ids -> Row \cup {NoRow}]
    /\ cmd \in [Writers -> CommandType]
    /\ scan \in ScanType
    /\ commands \in 0 .. MaxCommands

BeyondCap(opened, before, cap) == Cardinality(before \cup opened) > Max({cap, Cardinality(before)})

(* The diversification filter of applyScanResults: with the sessions that were active when the    *)
(* result arrived, those the scan opens exceed neither the holdings limit of the regime nor the   *)
(* sector's, however many resumes and starts fail or meet sessions of the user in between; what    *)
(* they may invest is within the cash the exchange reported, and nobody's share is negative.       *)
Diversified ==
    /\ ~BeyondCap(scan.opened, scan.base, EffectiveMaxHoldings(scan.regime))
    /\ \A s \in scan.opened : Sector[s] # NoSector =>
         LET same(S) == {t \in S : Sector[t] = Sector[s]}
         IN  ~BeyondCap(same(scan.opened), same(scan.counted), MaxPerSector)
WithinCash ==
    /\ Total(scan.given) <= scan.cash
    /\ \A k \in DOMAIN scan.given : scan.given[k] >= 0
ScanWithinLimits == scan.at = "apply" => Diversified /\ WithinCash

ScannerStep == scan' # scan \/ cmd'[Scanner] # cmd[Scanner]

(* requestScan and applyScanResults leave manual sessions alone whatever their status: no step of *)
(* the scan changes or deletes a session that was manual when the scan last read the sessions,     *)
(* whatever the user does with it meanwhile.                                                       *)
ManualRowsUntouched == [][ScannerStep => \A i \in scan.manual : row'[i] = row[i]]_registryVars

=============================================================================
