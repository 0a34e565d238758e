--------------------------- MODULE StockCollection ---------------------------
(* The daily prices that every study is made from (StockService of the market data service): the    *)
(* stocks of the KRX list are collected from Yahoo Finance one after the other, at 17:00 on working  *)
(* days, at the start of a service that is behind and when a page asks for it. A save point per      *)
(* stock says how far it is collected. Nothing keeps two collections apart, and the service may end  *)
(* between any two of its writes. Stocks that are gone from the list for several collections are     *)
(* taken for delisted and keep their prices longer.                                                  *)
(*                                                                                                   *)
(* Dates are written as ages: 0 is today, and the end of a day makes every date one day older. Ages  *)
(* above Retention are not told apart. Stocks are traded on every working day; Yahoo may have a row  *)
(* without a close for one. Names, sectors, progress and the cached list of stocks are left out.     *)
EXTENDS Integers, FiniteSets, FiniteSetsExt

CONSTANTS
    Stocks,         \* the codes, as numbers: a collection takes them in the order of the list
    Lists,          \* the contents krx_codes.csv may have
    Runs,           \* the collections that may overlap, as numbers
    Lookback,       \* COLLECTION_LOOKBACK_MONTHS, in days
    Slack,          \* the seven days needsLookbackBackfill allows for
    Retention,      \* DELISTED_RETENTION_MONTHS, in days
    ConfirmDays,    \* SURVIVORSHIP_DELIST_CONFIRM_DAYS
    Week,           \* the days of a week
    Closed          \* the days of a week without trading

ASSUME CollectionAssumption ==
    /\ Stocks \subseteq Nat /\ IsFiniteSet(Stocks) /\ Lists \subseteq SUBSET Stocks
    /\ Slack \in 0 .. Lookback /\ Lookback \in 0 .. Retention /\ Retention \in Nat
    /\ ConfirmDays \in Nat \ {0}
    /\ Week \in Nat \ {0} /\ Closed \subseteq 0 .. (Week - 1)

VARIABLES
    weekday,        \* today's place in the week
    evening,        \* it is past 17:00 in Seoul
    asked,          \* a page has asked for a collection today
    up,             \* the service runs
    retain,         \* SURVIVORSHIP_RETAIN_DELISTED, off by default
    csv,            \* krx_codes.csv
    rows,           \* the table of stocks
    prices,         \* the stored daily prices, per stock
    savepoint,      \* stock_collection_savepoints
    healthy,        \* lastHealthyCsvCount
    run,            \* the collections under way
    holes           \* history: per stock, days a save point has passed because Yahoo had no close for them

calendar == <<weekday, evening, asked>>
tables == <<rows, prices, savepoint>>
vars == <<calendar, up, retain, csv, tables, healthy, run, holes>>

None == -1
Older(age) == IF age = None THEN None ELSE Min({age + 1, Retention + 1})
IsOpen(age) == (weekday - age) % Week \notin Closed

Absent == [known |-> FALSE, seen |-> None, missing |-> 0, delisted |-> None]
IdleRun == [pc |-> "idle", todo |-> {}, loaded |-> [s \in Stocks |-> Absent], from |-> 0,
            savepoint |-> None, new |-> {}, blank |-> {}]

Init ==
    /\ weekday = 0 /\ evening = FALSE /\ asked = FALSE /\ up = FALSE
    /\ retain \in BOOLEAN /\ csv = Stocks
    /\ rows = [s \in Stocks |-> Absent]
    /\ prices = [s \in Stocks |-> {}]
    /\ savepoint = [s \in Stocks |-> None]
    /\ healthy = None
    /\ run = [r \in Runs |-> IdleRun]
    /\ holes = [s \in Stocks |-> {}]

------------------------------------------------------------------------------
(* When a collection starts.                                                                         *)

(* The list is read once; the stocks are loaded for the reconciliation. *)
Begun == [IdleRun EXCEPT !.pc = "loaded", !.todo = csv, !.loaded = rows]
CollectAll == \E r \in Runs :
    /\ r = Min({q \in Runs : run[q].pc = "idle"} \cup {Max(Runs)}) /\ run[r].pc = "idle"
    /\ run' = [run EXCEPT ![r] = Begun]

(* The last working day whose 17:00 has passed. *)
CollectionTarget == Min({age \in 0 .. Week : IsOpen(age) /\ (age = 0 => evening)})

(* The youngest save point of all stocks decides: one stock that is behind does not count. *)
NeedsCatchUp ==
    LET saved == {savepoint[s] : s \in Stocks} \ {None}
        stored == UNION {prices[s] : s \in Stocks} IN
    \/ saved = {} \/ Min(saved) > CollectionTarget
    \/ stored = {} \/ Max(stored) < Lookback - Slack

StartService ==
    /\ ~up /\ up' = TRUE
    /\ IF (\E s \in csv : savepoint[s] = None) \/ NeedsCatchUp THEN CollectAll
       ELSE run' = run
    /\ UNCHANGED <<calendar, retain, csv, tables, healthy, holes>>

(* The job of 17:00. It is lost while the service is down, and it does not wait for a collection     *)
(* that a page has asked for.                                                                        *)
Five ==
    /\ ~evening /\ evening' = TRUE
    /\ IF up /\ IsOpen(0) THEN CollectAll ELSE run' = run
    /\ UNCHANGED <<weekday, asked, up, retain, csv, tables, healthy, holes>>

(* The button of the page, which knows the state of ten seconds ago. A page asks once a day here. *)
AskForCollection ==
    /\ up /\ ~asked /\ asked' = TRUE
    /\ CollectAll
    /\ UNCHANGED <<weekday, evening, up, retain, csv, tables, healthy, holes>>

------------------------------------------------------------------------------
(* The stocks that are gone.                                                                         *)

(* How many stocks the last reconciliation saw: kept in memory, else read off the table. *)
PreviousCount(loaded) ==
    LET seen == {s \in Stocks : loaded[s].known /\ loaded[s].seen # None}
        last == Min({loaded[s].seen : s \in seen}) IN
    IF healthy # None THEN healthy
    ELSE IF seen = {} THEN 0 ELSE Cardinality({s \in seen : loaded[s].seen = last})

Damaged(r) == 2 * Cardinality(run[r].todo) < PreviousCount(run[r].loaded)

(* Mutant: a stock that is back in the list stays delisted. *)
JudgedForGood(row, listed) ==
    IF listed THEN [row EXCEPT !.seen = 0, !.missing = 0]
    ELSE LET missing == Min({row.missing + 1, ConfirmDays}) IN
         [row EXCEPT !.missing = missing,
                     !.delisted = IF missing < ConfirmDays \/ row.delisted # None THEN row.delisted
                                  ELSE IF row.seen = None THEN 0 ELSE row.seen]

Judged(row, listed) ==
    IF listed THEN [row EXCEPT !.seen = 0, !.missing = 0, !.delisted = None]
    ELSE LET missing == Min({row.missing + 1, ConfirmDays}) IN
         [row EXCEPT !.missing = missing,
                     !.delisted = IF missing < ConfirmDays \/ row.delisted # None THEN row.delisted
                                  ELSE IF row.seen = None THEN 0 ELSE row.seen]

(* Only the columns that were changed are written. *)
Written(row, old, new) ==
    [f \in DOMAIN row |-> IF new[f] # old[f] THEN new[f] ELSE row[f]]

Reconciled(r) ==
    LET loaded == run[r].loaded IN
    [s \in Stocks |->
        IF ~loaded[s].known THEN rows[s]
        ELSE Written(rows[s], loaded[s], Judged(loaded[s], s \in run[r].todo))]

Reconcile(r) ==
    /\ run[r].pc = "loaded"
    /\ run' = [run EXCEPT ![r].pc = "next", ![r].loaded = IdleRun.loaded]
    /\ IF ~retain \/ Damaged(r) THEN rows' = rows /\ healthy' = healthy
       ELSE rows' = Reconciled(r) /\ healthy' = Cardinality(run[r].todo)
    /\ prices' = [s \in Stocks |->
                    IF ~retain \/ rows'[s].delisted = None THEN prices[s]
                    ELSE {age \in prices[s] : age <= Retention}]
    /\ UNCHANGED <<calendar, up, retain, csv, savepoint, holes>>

(* An error of the reconciliation does not stop the collection. *)
ReconcileFails(r) ==
    /\ run[r].pc = "loaded"
    /\ run' = [run EXCEPT ![r].pc = "next", ![r].loaded = IdleRun.loaded]
    /\ UNCHANGED <<calendar, up, retain, csv, tables, healthy, holes>>

------------------------------------------------------------------------------
(* One stock.                                                                                        *)

Current(r) == Min(run[r].todo)
NextStock(r) == [run[r] EXCEPT !.pc = "next", !.todo = @ \ {Current(r)}, !.from = 0, !.savepoint = None,
                               !.new = {}, !.blank = {}]

(* collectStock, between its awaits: the row of the stock, the prices in front of the window, the    *)
(* save point and the oldest price.                                                                  *)
FindStock(r) ==
    /\ run[r].pc = "next" /\ run[r].todo # {}
    /\ run' = [run EXCEPT ![r].pc = IF rows[Current(r)].known THEN "trim" ELSE "insert"]
    /\ UNCHANGED <<calendar, up, retain, csv, tables, healthy, holes>>

(* The insert fails if another collection has come first. *)
InsertStock(r) ==
    /\ run[r].pc = "insert"
    /\ LET s == Current(r) IN
       /\ rows' = [rows EXCEPT ![s].known = TRUE]
       /\ run' = [run EXCEPT ![r] = IF rows[s].known THEN NextStock(r) ELSE [@ EXCEPT !.pc = "trim"]]
    /\ UNCHANGED <<calendar, up, retain, csv, prices, savepoint, healthy, holes>>

TrimPrices(r) ==
    /\ run[r].pc = "trim"
    /\ prices' = [prices EXCEPT ![Current(r)] = {age \in @ : age <= Lookback}]
    /\ run' = [run EXCEPT ![r].pc = "savepoint"]
    /\ UNCHANGED <<calendar, up, retain, csv, rows, savepoint, healthy, holes>>

FindSavepoint(r) ==
    /\ run[r].pc = "savepoint"
    /\ run' = [run EXCEPT ![r].pc = "oldest", ![r].savepoint = savepoint[Current(r)]]
    /\ UNCHANGED <<calendar, up, retain, csv, tables, healthy, holes>>

(* The day to fetch from: the one after the save point, or the whole window if its start is missing. *)
FetchFrom(stored, saved) ==
    IF saved # None /\ stored # {} /\ Max(stored) >= Lookback /\ saved - 1 < Lookback THEN saved - 1
    ELSE Lookback

FindOldestPrice(r) ==
    /\ run[r].pc = "oldest"
    /\ LET from == FetchFrom(prices[Current(r)], run[r].savepoint) IN
       run' = [run EXCEPT ![r] = IF \E age \in 0 .. from : IsOpen(age)
                                 THEN [@ EXCEPT !.pc = "asking", !.from = from] ELSE NextStock(r)]
    /\ UNCHANGED <<calendar, up, retain, csv, tables, healthy, holes>>

(* Yahoo's rows up to a day. *)
Candles(from, last) == {age \in last .. from : IsOpen(age)}

(* Rows without a close are passed over; days that are not stored yet are new. *)
YahooAnswers(r, last, blank) ==
    /\ run[r].pc = "asking" /\ blank \subseteq Candles(run[r].from, last)
    /\ LET new == (Candles(run[r].from, last) \ blank) \ prices[Current(r)] IN
       run' = [run EXCEPT ![r] = IF new = {} THEN NextStock(r)
                                 ELSE [@ EXCEPT !.pc = "found", !.new = new, !.blank = blank]]
    /\ UNCHANGED <<calendar, up, retain, csv, tables, healthy, holes>>

(* Three attempts, and the stock waits for the next collection. *)
YahooFails(r) ==
    /\ run[r].pc = "asking"
    /\ run' = [run EXCEPT ![r] = NextStock(r)]
    /\ UNCHANGED <<calendar, up, retain, csv, tables, healthy, holes>>

(* One statement for all new prices: it fails if another collection has stored one of them. *)
StorePrices(r) ==
    /\ run[r].pc = "found"
    /\ LET s == Current(r) IN
       IF run[r].new \cap prices[s] = {}
       THEN /\ prices' = [prices EXCEPT ![s] = @ \cup run[r].new]
            /\ holes' = [holes EXCEPT ![s] = @ \ run[r].new]
            /\ run' = [run EXCEPT ![r].pc = "stored"]
       ELSE prices' = prices /\ holes' = holes /\ run' = [run EXCEPT ![r] = NextStock(r)]
    /\ UNCHANGED <<calendar, up, retain, csv, rows, savepoint, healthy>>

(* The save point is compared with the one that was loaded; the days behind it that Yahoo had no     *)
(* close for are holes now, unless they are stored.                                                  *)
MoveSavepoint(r, last) ==
    LET s == Current(r)
        old == run[r].savepoint IN
    IF (old = None /\ savepoint[s] = None) \/ (old # None /\ last < old)
    THEN /\ savepoint' = [savepoint EXCEPT ![s] = last]
         /\ holes' = [holes EXCEPT ![s] = @ \cup ({age \in run[r].blank : last < age} \ prices[s])]
    ELSE savepoint' = savepoint /\ holes' = holes

(* Mutant: the save point is the day of the collection. *)
SaveSavepointOfToday(r) ==
    /\ run[r].pc = "stored"
    /\ MoveSavepoint(r, 0)
    /\ run' = [run EXCEPT ![r] = NextStock(r)]
    /\ UNCHANGED <<calendar, up, retain, csv, rows, prices, healthy>>

(* The save point is the last day stored just now. *)
SaveSavepoint(r) ==
    /\ run[r].pc = "stored"
    /\ \E last \in run[r].new :
          (\A age \in run[r].new : last <= age) /\ MoveSavepoint(r, last)
    /\ run' = [run EXCEPT ![r] = NextStock(r)]
    /\ UNCHANGED <<calendar, up, retain, csv, rows, prices, healthy>>

Finish(r) ==
    /\ run[r].pc = "next" /\ run[r].todo = {}
    /\ run' = [run EXCEPT ![r] = IdleRun]
    /\ UNCHANGED <<calendar, up, retain, csv, tables, healthy, holes>>

------------------------------------------------------------------------------
(* What happens to the service.                                                                      *)

Crash ==
    /\ up /\ up' = FALSE
    /\ run' = [r \in Runs |-> IdleRun]
    /\ healthy' = None
    /\ UNCHANGED <<calendar, retain, csv, tables, holes>>

(* The list is part of the build. *)
DeployList(list) ==
    /\ ~up /\ csv' = list
    /\ UNCHANGED <<calendar, up, retain, tables, healthy, run, holes>>

(* A collection takes far less than a day. *)
EndOfDay ==
    /\ evening /\ \A r \in Runs : run[r].pc = "idle"
    /\ weekday' = IF weekday + 1 = Week THEN 0 ELSE weekday + 1
    /\ evening' = FALSE /\ asked' = FALSE
    /\ rows' = [s \in Stocks |-> [rows[s] EXCEPT !.seen = Older(@), !.delisted = Older(@)]]
    /\ prices' = [s \in Stocks |-> {Older(age) : age \in prices[s]}]
    /\ savepoint' = [s \in Stocks |-> Older(savepoint[s])]
    /\ holes' = [s \in Stocks |-> {age + 1 : age \in {a \in holes[s] : a < Lookback}}]
    /\ UNCHANGED <<up, retain, csv, healthy, run>>

Progress(r) ==
    \/ Reconcile(r)
    \/ FindStock(r) \/ InsertStock(r) \/ TrimPrices(r) \/ FindSavepoint(r) \/ FindOldestPrice(r)
    \/ YahooAnswers(r, 0, {}) \/ StorePrices(r) \/ SaveSavepoint(r) \/ Finish(r)

Trouble ==
    \/ Crash
    \/ \E r \in Runs :
          \/ ReconcileFails(r) \/ YahooFails(r)
          \/ \E last \in 0 .. Lookback, blank \in SUBSET (0 .. Lookback) :
                <<last, blank>> # <<0, {}>> /\ YahooAnswers(r, last, blank)

Next ==
    \/ StartService \/ Five \/ AskForCollection \/ EndOfDay
    \/ \E r \in Runs : Progress(r)
    \/ \E list \in Lists : DeployList(list)
    \/ Trouble

(* Node runs what is due, the operator starts the service again, and days pass. *)
Fairness ==
    /\ WF_vars(StartService) /\ WF_vars(Five) /\ WF_vars(EndOfDay)
    /\ \A r \in Runs : WF_vars(Progress(r))

Spec == Init /\ [][Next]_vars /\ Fairness

------------------------------------------------------------------------------
Owed(s) == {age \in 0 .. Lookback : IsOpen(age)} \ prices[s]

(* Whatever is before a save point is stored, as far as the window reaches, or is a day Yahoo had a  *)
(* row without a close for, which collectStock passes over: a crash between its two writes, an       *)
(* answer that ends early and a second collection of the same stock leave no other day behind that   *)
(* the next collections would not fetch.                                                             *)
NoGapBelowSavepoint ==
    \A s \in Stocks : savepoint[s] = None \/ \A age \in Owed(s) \ holes[s] : age < savepoint[s]

(* Once nothing goes wrong any more (an answer without anything new is as good as none), no day ends *)
(* with a listed stock that lacks a price of the window or is still taken for delisted, although     *)
(* onModuleInit looks at the youngest save point only, overlapping collections fail on each other's  *)
(* rows, and a hole behind the save point is filled only when the window begins with a closed day.   *)
CatchesUp ==
    <>[][Trouble => \E r \in Runs : Progress(r)]_vars
        => <>[][EndOfDay => \A s \in csv : Owed(s) = {} /\ rows[s].delisted = None]_vars
==============================================================================
