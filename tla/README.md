# AlphaMind: formal models

TLA+ models of AlphaMind, a program that trades Korean stocks automatically: a NestJS
backend places and follows orders at the broker KIS, a market-data service collects prices,
selects stocks once a day and lets AI agents score them, a React frontend shows and starts
all this. The models are written from the source under `src/`; documents are used only as the
origin of properties.

Contents: [parts of the system](#1-the-system), [modules](#2-modules-and-the-code),
[runs](#3-what-the-runs-check), [proofs](#4-what-is-proved),
[divergences found](#5-where-the-code-and-its-documents-part),
[what is left out](#6-what-is-not-modelled), [plan](#7-plan).

To repeat a run: `tlc -workers 2 -config AutoTradingSafety.cfg MCAutoTrading.tla`; to
repeat the proofs of a module: `tlapm OrderLedgerProofs.tla`.

## 1. The system

Paths are relative to `src/apps/backend/src/` (B), `src/apps/market-data-service/src/` (M),
`src/apps/frontend/src/` (F) and `src/libs/strategies/src/` (L).

| Component | State it keeps | Operations that change it | Correct when |
|---|---|---|---|
| **Order ledger** B`kis/kis-order.service.ts`, and the order half of B`auto-trading/auto-trading.service.ts` | rows of `trade_history` (status, executedQuantity, trackingMode); polling timers in memory | `orderCash`, `modifyOrder`, `cancelOrder`, `saveHistory`, both report channels, `markOrderRejected`, the polling fallback, restore after a restart | each filled share reaches the position once, whichever channel reports it; an order that is over is closed |
| **Exit protocol of a session** B`auto-trading/auto-trading.service.ts` | the session row (status, autoPausePending, holdingQty, scaleOutStage); `sellInFlightSessionIds` | 30-second loop, price trigger, `executeSell`, `executeBuy`, `executeManualOrder`, balance sync, `reconcilePendingAutoPauses`, `applyConfirmedOrderExecution`, `pauseSessionAfterAutoSell`, user commands | one exit per position at a time; a session that waits for its exit is released; take-profit once |
| **Session registry** same file, controller, `scheduled-scanner.service.ts` | which sessions exist, their status and who configured them | start (one or many), pause, resume, edit, stop, delete; cleanup, resume and start by the scan | one active session per stock; the scan keeps its limits and leaves manual sessions alone |
| **Price cache and polling** same file | last prices, poll slots, failure delays, subscription retries | ticks, polling rounds, start and stop of a stock | every active stock gets a price |
| **Volatility hold** same file, `vi-state-tracker.ts` | halted stocks, held orders, timers | halted trades, release, timeout, re-evaluation | a held order is judged again |
| **Intraday scalping** B`auto-trading/intraday-scalping.ts` | candles and latest trade of each stock | a trade, clearing a stock | candles are today's; no signal from before a halt |
| **Scheduled scan** B`auto-trading/scheduled-scanner.service.ts`, M`strategy/*` | row `scheduled-ai-scan` of `scheduled_job_locks` | `triggerScan`, scan job, result events, claim, release | one scan at a time; a result applied once and in order; the row comes free |
| **Scan selection** same file | the decision of `applyScanResults` | caps, regime scaling, volatility weights, budgets | caps by slot, sector and cluster; the cash |
| **KIS websocket client** B`kis/kis-websocket.service.ts` | wanted topics, connection, notice-subscription state | connect, reconnect, subscribe, health checks | every wanted topic is subscribed again after a reconnect |
| **Browser gateways** B`kis/kis-websocket.gateway.ts`, B`auto-trading/auto-trading.gateway.ts` | subscribers per stock | subscribe, unsubscribe, disconnect | a topic stays while somebody needs it |
| **Quotations: Toss and KIS REST** B`kis/toss*.ts`, `quotation.service.ts`, `kis.service.ts`, `kis-rate-limiter.service.ts` | access tokens, breaker, token buckets with queues | `getLastPrice`, token issue, refusal and retry | a good token is kept; every request ends |
| **Stock collection** M`stock/`, `yahoo-finance/` | `stocks`, prices, save points, health count | reconcile, collect, save point, prune; at start, at 17:00, on request | no day below a save point is missing; a stock that is behind catches up |
| **Market scan and optimisation** M`strategy/` | parameter file with its cache, regime file | scan, walk-forward check, selection, grid search | best stocks chosen, windows sound, pair fresh, regime calm |
| **Backtest** M`strategy/backtest.service.ts` | position and money of one simulation | a candle: exits, then signal | sells at prices that existed; agrees with the engine |
| **AI scoring** M`ai-scoring/` | background sessions, agent processes | start, cancel, phases, stream | one session per user; no agent survives an abort; a page sees all scores |
| **Agent configuration** M`agent-config/` | `config.json`, credentials, `auth.json` | login, key, refresh, import | nothing stored meanwhile is lost |
| **Strategy library** L | none | regime, clusters, exits, scale-out; indicators | arithmetic |
| **KIS inquiries and journal**, **accounts**, **notifications**, **trading calendar** | rows | requests | sequential |
| **Frontend** F`pages/` | pages | the scanner page starts, changes and follows sessions and meetings | shows and commands the above |

How they interact:

* The engine (`AutoTradingService`) calls the order service for every order. KIS reports
  fills on two channels: the websocket emits an event that `handleOrderNotification` takes,
  and timers call `pollOrderExecutionFallback`. Both update the same `trade_history` row and
  then call `applyConfirmedOrderExecution`, which moves the session row.
- The loop, price ticks, HTTP requests and late handlers are tasks of one Node process: each
  runs alone until its next `await`, and any other may run there. So every model splits a
  handler at its awaits, never between them, wherever another task can see or change what is
  at stake there. Awaits that nothing else can tell apart are one step: those before a
  handler's first read, an answer from outside and the reads right behind it (in
  `StockCollection` Yahoo's answer and the query of the stored days), and those named with
  each module below.
* Backend instances and the market-data service share PostgreSQL and exchange events through
  RabbitMQ; the scan's lock row is the only thing that serialises them. The market-data
  service keeps its parameters, the regime and the credentials in files.
* A page of the scanner talks to both services, and two pages of one user do so at once.

The behaviours that are hard to get right, and to test: two report channels for one fill;
state read before an await and used after it (balances, open-order checks, sessions, tokens,
whole configuration files); a mark (`autoPausePending`, the sell lock, the lock row, a poll
slot, a save point) whose owner dies or is overtaken; faults in the middle of a handler;
restarts, which lose timers, locks and handlers but keep rows and files. `PROJECT.json` lists
them as hazards, each at its line and with the properties that watch it; the note of a hazard
says which part of it no property covers.

## 2. Modules and the code

| Module | Models | Extended by |
|---|---|---|
| `OrderLedger` | orders, their rows, both fill channels, the polling fallback | `MCOrderLedger`, `OrderLedgerProofs` |
| `PositionFeed` | abstract: what the ledger promises to the session | instantiated in `OrderLedger` |
| `AutoTrading` | one session's exits, entries, sync, pause and re-arm | `MCAutoTrading`, `AutoTradingProofs` |
| `ScanSelection` | the decision of `applyScanResults`: caps, regime, weights, budgets | `SessionRegistry` |
| `SessionRegistry` | all sessions of an account, the pages and the scan that change them | `MCScanAndSessions`, `SessionRegistryProofs` |
| `ScheduledScan` | the lock row, the scan job, the result events, the regime file | `MCScheduledScan`, `SessionRegistryProofs` |
| `KisWebSocket` | the websocket to KIS, reconnection, topics, notice subscription | `RealtimeFeed` |
| `RealtimeFeed` | `KisWebSocket` with the two that subscribe on it: engine and browser gateway | `MCRealtimeFeed`, `RealtimeFeedProofs` |
| `QuoteGate` | a current price from Toss or KIS: tokens, breaker, buckets, retries | `PricePolling` |
| `PricePolling` | `QuoteGate` with the round-robin poller that asks it | `MCPricePolling`, `PricePollingProofs` |
| `AgentConfig` | `config.json`, credentials, logins and refreshes | `AiScoring` |
| `AiScoring` | `AgentConfig` with background meetings, their agents, and the pages | `MCAiScoring`, `AiScoringProofs` |
| `ExitRules` | when a position is sold: the engine's rules and the backtest's, the scale-out ladder | `Backtest` |
| `Backtest` | the simulation of one stock, money included | `BacktestService` |
| `OptimalParams`, `WalkForward`, `MarketRegime`, `CorrelationClusters` | the grid search and its cached file; windows; regime label; union-find | `MarketScan` |
| `MarketScan` | a scan from its pair to its clusters, composed of the four | `BacktestService` |
| `BacktestService` | scan and simulation side by side | `MCBacktestService` (and with it `MCScanAndSessions`), `BacktestServiceProofs` |
| `StockCollection` | the calendar, overlapping collections, prices, save points, delisting | `MCStockCollection`, `StockCollectionProofs` |
| `ViHold` | halts of a stock, held orders, their re-evaluation | `StockTrades`, `PricePollingProofs` |
| `IntradayScalping` | one-minute candles and the entry signal | `StockTrades`, `PricePollingProofs` |
| `StockTrades` | what the engine does with each trade, composed of the two | `MCStockTrades` |

`PROJECT.json` ("map") gives the source lines of every definition.

### OrderLedger

One function per column or map of the code: `status` and `executed` are the row's `status`
and `executedQuantity`, `mode` its `metadata.trackingMode`, `timer` the map
`orderPollingTimers` with the attempt it carries. `phase` and `filled` are KIS's side of the
order. Handlers that have passed an await are counted (`found`, `recorded`: notice handlers
are interchangeable because each reports one unit) or have a program counter (`step`, one
poll per order at a time because a poll re-arms its timer when it ends). `via` is a history
variable: which channels have moved the row. An order fills in units; a unit is any lot that
KIS reports in one notice.

`NoticeLookup`, `RecordExecutionNotification` and `NoticeApply` are one notice handler split
at its two awaits; `PollFires` ... `PollFinishes` one poll; `Restart` is a new process with
`onModuleInit`. A notice is sent only while the subscription is up; one on its way is lost
when it goes. Faults are a constant set, so that a run says what it lets go wrong. A
modification gives the rest of an order a new number at KIS that no row has, so that its fills
are never recorded (`kis-order.service.ts:399`); the row of the original order is closed.

`PositionFeed` promises that the executed quantity only grows, never beyond the order, and
that each unit of growth is handed to the session at most once. `OrderLedger` implements it
with `held` as the units that handlers have recorded and not yet applied.

### AutoTrading

One session and its stock. `status`, `pending`, `holding`, `stage` are the session row
(`status`, `autoPausePending`, `holdingQty`, `scaleOutStage`), `lock` its membership in
`sellInFlightSessionIds`, `real` what the account holds at KIS. Tasks are runs of the loop,
price-triggered checks and manual orders, each with a program counter; `seen` is the local
value that a task carries over an await (a balance, or the open-order map). `executeSell`
becomes `ExecuteSell` (guards and lock), `OpenOrderFound`/`NoOpenOrder` (the awaited
check), `OrderAccepted`/`OrderRefused` (KIS) and `OrderSaved` (row, mark, unlock). Buys and
manual orders use the same placement without lock and mark, as in the code. The two that
re-arm a waiting session look for an open order (`RearmResidual`, `PauserHeld`) and clear the
mark one await later without looking again (`ReleaseResidual`, `PauserReleases`).

The order ledger is taken at its promise: rows record portions of what was filled, and each
portion is applied once. Whether the promise is kept is `OrderLedger`'s question. That a row
is reported at all is no promise: polling gives up, and an order watched by notices is not
polled, so a report may stop at any time (`ReportsEnd`, `unwatched`). Prices are
a choice of signal: any evaluation may find a full exit, TP1 or nothing. The TP1 quantity is
`computeScaleOutSellQty` at a ratio of one half; which rule fires is `ExitRules`' question.

Abstractions worth knowing. The session row is one copy: background handlers share one
identity map (`allowGlobalContext`), while HTTP requests have a context of their own whose
merge delay is not modelled here (`SessionRegistry` has it). Initially the session is active
and either holds the shares of the account or is new and empty.

### ScanSelection and SessionRegistry

`row` holds the session rows of one account, `cmd` where each writer is: the user's pages and
the scheduled scan. Every command is split where the code awaits: `CheckConflicts` (the
pre-check of `startSessions`), `FindSession` (the search of `startSession`), `CreateSession`
and `OverwriteSession` (the flush, which the partial unique index may refuse), `CarryOut` (the
flush of pause, resume, edit, stop and delete). A flush writes only the columns its command
changed, over whatever the row has become: that is MikroORM's change set. The scan's actions
follow `requestScan` (`FindStale`, `RemoveStaleSessions`), `applyScanResults` (`ChooseCandidates`
reads the sessions and decides by `ScanSelection`, `AllotCash` reads the cash, `UpdateForResume`,
`ReadForResume` and `StartScanned` carry the decision out, one stock after the other).
`EntryFilled` and `ExitFilled` are what `AutoTrading` does to a row.

`ScanSelection` has the filter of candidates as a recursive function along their ranking, and
the division of the cash by inverse volatility over a common denominator. Strategy, exits and amount of a
session are one value, `by`: who configured it last.

### ScheduledScan

`mark`, `holder` and `handler` are the `owner` column (the request id, or the handling mark
with request and instance), `lease` the time left until `locked_until`; the release sets it to
0. Each SQL statement is one action, because each is one atomic statement. `trigger`, `job`
and `inbox` follow a request through `triggerScan`, the market-data service and the queues of
every instance. A statement or an emit that fails may have failed before or after it took
effect. `base` and `regime` are the sample counts of `market_regime_state.json`: what a scan
read and what is in the file. Time is counted down, so the state space is finite without a
bound on the clock.

### KisWebSocket and RealtimeFeed

`ws`, `inFlight`, `timer`, `wanted`, `action`, `notice` are the fields `ws` (its
`readyState`), `connectInFlight`, `reconnectTimer`, `subscriptions`,
`pendingSubscriptionActions` and `orderNotificationSubscriptionState`; `waiting` says that
the promise of a notice subscription is not settled. `requests`, `kis` and `refused` are the
other side: the requests on the socket, what KIS delivers on this connection, and its last
answer. Each callback of the socket or of a timer is one action. A closing socket has left
"open" and its close event is still to come; the health check may run in between. A silent
socket is open but delivers nothing until a monitor gives it up, which it does after removing
the listeners: the close handler does not run and the notice flag stays.

KIS works off a topic's requests in their order; that it does so and that its answer is
handled are one action, because nothing the program does between the two depends on the
difference. `AnsweredAction` is the code's guess which request an answer belongs to: the last
one sent, whatever was answered.

`RealtimeFeed` adds the engine's sets (`activeStockCodes`, `pollingStockCodes`, the keys of
`subscriptionRetryTimers`) and the gateway's clients. `syncs` are the runs of
`syncStockActivity` whose query has been answered and that have not acted yet; they act in
any order. The gateway's `refCount` is the number of clients that have a topic in their set.
A restart of the process is an initial state. Abstractions: the engine's request for notices
(`ensureOrderNotificationTrackingReady`, not awaited at the start of monitoring) is an action
of its own that anyone may take at any time; a refusal of the HTS id, which KIS answers
without the topic's key, counts as an answer about the notice topic; clients subscribe prices
only.

### QuoteGate and PricePolling

`bucket` holds the three rate limiters (Toss logins, Toss market data, KIS), each with its
tokens and its FIFO queue; two timers refill them. `toss` has the fields of `TossService`
(token, whether it may still be used, `issuing` for the shared `tokenPromise`, failures,
breaker); `accepted` is the token Toss itself accepts. A request is a record that moves from
"asked" through "token", "market", "again", "kisToken" and "kis" to "price" or "nothing": one
place per await of `getLastPrice`. Prices are not told apart, nor the reasons for which Toss's
answer is of no use. KIS's token is cached until it expires; requests that find none each ask
for one of their own.

`PricePolling` has the maps of the poller: `polling` with `cursor` (the round-robin order),
`inFlight`, `failing`, and `later` for the stocks whose `nextPricePollAt` is still to come. A
stop of polling forgets the mark of a question that still runs, so that more than
`PRICE_POLL_MAX_IN_FLIGHT` may run; an answer that arrives later counts if the stock is active
again, and overwrites a newer tick. `Round` is the loop of `runPricePollingRound` as a
recursive function over its steps: the cursor it adds its counter to is moved by every question
it starts, so that a lap may pass a stock over (`PassesOver`). The first stock to be polled
starts the timer, with a round of its own (`Activate`).

### AgentConfig and AiScoring

`config`, `cred`, `authFile` and `pkce` are the files and the verifier in memory. The service
reads and writes files synchronously, so only three operations are split: the token refresh
(which writes back the whole configuration it read), the exchange of a login code and the
verification of a key. Tokens, logins and imported files are numbers in the order they arise.

A meeting is a record: `at` is the await it is in (authentication, chart, phases 1 to 3,
persisting), `running` and `closing` the agent processes the phase waits for, `orphans` those
of a failed phase that nobody waits for, `scores` what it has collected. `Fail` and `Abort`
are the catch block: what was thrown decides whether a cancelled session stays cancelled.
Pages find or start a session, follow the stream in polls of a second, and cancel it at any
time; a cancel request is under way in `cancels`. Prompts and the wording of answers are data.

### ExitRules and Backtest

A rule is a record [why, hit, at, qty]; a sale is the first rule that is hit. `EngineSale` is
`evaluateAndExecuteSell` at one price, the backtest's rules look at the open, the low and the
high of a candle. Returns are compared by cross-multiplication, never divided. A step of
`Backtest` is one candle: yesterday's signal is bought at the open, the exits run (a tier and
then the rest may sell on one day), today's signal is kept or acted on. Slippage, commission
and tax are percentages whose remainder is dropped. A signal too weak for its direction is no
signal. Value curve, drawdown and statistics are left out: the simulation reads none of them.

### MarketScan, its four parts, and BacktestService

A scan reads the pair, checks the stocks of `setting.market` in their order (`ScanStock`),
chooses (`ChooseTop`, sector by sector in rounds of `selected`), asks for the regime and adds the
clusters. A sort is `Ordered`: the element with n - 1 others before it is the n-th. What simulations return is
data: a variant's outcome gives gain and out-of-sample return per fold, signals and score.
`WalkForward` cuts the candles into windows exactly as `buildWalkForwardFolds` does, the
legacy two-thirds split included. `OptimalParams` has the file with its torn state during a
write, the cache with its age, searches and readers split at their file operations, and
`superseded`, a history of which saves had returned when another began. `MarketRegime` smooths
and labels scores; `CorrelationClusters` is the union-find, with reachability as its reference.
Fold returns are added where the code compounds them; `WF_MIN_VALID_FOLDS` is 2.
`BacktestService` puts the scan and the simulation of `Backtest` side by side, as the service
has them; a scan takes what its simulations come to as data.

### StockCollection

Dates are ages: 0 is today, and `EndOfDay` makes every date a day older, so the state space
needs no bound on the calendar. A collection (`run`) is split at its awaits: reading the list,
reconciling `stocks`, and per stock finding and inserting its row, deleting old prices, reading
the save point, reading the oldest price, Yahoo's answer, the insert of prices, the save point,
which is compared with the one that was read.
An answer may hold everything, end early, hold nothing, or lack the close of any of its days
(`blank`). The code passes such a day over and moves the save point past it; `holes` is a
history of the days lost in this way. Two collections may overlap because nothing prevents it,
a unique row makes one of them fail at a stock, and the service may end between any two writes.
`retain` is `SURVIVORSHIP_RETAIN_DELISTED`, off by default.

### ViHold, IntradayScalping and StockTrades

`StockTrades` is the subscription to the stream of trades: each trade goes to the tracker of
candles and, if `viHandlingEnabled`, to the tracker of halts, and both forget a stock whose
last session is no longer active.

In `ViHold`, `halt` is the tracker's state of the stock ("over" once `activeUntil` has passed
and nobody has asked), `clearTimer` and `reevalTimer` its entries in the two timer maps. `held`
is the set of sessions in `viHeldOrders`: what an order was for is a choice when it is judged,
so the model need not remember it. `run` is the call of `reevaluateHeldOrdersForStock`, split
at its awaits; while it runs a second one is refused. `refused` and `failed` are histories of
why a held order was left. A session that is judged is held, ordered, or let be; the code knows
no market codes of single-price auctions yet, so only the halt flag of a trade begins an
interruption.

In `IntradayScalping`, `current`, `completed`, `latest` and `fresh` are the tracker's state of
the stock. Trades bear a time of day only; `Record` tells a late trade from one of the next day
by how far it lies back, as the code does. `PerMinute` and `Rollback` scale the clock: two
trades a minute, and two minutes back in place of 120. The quotes of a trade are two verdicts,
sound and strong. `bars` and `seen` are the reference: today's candles as the exchange would
draw them from its trades in order. `MaxDelay` bounds how late a trade comes, less than what
makes it one of another day; a day begins with
a trade in `FirstMinutes` and is traded to the afternoon.

## 3. What the runs check

Deadlock is not checked except in `RealtimeFeed`: orders, sessions, scans, meetings and
bounded studies do end, and nothing must follow.

| Run | Instance | States | What it shows |
|---|---|---|---|
| `OrderLedger` | one order, 3 units, 3 attempts, every fault | 57 thousand | row, position and polling chain stay consistent; the refinement |
| `OrderLedgerOverRecorded` | one order, 2 units | violation | `NeverMoreThanFilled` fails (finding 1) |
| `AutoTradingSafety` | loop, price trigger, 2 orders, 3 shares, entries, every fault | 1.5 million | lock, one exit, stage |
| `AutoTradingLiveness` | loop, manual order, 2 orders, 1 share, entries and add-ons | 264 thousand | waiting sessions are released, holdings catch up |
| `ScheduledScan` | 2 requests, 2 instances, TTLs 2 and 1, every fault | 870 thousand | applied once, row kept and freed |
| `RealtimeFeed` | one stock, the notice topic, 2 clients, 2 open requests per topic, every fault | 410 thousand | reconnection, topics, retries |
| `PricePolling` | 3 stocks, 2 requests, buckets of one token, 3 Toss tokens | 97 thousand | good tokens kept, old prices asked for |
| `PricePollingLap` | the same | violation | `LapSkipsNobody` fails (finding 2) |
| `AiScoring` | 2 sessions, 2 pages, both providers, a settings page with one edit, 2 tokens and imports | 2.6 million | one session, aborts, scores, the expiry mark |
| `ScanAndSessions` | 6 studies of scan and simulation (below); 3 stocks, 3 session ids of which 2 are taken, a page with one command, the scheduled scan | 1.3 million | selection, windows, clusters, pair, regime; prices, stops, books, agreement with the engine; the scan's limits, manual sessions left alone |
| `StockCollection` | 2 overlapping collections, window of 3 days in a week of 3 | 223 thousand | no gap, catching up |
| `StockTrades` | with VI handling: 2 sessions; without: 2 days of 5 minutes, 2 trades a minute, 4 kinds of quote | 419 thousand | held orders are taken up; today's candles, no stale signal |

Each property of a passing run has a mutant in `PROJECT.json`: a plausible bug in one mapped
definition under which TLC finds that property violated.

**OrderLedger.** The refinement `ImplementsFeed`: no recorded unit is applied twice. `SingleChannelExact`: a
row that one channel moved never exceeds what KIS filled (with two channels it can: finding
1). `ClosedStaysClosed`: one channel never reopens a row. `FallbackKeepsPolling`: an order
placed without notices does not drop out of the chain of polls. `PollingSettles`: once KIS is
done with it, the row closes or polling gives up at its last attempt. Three units are the
least with a partial fill before and after a report; three attempts have a first, a middle and
a last one; rows do not read each other, so one order is enough, and the proofs cover every
number.

**AutoTrading.** `SellLockIsOwned`: the lock is held exactly while one task is inside
`executeSell`, through every early return, refusal and restart. `OneLiveExit`: the engine
never has two exit orders live. It is stated of orders the engine can know of; orders whose
row could not be saved are excluded. It holds although a session may be re-armed under a live
exit (section 5), because `executeSell` looks for open orders itself. `StageAfterFill`: an
accepted TP1 order that never fills does not use up the take-profit. `PendingResolves`: a session
waiting for its exit does not wait for ever, unless from some time on a row stays open that
nobody asks about (`Forsaken`): while the account has shares left, both re-arming paths find that
row for ever. `HoldingCatchesUp`: whatever fills unreported, before or after a balance that
was on its way, an active session in the end holds what the account does. That run has no price
triggers: one inside `executeSell` at every sync would put the sync off each time. Three shares
are the least for which TP1 leaves a remainder that can be sold again; two orders are what two
exits, or an exit and an entry, need. Two overlapping runs of the loop are beyond the time of a
run; the three safety theorems cover them. Symmetry over order numbers is used in
`AutoTradingSafety` only, which has no liveness; it also leaves out the end of reports, which
takes fairness away and enables nothing.

**SessionRegistry**, checked in the run `ScanAndSessions`. That a stock has one active session is
the partial unique index itself, the guard of every flush (`Accepted`), and so no property of
the handlers. `ScanWithinLimits`: with
the sessions read at its beginning, what a scan opens exceeds neither the holdings limit of
the regime nor the sector's, however its starts and resumes meet the user's; what it may
invest is within the cash, and no share is negative. `ManualRowsUntouched`: no step of a scan
changes or deletes a session that was manual when the scan last read the sessions. The three
stocks share a sector and a cluster two by two, and one is too dear for its share of the cash;
two regimes widen and narrow the scan; one command of the user meets every await of the scan.
Row ids are only compared, so of two initial states that differ by a swap of the rows one is
enough, and two stopped rows show nothing that one does not (`EitherRow`).

**ScheduledScan.** `AppliedOnce`, `WorkerKeepsRow` and `RowComesFree` say that a
result is applied once, that whoever works under the row keeps it until its release or TTL, so
that neither a late release nor a late result of an overtaken scan disturbs it, and that
nothing blocks the next scan for ever. TTL 2 and claim TTL 1 distinguish a claim that
extends the lease from one that does not; two requests are one that overtakes another; two
instances compete for a result.

**RealtimeFeed.** `OneConnectionAttempt`: through failing keys, failing handshakes, closing
and silent sockets and two monitors there is always exactly one way to the next socket.
`TopicsAgree`: once its requests are answered, KIS delivers what is wanted and nothing else,
although requests cross with reconnections and an answer may be taken for another request.
`NoLeakedTopic`: no topic outlives both its users. `RefusedIsRetried`: a refused stock has a
retry to come, also while it is polled. `WantedComesBack`: after any number of lost
connections, if they end, each wanted topic is delivered or refused. Two clients are what a
count that must not fall to zero too early needs; two open requests of a topic are one that
crosses another; stocks do not read each other's state, so one is enough, and the proofs cover
every number. While no socket is open the notice flag may be stale: an order placed then is
not polled although its notices do not come. `OrderLedger` has this as a subscription that is
lost right after the order was accepted.

**PricePolling.** `GoodTokenKept`: a refusal that arrives late, when another request has had a
new token issued, does not discard the new one. `OldPriceIsAsked`: a stock whose price is old
is asked for, gets a trade or stops being active, however other stocks fail and recover, unless
rounds pass it over for ever; without that premise it fails (finding 2). There are three
studies: with Toss, two questions at a time for stocks that stay active (logins refused before
the first one only, KIS at hand); without Toss, one slot while two stocks come and go, KIS
limiting and issuing tokens only while the first stock is alone; and three stocks for two slots,
the least number that a round can pass one over with. Buckets hold one
token and are filled when somebody waits; two refusals of a login open the breaker; one retry
of a limited request. These restrictions cut the product of independent details; each detail
occurs in one of the studies.

**AiScoring.** `OneRunningSession`: a user has one running session, also when two pages start
one while both wait for the same token refresh. `AbortStopsAgents`: no agent of an aborted
session runs or starts, orphans of a failed phase included. `ScoredPageIsComplete`: a page
that shows a meeting as scored has every score, although it polls once a second and stops
listening at the end. `ExpiryMarkKept`: the mark of an expired GPT login goes only with a new
login or key, or with a refresh that had read the configuration before the mark (which is the
lost update of section 5). Two sessions and two pages are what a race needs; a batch of one
stock has every await of a longer one, and the proofs cover every length.

**Backtest.** `FillsWithinCandle`: every sale is at a price between the candle's low and high,
also when the open has jumped over a line, and a position still held after a day's
exits has not touched its stop that day, also when TP1 sold a part. `Books`: cash, cost of the
position, commissions and realized result balance, and cash is never negative. `EngineAgrees`:
on a day without movement the backtest sells what the engine sells at that price, for the same
reason. The six candles gap over the stop, reach stop and target on one day, and give a peak
back; the configurations add the ladder with one and two tiers, buys on top, sizing by risk,
buys at the close and a budget below the price of a share. A simulation has four days, enough
to buy on a signal, to sell a tier and later the rest.

**MarketScan.** Both parts are checked in the run `ScanAndSessions`, whose behaviours look at
the sessions or at one of six studies: the simulation above; the choice among two variants for three stocks in
two sectors (with a delisted and a falling one) and three sets of options; the windows of 1 to
14 candles; the regime over days, whose breadths are 0, 50 and 100 percent or too few stocks,
scores rounded to fives; all correlations of four stocks; and two searches and two readers of
the pair, two saves of different pairs, a cache of two ticks. `BestAreChosen`: no candidate that was passed over
beats the chosen one, and the list is filled sector by sector. `FoldsAreSound`: windows are
ordered, do not overlap, lie behind the minimum and reach the newest candle.
`ClustersConnect`: two stocks share a cluster exactly if a chain of correlated pairs connects
them. `FreshWithinTtl`: a pair is not answered once a later save has returned as long ago as
the cache lives. `NoFlipFlop`: the label does not go back to its last value unless the score
has moved by the ten points between the bands. The windows need `MinInSample` 3, `MinOos` 2
and 3 folds to have every remainder; scans run one at a time.

**StockCollection.** `NoGapBelowSavepoint`: as far as the window reaches, whatever is below a
save point is stored or is a day Yahoo had no close for; no crash, short answer or second
collection leaves another gap there. `CatchesUp`: once nothing goes wrong any more, no day ends with a listed
stock that lacks a price or is still taken for delisted, although a start looks at the
youngest save point of all stocks only. Two studies: one stock whose two collections overlap
while Yahoo answers in part, without a close for some days or not at all and the service crashes anywhere; and two stocks
whose list changes by deployment between collections, with delisting switched on. A window of
three days in a week of three with one closed day is the least in which a closed day, a gap
and the edge of the window differ; retention ends one day after the window, and two
collections confirm a delisting.

**StockTrades.** Two studies, because halts and candles do not read each other. With VI
handling no trade is regular, so that no candle is drawn: `HoldIsAnswered`: a held order is
taken up after the interruption, unless a re-evaluation failed, or was refused because another
one was under way; pauses, resumptions, a silent stream and further halts in between do not
lose it. Two sessions are one that is being re-evaluated and one that is held meanwhile. Without
it: `CandlesAreTodays`: whatever is late, halted or of the next day, the candles are those of
today's trades in order; `EntryFollowsLastTrade`: an entry is signalled only after a recent
regular trade of today, never on the trade before a halt. Three completed candles are needed
for an entry and kept at most, so the fifth minute drops one; two trades a minute and a delay
of two make a trade late within its minute and from the minute before.

**Fairness.** Weak fairness throughout, except for one case, of what Node or the outside owes.
`RealtimeFeed`: the step that a connection waits for (its timer, key, handshake, close event or
monitor) happens, and KIS answers the requests of a topic on a socket that delivers.
`OrderLedger`: the steps of a poll (a timer fires, a request settles with an answer or an
error) and the last step of a reject handler that has begun; nothing of the exchange or of
notices. `AutoTrading`: `setInterval` fires and awaits settle; the balance inquiry succeeds
now and then (strong: it is repeated every 30 seconds and may fail any number of times); KIS
ends each day order by itself; an order is reported as long as somebody asks about it, which may
end at any time, as `PollingSettles` allows. `ScheduledScan`: only that time passes. `PricePolling`: timers fire, and a request ends
with an answer, an error or its ten-second limit. `StockTrades`: timers fire and awaited
calls return. `StockCollection`: timers fire, statements settle, the operator starts the service again, days pass; that trouble ends is a premise of
`CatchesUp` itself, and everything before it may go wrong any number of times.

## 4. What is proved

For every value of the constants, under the assumptions named in the modules. Most ask only for
positive numbers and disjoint sets of names; those that ask for more are given below. Every
invariant and every action property that a run checks is proved, the refinement included, but
for `NeverMoreThanFilled` and `LapSkipsNobody`, which do not hold. None is inductive alone; what had to be added:

**OrderLedgerProofs**: `TypeCorrect`, `RowsStayConsistent`, `PositionIsNeverAhead`,
`OneChannelIsExact`, `FallbackIsNotDropped`, `RowsStayClosed` and the refinement
`LedgerImplementsFeed`. `IInv` adds, per order: where a report comes from (`Sources`: at most
as many notices under way as units filled, an answered poll not above KIS), which handler may
run on which row (`HandlersMatchRow`), that a row moved by polls only leaves room for every
notice still under way (`ChannelBounds`), that a closed row has no handler of the only channel
left that could move it (`ClosedIsFinal`), and the unbroken chain of polls (`KeepsPolling`).
`NextIInv` shows each action in turn; the refinement maps each action to one step of
`PositionFeed` or a stutter.

**AutoTradingProofs**: `TypeCorrect`, `LockIsOwned`, `AtMostOneLiveExit`,
`StageNeedsFill`, for any number of overlapping loops, triggers, manual orders and orders.
`IInv` adds that an order a task has just placed has no row yet (`PlacedIsUnsaved`), that a
session that waits for its exit has nobody inside `executeSell` (`LockGuards`), that whoever
has passed the open-order check has no live exit beside it (`NoExitUnderway`), that saved live
exits are one (`OneSavedExit`), and that handed portions are within what the row records
(`HandedIsExecuted`).

**SessionRegistryProofs**, of `SessionRegistry`: `RegistryTypes`, `ScanKeepsLimits`,
`ManualSessionsAreSafe`. `Typed` adds what a writer's command is about at each of its awaits
(`CommandsOK`). `Safe` adds that nothing the scan has decided names a manual
session, by its row or by its stock (`ManualRowsSafe`, which needs that a row keeps its stock:
`PausedKeepStock`), and that what the scan has opened and may still open, resumes in flight
included, was within the limits when it was picked and only shrinks (`OpensWithinLimits`). Lemmas
follow `FilterCandidates` along its ranking, and show that shares by inverse volatility add up to
no more than the cash.

Of `ScheduledScan`: `TypeCorrect`, `ResultsAreAppliedOnce`, `WorkersKeepTheRow`,
`OvertakenResultsAreDropped`. `IInv` adds that request ids are fresh until they take the row,
that events come from queued scans, that a row carrying a request's own mark has no handler
and nothing applied (`UnclaimedMark`), and that a request has one handler (`OneHandler`).

**RealtimeFeedProofs**: `TypeCorrect`, `ReconnectsOnce`, `TopicsAgreeWithKis`,
`NoticeFlagIsHonest`, `NoTopicLeaks`, `RefusalsAreRetried`. `IInv` adds that the latest
unanswered request of a topic says whether it is wanted, and that an entry of
`pendingSubscriptionActions` is that request's (`LatestIsWanted`): the code's guess can be
wrong only while a later request waits, and the last answer is taken for what it answers. It
adds that KIS delivers nothing before a socket opens, and that the notice topic is only ever
subscribed (`NoticeOnlySubscribed`). Lemmas say what subscribing, unsubscribing and answering
do to the topics; each action of the engine and of the gateway cites one of them.

**PricePollingProofs**: `Invariance` (whoever waits for a Toss token waits for a login under
way) and `TokenIsKept`: the cached token is discarded only by a refusal of that very token,
which Toss then no longer accepts; every other step, a login under way included, keeps it or
replaces it by a new one. Of `IntradayScalping`: `CandlesFollowTrades` and `EntriesAreTimely`.
`ScalpingInv` adds that `latestExecution` is the last trade of today that came in order, or one of
yesterday whose current candle is of the afternoon (`LatestFollows`), and that the tracker's
candles are the newest of those the exchange has drawn (`DayIsDrawn`). It is assumed that a late
trade is less than `Rollback` minutes late; how the averages come out plays no part.
Of `ViHold`: `HeldOrdersAreWatched`, the safe half of `HoldIsAnswered`: a held order waits for the
timer of the interruption, for that of the re-evaluation, or for its turn in the one under way,
unless its re-evaluation failed or was refused because another one was under way (section 5). `HoldInv` adds that an interruption the tracker
still knows of has its timer (`HaltIsTimed`).

**AiScoringProofs**: `Invariance`, `OneSession`, `AbortIsFinal`, `ScoresAreComplete`,
`MarkIsKept`. `IInv` adds what the record of a meeting may be between two awaits (`Sound`:
where agents are awaited, what an abort leaves, how far the batch is), that an ended session
stays ended, what a page has received, and that a refreshed token is newer than all aged ones,
so that a session that a refresh resumes does not wait for another (`TokensOK`, `CallsOK`).

**BacktestServiceProofs**, the pair, the regime, the windows. `PairIsFresh`, from an invariant on
saves, searches and readers (`PairInv`): the file holds a save that no other has superseded
(`FileIsLast`); what a reader has parsed was superseded, if at all, by a save that has just
returned (`ParsedIsRecent`); a save that superseded the cached value returned no longer ago than
the cache is old (`CacheIsOlder`). `RegimeIsCalm`, from `RegimeOK` (the label is what its last
change made of its score); the rounding of scores to `Grain` plays no part in it.
`WindowsAreSound` for any number of candles, by the arithmetic of `FoldCount` and `OosLength`, and
`ScanFoldsAreSound` from it.

The choice and the clusters, `ScanChoosesTheBest` and `ScanConnectsClusters`, from `ScanInv`: a
stock that is still to come has no result yet (`StocksAreNew`), so that codes tell results apart
(`ResultsAreSound`) and both comparisons are total orders. It is assumed that a stock occurs once
in the market. Lemmas about operators carry the proofs:

* `RanksSort`: under a total order on a finite set, `Ordered` is the sorted list.
* `KeepsAllNext`: each slot of `KeepBetter` holds the first of the best candidates of its kind,
  because within a kind the comparisons are weak orders; `ChosenIs` draws the conclusion.
* `NextRound`: after each round the list has the first stocks of all depths below, until it is
  full; `SelectTopIsBest` after the last one.
* `UnionJoins`: `Union` moves exactly the codes under one root to the other; parents have smaller
  codes, so that `Root` is well defined (`RootExists`). `JoinedIs`: in the end two codes have one
  root exactly if every set closed under correlated pairs has both or neither. `ReachIs`: what
  `Reach` finds is closed, since a step that adds nothing must come among as many steps as there
  are codes. `ClustersConnectCodes` puts the three together.

The simulation: `BooksBalance`, `SalesAreOfTheDay`, `BacktestSellsLikeTheEngine`.
`SimulationInv` says that the account is made of numbers and balanced (`Balanced`): cash, cost
of the position and fees are the investment and the realized result. `SellKeepsBooks`: a sale
takes off a part of the cost and brings in at least its costs; `BuyKeepsBooks`: the quantity of
`BuyQty` is affordable with its commission. For the exits, `GapSale` and `DaySale` follow the
rules in their order. `BacktestAssumption` says what a configuration's numbers mean: a stop
lies below the entry, a floor not above what arms it, a sale costs at most what it brings, and a
candle's open and close lie between its low and high.

**StockCollectionProofs**: `Invariance` and `NoGap`. A day is settled if it is stored or in
`holes`. Per run, `RunOK` says what a collection between two awaits knows: behind the save point
it has read, and behind the day it fetches from, all due days of the window are settled
(`ReadIsSettled`, `BehindIsSettled`); all days of Yahoo's answer up to its newest are settled,
fetched or without a close (`FetchedIsKnown`); after the insert, the new prices are stored. All of
it survives another collection of the same stock, because within the window settled days stay
settled, and the end of a day, because then no collection is under way.

**Recursion.** No theorem of the library can be used for induction (it takes an operator as a
parameter). Where a proof needs it, the numbers for which a fact holds are a set, and the least one
outside it, which `NatLessThanWellFounded` gives, leads to a contradiction (`Induct`). That a
recursive function has the values its definition asks for is shown in the same way: the functions
on shorter and shorter beginnings exist (`Recursion`, `RootExists`).

Model-checked only: the liveness properties (`PollingSettles`, `PendingResolves`,
`HoldingCatchesUp`, `RowComesFree`, `WantedComesBack`, `OldPriceIsAsked`, `CatchesUp`, `HoldIsAnswered`), which the proof system cannot
express.

Three facts are proved and not checked by a run of their own, because the runs' properties catch
the same mistakes: `RowConsistent` (status and quantity of a row agree), `OvertakenNotClaimed` (a
late result of an overtaken scan is dropped) and `HeldIsWatched` (above).

## 5. Where the code and its documents part

Two are runs in which TLC refutes what the text says; `PROJECT.json` quotes it:

1. A notice handled after a poll has recorded its fill is counted again
   (`kis-order.service.ts:165` against the comment at 238).
2. A polling round skips stocks: the loop adds its counter to a cursor that each question moves
   (`auto-trading.service.ts:3340` against the comment at 3339). A stock is never asked for if
   the rounds meet the same stocks due again and again. With one slot nothing is passed over.
   With the two slots and the one-second tick of the defaults, and questions answered within a
   tick, the second of every three stocks has no turn if their number is a multiple of three
   and a lap lasts as long as a price takes to be due again, that is from some thirty quiet
   stocks on; other numbers shift who is passed over. Three stocks show it without clocks.

The models contain the following as well; no property claims the contrary.

3. TP1 can sell twice: quantity, stage and lock are free between the flush of the first
   order's fill and its application (`auto-trading.service.ts:2468` against
   `sprint2-implementation-spec.md:279`).
4. The balance sync overwrites the holding of a session with an open order
   (`auto-trading.service.ts:1634` against `sprint2-implementation-spec.md:230`).
5. The pauser acts on a balance that an entry has overtaken (`auto-trading.service.ts:2778`
   against the comment at 2730).
6. Two scans overlap after a TTL and lose a sample of the regime state
   (`backtest.service.ts:1363` against `sprint3-implementation-spec.md:151`).
7. The last browser client that leaves a stock unsubscribes it at KIS although the engine
   trades it (`kis-websocket.gateway.ts:150` against the comment at
   `auto-trading.service.ts:3181`). The stock keeps its REST polling. Without clients, two
   runs of `syncStockActivity` that finish in the opposite order of the status changes lead
   to the same state. At this commit no page uses the hook that subscribes through the
   gateway.
8. A scan takes over a session the user started after the scan had read the sessions
   (`scheduled-scanner.service.ts:936` against the comment at 673); `ManualRowsUntouched` is
   about the sessions it knew of.
9. A batch of starts that meets a conflict after its pre-check has created the sessions before
   it, although the comment at `auto-trading.service.ts:1214` says that partial creation is
   prevented.
10. A held order is forgotten when its re-evaluation is refused because another one is under
   way (`auto-trading.service.ts:1016` against
   `sprint3-vi-nxt-implementation-spec.md:78`): nothing looks at it until the stock is halted
   and released again, or the 30-second loop finds the same signal anew.
   `HoldIsAnswered` excepts these orders.
11. After a day on which a stock was halted throughout, the next morning's trades are taken for
   late ones (`intraday-scalping.ts:116` against the comment at 109). In the model every day
   has a regular trade (`NextDay`).
12. The design has the exit for the longest holding time held during an interruption; the code
   never holds it (`auto-trading.service.ts:3126`).
13. A waiting session is re-armed while an exit that was saved during the look for open orders is
   live (`auto-trading.service.ts:1815` to 1826 and 2747 to 2757 against the comments at 1817 and
   2748): the mark of that exit is cleared. `OneLiveExit` still holds; the pause after the exit
   then comes from its own fill alone.

Observations without a text to hold against them:

* Sessions: pause and resume do not look at the status they change, so a scan's resume, between
  its read and its flush, revives a session that was stopped; a user's edit of a paused
  scheduled session is undone by the scan that read it before; the browser merges events and
  answers without versions.
* AI: a session cancelled during its last write becomes "completed"; a failing authentication
  after a cancellation overwrites "cancelled" with "error"; `refreshOAuthToken` writes back the
  whole configuration it read before its request; two refreshes with one refresh token let the
  second fail; an account limit leaves the sibling agent running until the abort; a page that
  starts a meeting is given the running one even if it is about another stock, and shows its
  scores.
* Quotations: a Toss price of up to 300 seconds counts as new; the failure count of the breaker
  is not reset when it closes; a KIS token that KIS refuses is used until it expires;
  `revokeToken` is never called.
* Market scan: `shouldKeepPreviousLabel` compares with a date that every scan renews, so a label
  is held for a day after the last scan, not after its last change; a grid search saves a point that no stock
  passed; two searches that write at once can leave a torn file, read as the default; the path
  through RabbitMQ takes the pair from the backend's request, the HTTP path reads it itself.
* Backtest: its default trailing and breakeven values differ from the engine's on purpose;
  `EngineAgrees` is about equal values after the grace period. The second branch that sells a
  part and then the stop cannot be reached; `ensureMinOneShare` has no effect when buys are
  sized by risk.
* Collection: a start logs that all stocks are up to date when one of them is not; the guard
  against a damaged list works only after a first reconciliation; `missingFromCsvDays` counts
  collections, not days; a day whose close Yahoo lacked inside an answer lies below the
  save point and is not asked for again unless the whole window is fetched anew (`holes` in the
  model, the exception of `NoGapBelowSavepoint`); the candle of a running day is kept as it is.

## 6. What is not modelled

`PROJECT.json` lists every component with its status.

* **Indicators, strategies, metrics, the value curve**: arithmetic; their results are choices in
  `AutoTrading`, `Backtest` and `MarketScan`.
* **KIS inquiries and journal, accounts, notifications, calendar**: requests on one row, or
  functions of a date.
* In the modelled parts: connection alerts and back-off lengths, decryption and parsing of
  ticks, order-book topics of browser clients, the shutdown (`onModuleDestroy`); candles,
  details and names from Toss, which go the way of `getLastPrice`; the merge of HTTP and
  background contexts on one row beyond `SessionRegistry`'s flushes; amounts of profit and
  order quantities of the engine; progress reports, lookups and the unused `collectSubset` of
  the collection; prompts, charts and texts of AI meetings; rendering.

## 7. Plan

Done: every component with a protocol of its own has a module, a run and, where the prover
reaches it, theorems. What would add most next:

| Step | Content | Why not yet |
|---|---|---|
| two loops in `AutoTradingSafety` | overlapping runs of the 30-second loop by TLC too | state space; the theorems cover it |
| composition of `SessionRegistry` with `AutoTrading` | a scan's cleanup and resume against an exit under way | state space of the product |
