----------------------------- MODULE MarketScan -----------------------------
(***************************************************************************)
(* The scan of the market-data service: it asks for the pair to work with, *)
(* checks one stock after the other with every variant of its strategies,  *)
(* chooses the best variant per stock and the best stocks, and adds the    *)
(* market regime and the clusters of stocks that move together.            *)
(*                                                                         *)
(* Prices are data: a stock has a number of candles, a risk profile and,   *)
(* per variant, what its simulations and its signals come to.              *)
(***************************************************************************)
EXTENDS OptimalParams, WalkForward, MarketRegime, CorrelationClusters

CONSTANTS
    Outcomes,     \* what the variants of a strategy come to for a stock, in their order
    Settings,     \* scan settings: [market, options, delisted, rolling, regime, correlation, held,
                  \* topN]; a market is a sequence of stocks, [code, sector, candles, delisted, profile]
    Breadths,     \* [stocks, trend, momentum, calm]
    ScanReader    \* the reader that is the scan

Outcome ==
    [run : SimulatedRun, signals : Seq([buy : BOOLEAN, age : Nat, strength : Int]), trades : Nat, score : Int,
     quality : [winRate : Int, profitFactor : Int, expectancy : Int, drawdown : Int, ret : Int]]

ListedStocks ==
    [code : Nat, sector : STRING, candles : Nat, delisted : {"no", "before", "after"},
     profile : [turnover : Int, atr : Int, fiveDays : Int, fromSma60 : Int, fromSma20 : Int, slope : Int]]

(* A stock occurs once in the market: its code is the key of the query. *)
ASSUME MarketScanAssumption ==
    /\ ScanReader \in Readers
    /\ Breadths \subseteq [stocks : Nat, trend : Int, momentum : Int, calm : Int]
    /\ Outcomes \subseteq Seq(Outcome)
    /\ \A chosen \in Settings :
        /\ chosen.market \in Seq(ListedStocks)
        /\ \A j, k \in DOMAIN chosen.market : chosen.market[j].code = chosen.market[k].code => j = k
        /\ chosen.options \in [watchlist : BOOLEAN, profitable : BOOLEAN, byReturn : BOOLEAN, sectors : BOOLEAN]
        /\ chosen.held \subseteq Nat /\ IsFiniteSet(chosen.held)
        /\ chosen.topN \in Nat

VARIABLES
    setting,      \* of the current scan
    pair,         \* autoTakeProfitPct and autoStopLossPct of the current scan
    phase,        \* "idle", "stocks", "top", "regime" or "clusters"
    todo,         \* places in the market of the stocks still to be checked
    evaluated,    \* the last stock: its candidates, and the one that was chosen
    results,      \* allResults
    top,          \* topResults
    regimeFile,   \* data/market_regime_state.json, its age in days
    changed,      \* history: what the label was before its last change, and the score of that scan
    clusters      \* [codes, correlated, groups] of the last scan

scanVars == <<setting, pair, phase, todo, evaluated, results, top, regimeFile, changed, clusters>>
vars == <<paramsVars, scanVars>>

None == [variant |-> 0, ret |-> 0, score |-> 0, fresh |-> FALSE, quality |-> FALSE]
NoEvaluation == [candles |-> 0, candidates |-> <<>>, chosen |-> None]
NoClusters == [codes |-> {}, correlated |-> {}, groups |-> <<>>]

Init ==
    /\ ParamsInit
    /\ setting \in Settings
    /\ pair = DefaultPair
    /\ phase = "idle" /\ todo = {}
    /\ evaluated = NoEvaluation /\ results = {} /\ top = <<>>
    /\ regimeFile = [score |-> -1, label |-> "none", age |-> 0]
    /\ changed = [from |-> "none", score |-> 0]
    /\ clusters = NoClusters

-----------------------------------------------------------------------------
(* One variant of one stock. *)

(* evaluateLongBuyRisk: liquid, not too volatile, neither falling nor too far above its average. *)
LowRisk(p) ==
    /\ p.turnover >= 300 /\ p.atr <= 10
    /\ p.fiveDays >= -10 /\ p.fromSma60 >= -8 /\ p.fromSma20 <= 18 /\ p.slope >= -1

(* pickFreshStrongestSignal among buys of the last two trading days; a signal is [buy, age, strength]. *)
FreshSignals(signals) == {k \in DOMAIN signals : signals[k].buy /\ signals[k].age \in 0 .. 1}
FreshStrength(signals) == Max({0} \cup {signals[k].strength : k \in FreshSignals(signals)})

(* passesOosQuality; percentages, the profit factor times 100. *)
PassesQuality(q) ==
    /\ q.winRate >= 45 /\ q.profitFactor >= 110 /\ q.expectancy > 0
    /\ q.drawdown > 0 => 4 * q.ret >= q.drawdown

(* 60 trading days, twice the shortest in-sample part. *)
MinCandles == 2 * MinInSample
MinStrength == 65
MinTrades == 10

(* The variant's place among the candidates; <<>> if it is none. *)
CandidateOf(variant, outcome, n) ==
    LET e == Evaluation(n, setting.rolling, outcome.run, TRUE)
        fresh == FreshStrength(outcome.signals) >= MinStrength
    IN  IF /\ e.ok /\ e.gain > 0 /\ e.oos > 0
           /\ outcome.trades >= MinTrades
           /\ fresh \/ setting.options.watchlist
          THEN << [variant |-> variant, ret |-> e.oos, score |-> outcome.score, fresh |-> fresh,
                   quality |-> PassesQuality(outcome.quality)] >>
          ELSE <<>>

ByReturn(a, b) == a.ret > b.ret \/ (a.ret = b.ret /\ a.score > b.score)
ByScore(a, b) == a.score > b.score
ByMetric(a, b) == IF setting.options.byReturn THEN ByReturn(a, b) ELSE ByScore(a, b)

(* The best of three kinds: fresh and of good quality, fresh, and neither. *)
KeepBetter(kept, c) ==
    CASE c.fresh /\ c.quality /\ (kept.best = None \/ ByMetric(c, kept.best)) -> [kept EXCEPT !.best = c]
      [] c.fresh /\ ~c.quality /\ setting.options.profitable
           /\ (kept.poor = None \/ ByReturn(c, kept.poor)) -> [kept EXCEPT !.poor = c]
      [] ~c.fresh /\ setting.options.watchlist /\ (kept.watch = None \/ ByReturn(c, kept.watch)) ->
           [kept EXCEPT !.watch = c]
      [] OTHER -> kept

Chosen(candidates) ==
    LET kept[n \in 0 .. Len(candidates)] ==
          IF n = 0 THEN [best |-> None, poor |-> None, watch |-> None]
          ELSE KeepBetter(kept[n - 1], candidates[n])
        last == kept[Len(candidates)]
    IN  IF last.best # None THEN last.best ELSE IF last.poor # None THEN last.poor ELSE last.watch

(* scanSingleStock up to the choice. *)
Candidates(stock, outcomes) ==
    IF \/ stock.candles < MinCandles
       \/ \A fold \in WalkForwardFolds(stock.candles, setting.rolling) : ~LongEnough(fold)
       \/ ~LowRisk(stock.profile)
      THEN <<>>
    ELSE LET passed[v \in 0 .. Len(outcomes)] ==
               IF v = 0 THEN <<>> ELSE passed[v - 1] \o CandidateOf(v, outcomes[v], stock.candles)
         IN  passed[Len(outcomes)]

-----------------------------------------------------------------------------
(* The scan. *)

(* The stocks that are looked at: not excluded, and a delisted one, if at all, only while its last price *)
(* is from before it was delisted.                                                                       *)
Eligible(stock) ==
    /\ stock.code \notin setting.held
    /\ stock.delisted \in IF setting.delisted THEN {"no", "after"} ELSE {"no"}

StartScan ==
    /\ phase = "idle" /\ Answered(ScanReader)
    /\ pair' = PairOf(reading[ScanReader].value)
    /\ Release(ScanReader)
    /\ todo' = {k \in DOMAIN setting.market : Eligible(setting.market[k])}
    /\ phase' = "stocks"
    /\ evaluated' = NoEvaluation /\ results' = {} /\ top' = <<>> /\ clusters' = NoClusters
    /\ UNCHANGED <<file, cached, searching, saved, superseded, setting, regimeFile, changed>>

ScanStock(outcomes) ==
    /\ phase = "stocks"
    /\ \E place \in todo :
         LET stock == setting.market[place]
             candidates == Candidates(stock, outcomes)
             chosen == Chosen(candidates)
         IN  /\ \A other \in todo : place <= other
             /\ evaluated' = [candles |-> stock.candles, candidates |-> candidates, chosen |-> chosen]
             /\ results' = IF chosen = None THEN results
                           ELSE results \cup {[code |-> stock.code, sector |-> stock.sector,
                                               ret |-> chosen.ret, score |-> chosen.score]}
             /\ todo' = todo \ {place}
    /\ UNCHANGED <<paramsVars, setting, pair, phase, top, regimeFile, changed, clusters>>

ByReturnThenCode(a, b) == ByReturn(a, b) \/ (a.ret = b.ret /\ a.score = b.score /\ a.code < b.code)
ByScoreThenCode(a, b) == ByScore(a, b) \/ (a.score = b.score /\ a.code < b.code)

(* The rank of a result within its sector. *)
Depth(r) == Cardinality({o \in results : o.sector = r.sector /\ ByReturnThenCode(o, r)})

FirstOf(seq, n) == SubSeq(seq, 1, Min({n, Len(seq)}))

(* Mutant: the sectors' second stocks come before the returns of other sectors' first ones. *)
SelectTopByReturn == FirstOf(Ordered(results, ByReturnThenCode), setting.topN)

(* selectTopScanResults: all sectors' first stocks, then their second ones, the better ones first, until *)
(* there are topN; no sector is deeper than there are results.                                            *)
SelectTop ==
    LET round(d) == Ordered({r \in results : Depth(r) = d}, ByReturnThenCode)
        selected[d \in 0 .. Cardinality(results)] ==
          IF d = 0 THEN <<>>
          ELSE selected[d - 1] \o FirstOf(round(d - 1), setting.topN - Len(selected[d - 1]))
    IN  IF setting.options.sectors THEN selected[Cardinality(results)]
        ELSE FirstOf(Ordered(results, ByScoreThenCode), setting.topN)

ChooseTop ==
    /\ phase = "stocks" /\ todo = {}
    /\ top' = SelectTop
    /\ phase' = "top"
    /\ UNCHANGED <<paramsVars, setting, pair, todo, evaluated, results, regimeFile, changed, clusters>>

(* The regime is written only when enough stocks were counted. *)
MinBreadth == 30

AddRegime(breadth) ==
    /\ phase = "top"
    /\ IF setting.regime /\ breadth.stocks >= MinBreadth
         THEN LET regime == Regime(breadth, regimeFile)
              IN  /\ regimeFile' = [score |-> regime.score, label |-> regime.label, age |-> 0]
                  /\ changed' = IF regime.label = regimeFile.label \/ regimeFile.label = "none" THEN changed
                                ELSE [from |-> regimeFile.label, score |-> regime.score]
         ELSE UNCHANGED <<regimeFile, changed>>
    /\ phase' = "regime"
    /\ evaluated' = NoEvaluation /\ results' = {}
    /\ UNCHANGED <<paramsVars, setting, pair, todo, top, clusters>>

(* Clusters of the chosen stocks and of those in active sessions, whose prices are read again. *)
Watched == IF setting.correlation THEN {top[k].code : k \in DOMAIN top} \cup setting.held ELSE {}
PairsOf(codes) == {{p[1], p[2]} : p \in {q \in codes \X codes : q[1] < q[2]}}

AddClusters(correlated) ==
    /\ phase = "regime"
    /\ clusters' = [codes |-> Watched, correlated |-> correlated,
                    groups |-> IF Cardinality(Watched) < 2 THEN <<>> ELSE Clusters(Watched, correlated)]
    /\ phase' = "clusters"
    /\ UNCHANGED <<paramsVars, setting, pair, todo, evaluated, results, top, regimeFile, changed>>

Respond ==
    /\ phase = "clusters"
    /\ phase' = "idle"
    /\ pair' = DefaultPair /\ top' = <<>> /\ clusters' = NoClusters
    /\ UNCHANGED <<paramsVars, setting, todo, evaluated, results, regimeFile, changed>>

(* A page that shows the pair. *)
ShowPair(r) ==
    /\ r # ScanReader /\ Answered(r)
    /\ Release(r)
    /\ UNCHANGED <<file, cached, searching, saved, superseded, scanVars>>

NextDay ==
    /\ phase = "idle"
    /\ regimeFile' = [regimeFile EXCEPT !.age = MinHoldDays]
    /\ UNCHANGED <<paramsVars, setting, pair, phase, todo, evaluated, results, top, changed, clusters>>

Next ==
    \/ ParamsNext /\ UNCHANGED scanVars
    \/ \E r \in Readers : ShowPair(r)
    \/ StartScan
    \/ \E outcomes \in Outcomes : ScanStock(outcomes)
    \/ ChooseTop
    \/ \E breadth \in Breadths : AddRegime(breadth)
    \/ \E correlated \in SUBSET PairsOf(Watched) : AddClusters(correlated)
    \/ Respond \/ NextDay

Spec == Init /\ [][Next]_vars

-----------------------------------------------------------------------------
(* scanSingleStock chooses one variant per stock while it goes through them with three kinds of best: *)
(* the choice is of the best kind there is, no other of its kind is better, and of equal ones it is   *)
(* the first; nothing is chosen only if no candidate may be shown;                                    *)
Kind(c) ==
    CASE c.fresh /\ c.quality -> 3
      [] c.fresh /\ ~c.quality /\ setting.options.profitable -> 2
      [] ~c.fresh /\ setting.options.watchlist -> 1
      [] OTHER -> 0

Beats(a, b) ==
    \/ Kind(a) > Kind(b)
    \/ Kind(a) = Kind(b) /\ IF Kind(a) = 3 THEN ByMetric(a, b) ELSE ByReturn(a, b)

SelectionIsBest ==
    LET all == evaluated.candidates
        best == {k \in DOMAIN all : Kind(all[k]) > 0 /\ \A j \in DOMAIN all : ~Beats(all[j], all[k])}
    IN  evaluated.chosen = IF best = {} THEN None ELSE all[Min(best)]

(* and selectTopScanResults spreads the chosen stocks over the sectors: none is left out while one that is *)
(* deeper in its sector is in, nor for one of its own depth with a lower return.                      *)
SectorsFirst ==
    phase = "top" =>
        /\ Len(top) = Min({setting.topN, Cardinality(results)})
        /\ setting.options.sectors =>
             \A k \in DOMAIN top, out \in results :
                 out \notin {top[j] : j \in DOMAIN top} =>
                     \/ Depth(top[k]) < Depth(out)
                     \/ Depth(top[k]) = Depth(out) /\ ByReturnThenCode(top[k], out)
BestAreChosen == SelectionIsBest /\ SectorsFirst

(* buildWalkForwardFolds: whatever the number of candles, no candle is judged twice, none is judged *)
(* that lies in front of the in-sample part's minimum, and the newest ones are judged.              *)
FoldsAreSound == evaluated.candles > 0 => SoundFolds(evaluated.candles, setting.rolling)

(* clusterByCorrelation: two stocks are reported in one cluster exactly if a chain of correlated pairs *)
(* connects them, whatever the order in which the pairs are joined.                                   *)
ClustersConnect ==
    phase = "clusters" /\ Cardinality(clusters.codes) > 1 =>
        LET groups == clusters.groups
            together(a, b) == \E k \in DOMAIN groups : {a, b} \subseteq groups[k]
        IN  /\ \A a, b \in clusters.codes :
                  a # b => (together(a, b) <=> b \in Reach(clusters.codes, clusters.correlated, a))
            /\ \A j, k \in DOMAIN groups : j < k => Min(groups[j]) < Min(groups[k])

(* computeMarketRegime's bands: the label does not go back to what it was before unless the smoothed *)
(* score has moved by the ten points that lie between entering and leaving.                          *)
GoesBack ==
    /\ regimeFile'.label # regimeFile.label
    /\ regimeFile.label # "none"
    /\ regimeFile'.label = changed.from
NoFlipFlop ==
    [][GoesBack => \/ regimeFile'.score - changed.score >= 10
                   \/ changed.score - regimeFile'.score >= 10]_vars
=============================================================================
