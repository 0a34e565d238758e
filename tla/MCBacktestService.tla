---------------------------- MODULE MCBacktestService ----------------------------
EXTENDS BacktestService

Calm == [turnover |-> 900, atr |-> 4, fiveDays |-> 2, fromSma60 |-> 3, fromSma20 |-> 2, slope |-> 0]
Falling == [Calm EXCEPT !.fiveDays = -15]

Stock(code, sector, candles) ==
    [code |-> code, sector |-> sector, candles |-> candles, delisted |-> "no", profile |-> Calm]

(* Three stocks in two sectors, one that is gone for good and one that falls. *)
Sectors == << Stock(1, "A", 9), Stock(2, "A", 9), Stock(3, "B", 9),
              [Stock(4, "B", 9) EXCEPT !.delisted = "before"], [Stock(5, "B", 9) EXCEPT !.profile = Falling] >>

Options(watchlist, profitable, byReturn, sectors) ==
    [watchlist |-> watchlist, profitable |-> profitable, byReturn |-> byReturn, sectors |-> sectors]

(* A behaviour looks at the choice of stocks, at the windows of the walk-forward check, at the regime, *)
(* at the clusters, at the pair of the grid search, or at the simulation of one stock.                  *)
Setting(study, market, options, topN) ==
    [market |-> market, options |-> options, delisted |-> options.sectors, rolling |-> study = "windows",
     regime |-> study = "regime", correlation |-> study = "clusters",
     held |-> IF study = "clusters" THEN {1, 2, 3, 4} ELSE {}, topN |-> topN]
Simulation == Setting("simulation", <<>>, Options(FALSE, FALSE, FALSE, FALSE), 0)
Pair == Setting("pair", <<>>, Options(FALSE, FALSE, TRUE, TRUE), 0)
MCSettings ==
    {Setting("stocks", Sectors, options, 2) :
        options \in {Options(FALSE, FALSE, FALSE, FALSE), Options(TRUE, FALSE, TRUE, TRUE),
                     Options(TRUE, TRUE, FALSE, TRUE)}}
    \cup {Setting("windows", << Stock(1, "A", n) >>, Options(TRUE, FALSE, TRUE, TRUE), 1) : n \in 1 .. 14}
    \cup {Setting("regime", <<>>, Options(FALSE, FALSE, TRUE, TRUE), 1),
          Setting("clusters", <<>>, Options(FALSE, FALSE, TRUE, TRUE), 1), Pair, Simulation}

FoldOf(gain, oos) == [enough |-> TRUE, gain |-> gain, oos |-> oos]
Run(oos) == [folds |-> [i \in 0 .. 2 |-> FoldOf(5, oos)], legacy |-> FoldOf(5, oos)]
Good == [winRate |-> 60, profitFactor |-> 150, expectancy |-> 1, drawdown |-> 4, ret |-> 2]

Variant(oos, score, strength, winRate) ==
    [run |-> Run(oos), signals |-> << [buy |-> TRUE, age |-> 1, strength |-> strength] >>, trades |-> 12,
     score |-> score, quality |-> [Good EXCEPT !.winRate = winRate]]
Variants ==
    {Variant(4, 7, 80, 60), Variant(6, 5, 80, 60), Variant(9, 6, 80, 30), Variant(9, 6, 20, 60),
     Variant(-1, 9, 80, 60)}
MCOutcomes == {<<v, w>> : v, w \in Variants}

Raw(percent) == [stocks |-> 40, trend |-> percent, momentum |-> percent, calm |-> percent]
MCBreadths == {Raw(0), Raw(50), Raw(100), [Raw(0) EXCEPT !.stocks = 10]}

Point(tp, median, mdd) ==
    [tp |-> tp, sl |-> -tp, sampled |-> 4, median |-> median, profitable |-> 3, mdd |-> mdd]
MCPointSets == { {Point(25, 3, 2), Point(30, 5, 12)}, {Point(25, 1, 9), [Point(40, 0, 0) EXCEPT !.sampled = 0]} }

(* Candles of a simulation at prices of 94 to 112 in hundredths, and five configurations: plain, with  *)
(* the ladder, with two tiers and buys on top, sized by risk with buys at the close, and one whose      *)
(* budget does not buy a share.                                                                         *)
C(open, high, low, close) ==
    [open |-> open * 100, high |-> high * 100, low |-> low * 100, close |-> close * 100]

MCCandles == {C(100, 100, 100, 100), C(100, 104, 99, 103), C(100, 108, 94, 100),
              C(108, 112, 107, 108), C(106, 107, 94, 102), C(94, 96, 94, 95)}
MCPrices == UNION {{c.open, c.high, c.low, c.close} : c \in MCCandles}

Plain == [investment |-> 61000, tradeRatio |-> 50, commission |-> 1, sellTax |-> 1, slippage |-> 1,
          takeProfit |-> 6, stopLoss |-> -4, maxHoldingDays |-> 2, ensureMinOneShare |-> FALSE,
          allowAddOn |-> FALSE, useNextOpen |-> TRUE, riskPct |-> 0,
          scaleOut |-> FALSE, tiers |-> <<[trigger |-> 3, ratio |-> 50]>>, runnerTakeProfit |-> 9,
          normal |-> [trigger |-> 4, giveback |-> 2, breakeven |-> 2, floor |-> 0],
          runner |-> [trigger |-> 7, giveback |-> 3, breakeven |-> 5, floor |-> 2]]

MCConfigs ==
    {Plain, [Plain EXCEPT !.scaleOut = TRUE],
     [Plain EXCEPT !.scaleOut = TRUE, !.allowAddOn = TRUE, !.maxHoldingDays = 3, !.tradeRatio = 60,
                   !.tiers = <<[trigger |-> 3, ratio |-> 34], [trigger |-> 6, ratio |-> 50]>>],
     [Plain EXCEPT !.scaleOut = TRUE, !.useNextOpen = FALSE, !.riskPct = 3, !.tradeRatio = 100],
     [Plain EXCEPT !.ensureMinOneShare = TRUE, !.tradeRatio = 10]}

(* Only the study of the pair has searches and a page, and nothing but them; its two searches find *)
(* different pairs, as a reader could not tell equal ones apart.                                   *)
Differ(pairs) == Len(pairs) = 2 => pairs[1].pair # pairs[2].pair

MCInit == ServiceInit /\ (setting # Simulation => cfg = Plain)

MCNext ==
    \/ setting = Simulation /\ Simulates
    \/ /\ setting # Simulation /\ Scans
       /\ IF setting = Pair THEN regimeFile' = regimeFile /\ Differ(saved')
          ELSE saved' = saved /\ cached' = cached /\ \A r \in Readers \ {ScanReader} : reading'[r] = Idle
=============================================================================
