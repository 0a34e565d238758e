------------------------------ MODULE ExitRules ------------------------------
(***************************************************************************)
(* When a position is sold: the rules of the live engine, which sees one   *)
(* price at a time, and those of the backtest, which sees a day's candle.  *)
(* Both share the scale-out ladder of libs/strategies.                     *)
(*                                                                         *)
(* A position is [qty, paid, high, stage, age]: paid is avgBuyPrice * qty, *)
(* high is highestPriceAfterEntry, stage is scaleOutStage, age is the      *)
(* number of trading days since the entry.  Percentages are whole numbers, *)
(* and returns are compared without dividing.                              *)
(***************************************************************************)
EXTENDS Integers, Sequences

Larger(a, b) == IF a >= b THEN a ELSE b
Smaller(a, b) == IF a <= b THEN a ELSE b

(* Return at price at least, and at most, pct percent. *)
Reached(pos, price, pct) == price * 100 * pos.qty >= pos.paid * (100 + pct)
NotAbove(pos, price, pct) == price * 100 * pos.qty <= pos.paid * (100 + pct)

(* The price at which the return is pct percent. *)
PriceAt(pos, pct) == (pos.paid * (100 + pct)) \div (100 * pos.qty)
Average(pos) == PriceAt(pos, 0)

GivenBack(high, price, pct) == price * 100 <= high * (100 - pct)

(* highestPriceAfterEntry once price has been seen. *)
Peak(pos, price) == Larger(Larger(pos.high, price), Average(pos))

Runner(cfg, pos) == cfg.scaleOut /\ pos.stage > 0

(* Trailing and breakeven thresholds: a runner, what TP1 left, has its own. *)
Guards(cfg, pos) == IF Runner(cfg, pos) THEN cfg.runner ELSE cfg.normal

-----------------------------------------------------------------------------
(* The scale-out ladder. *)

(* evaluateScaleOut: only the next tier is looked at. *)
TierDue(cfg, pos, price) ==
    /\ cfg.scaleOut
    /\ pos.stage + 1 \in DOMAIN cfg.tiers
    /\ Reached(pos, price, cfg.tiers[pos.stage + 1].trigger)

(* computeScaleOutSellQty with SCALE_OUT_MIN_REMAINDER_QTY = 1: a remainder of one share is sold too. *)
TierQty(cfg, pos) ==
    LET part == (pos.qty * cfg.tiers[pos.stage + 1].ratio) \div 100
    IN  IF pos.qty - part <= 1 THEN pos.qty ELSE part

TierSells(cfg, pos, price) == TierDue(cfg, pos, price) /\ TierQty(cfg, pos) > 0

HeldTooLong(cfg, pos) == cfg.maxHoldingDays > 0 /\ pos.age >= cfg.maxHoldingDays

-----------------------------------------------------------------------------
(* A rule is [why, hit, at, qty]: whether it applies, the price and the quantity it sells. *)

Rule(why, hit, at, qty) == [why |-> why, hit |-> hit, at |-> at, qty |-> qty]
All(pos, why, hit, at) == Rule(why, hit, at, pos.qty)
Tier(cfg, pos, hit, at) == Rule("tier", hit, at, IF hit THEN TierQty(cfg, pos) ELSE 0)

NoSale == Rule("none", FALSE, 0, 0)

FirstHit(rules) ==
    LET hits == {k \in DOMAIN rules : rules[k].hit}
    IN  IF hits = {} THEN NoSale ELSE rules[CHOOSE k \in hits : \A j \in hits : k <= j]

(* evaluateAndExecuteSell of the live engine, after the grace period. *)
EngineSale(cfg, pos, price) ==
    LET high == Peak(pos, price)
        g == Guards(cfg, pos)
    IN  FirstHit(<< All(pos, "stop", NotAbove(pos, price, cfg.stopLoss), price),
                    All(pos, "runner", Runner(cfg, pos) /\ Reached(pos, price, cfg.runnerTakeProfit), price),
                    Tier(cfg, pos, TierSells(cfg, pos, price), price),
                    All(pos, "profit", Reached(pos, price, cfg.takeProfit) /\ ~Runner(cfg, pos), price),
                    All(pos, "breakeven", Reached(pos, high, g.breakeven) /\ NotAbove(pos, price, g.floor),
                        price),
                    All(pos, "trailing", Reached(pos, high, g.trigger) /\ GivenBack(high, price, g.giveback),
                        price),
                    All(pos, "days", HeldTooLong(cfg, pos), price) >>)

(* Mutant: a gap over a target is sold at the target. *)
GapRulesStopOnly(cfg, pos, candle) ==
    << All(pos, "stop", NotAbove(pos, candle.open, cfg.stopLoss), candle.open) >>

(* simulate, at the open: a gap over a threshold sells at the open, not at the threshold. *)
GapRules(cfg, pos, candle) ==
    LET open == candle.open
        high == Peak(pos, open)
        g == Guards(cfg, pos)
    IN  << All(pos, "stop", NotAbove(pos, open, cfg.stopLoss), open),
           All(pos, "runner", Runner(cfg, pos) /\ Reached(pos, open, cfg.runnerTakeProfit), open),
           Tier(cfg, pos, TierSells(cfg, pos, open), open),
           All(pos, IF Runner(cfg, pos) THEN "runner" ELSE "profit",
               Reached(pos, open, IF Runner(cfg, pos) THEN cfg.runnerTakeProfit ELSE cfg.takeProfit), open),
           All(pos, "breakeven", Reached(pos, high, g.breakeven) /\ NotAbove(pos, open, g.floor), open),
           All(pos, "trailing", Reached(pos, high, g.trigger) /\ GivenBack(high, open, g.giveback), open) >>

(* simulate, during the day: the stop comes first when a candle reaches both ends. *)
DayRules(cfg, pos, candle) ==
    LET high == Peak([pos EXCEPT !.high = Peak(pos, candle.open)], candle.high)
        low == candle.low
        g == Guards(cfg, pos)
    IN  << All(pos, "stop", NotAbove(pos, low, cfg.stopLoss), PriceAt(pos, cfg.stopLoss)),
           All(pos, "runner", Runner(cfg, pos) /\ Reached(pos, candle.high, cfg.runnerTakeProfit),
               PriceAt(pos, cfg.runnerTakeProfit)),
           Tier(cfg, pos, TierSells(cfg, pos, candle.high),
                PriceAt(pos, IF TierDue(cfg, pos, candle.high) THEN cfg.tiers[pos.stage + 1].trigger ELSE 0)),
           All(pos, "profit", Reached(pos, candle.high, cfg.takeProfit) /\ ~Runner(cfg, pos),
               PriceAt(pos, cfg.takeProfit)),
           All(pos, "breakeven", Reached(pos, high, g.breakeven) /\ NotAbove(pos, low, g.floor),
               PriceAt(pos, g.floor)),
           All(pos, "trailing", Reached(pos, high, g.trigger) /\ GivenBack(high, low, g.giveback),
               (high * (100 - g.giveback)) \div 100),
           All(pos, "days", HeldTooLong(cfg, pos), candle.close) >>

(* Mutant: a gap is not looked at. *)
BacktestSalesWithoutGaps(cfg, pos, candle) ==
    LET sale == FirstHit(DayRules(cfg, pos, candle))
    IN  IF sale = NoSale THEN <<>> ELSE <<sale>>

(* The sales of one candle: the first rule that applies, and the stop for what a partial sale leaves. *)
BacktestSales(cfg, pos, candle) ==
    LET sale == FirstHit(GapRules(cfg, pos, candle) \o DayRules(cfg, pos, candle))
        rest == pos.qty - sale.qty
    IN  CASE sale = NoSale -> <<>>
          [] sale.why = "tier" /\ rest > 0 /\ NotAbove(pos, candle.low, cfg.stopLoss) ->
               <<sale, Rule("stop", TRUE, PriceAt(pos, cfg.stopLoss), rest)>>
          [] OTHER -> <<sale>>
=============================================================================
