------------------------------ MODULE Backtest ------------------------------
(***************************************************************************)
(* The backtest of one stock: a day's candle at a time, the exits of the   *)
(* position first, then the strategy's signal.  Money is counted in whole  *)
(* units; what a percentage leaves over is dropped.                        *)
(*                                                                         *)
(* A signal that is too weak for its direction is no signal here.  The     *)
(* value curve, the statistics and the trades' texts are left out: nothing *)
(* the simulation does depends on them.                                    *)
(***************************************************************************)
EXTENDS ExitRules

CONSTANTS
    Candles,    \* the candles a day may have: [open, high, low, close]
    Prices,     \* prices of Candles
    Configs,    \* configurations of a backtest
    MaxDays     \* bound: days of a simulation

(* trailingStopTriggerPct, trailingStopGivebackPct, breakevenTriggerPct, breakevenFloorPct *)
Thresholds == [trigger : Int, giveback : Nat, breakeven : Int, floor : Int]

BacktestConfig ==
    [investment : Nat, tradeRatio : Nat, commission : Nat, sellTax : Nat, slippage : 0 .. 100,
     takeProfit : Int, stopLoss : Int, maxHoldingDays : Nat, ensureMinOneShare : BOOLEAN,
     allowAddOn : BOOLEAN, useNextOpen : BOOLEAN, riskPct : Nat, scaleOut : BOOLEAN,
     tiers : Seq([trigger : Int, ratio : Nat]), runnerTakeProfit : Int,
     normal : Thresholds, runner : Thresholds]

(* The service takes a configuration's numbers as they come: these are what they mean.  A stop lies    *)
(* below the entry, a breakeven floor not above what arms it, and a sale costs at most what it brings. *)
ASSUME BacktestAssumption ==
    /\ MaxDays \in Nat
    /\ Prices \subseteq Nat \ {0}
    /\ Candles \subseteq [open : Prices, high : Prices, low : Prices, close : Prices]
    /\ \A c \in Candles : c.low <= Smaller(c.open, c.close) /\ Larger(c.open, c.close) <= c.high
    /\ Configs \subseteq BacktestConfig
    /\ \A config \in Configs :
        /\ config.stopLoss < 0
        /\ config.normal.floor <= config.normal.breakeven
        /\ config.runner.floor <= config.runner.breakeven
        /\ config.commission + config.sellTax <= 100

VARIABLES
    cfg,       \* configuration of the backtest
    day,       \* candles seen
    signal,    \* yesterday's signal
    pos,       \* the position
    cash,      \* cash
    realized,  \* totalRealizedPnl
    fees       \* commissions of the buys, as the trades record them

simulationVars == <<cfg, day, signal, pos, cash, realized, fees>>

Flat == [qty |-> 0, paid |-> 0, high |-> 0, stage |-> 0, age |-> 0]
Signals == {"none", "buy", "sell"}

SimulationInit ==
    /\ cfg \in Configs
    /\ day = 0 /\ signal = "none"
    /\ pos = Flat
    /\ cash = cfg.investment /\ realized = 0 /\ fees = 0

Part(amount, pct) == (amount * pct) \div 100

-----------------------------------------------------------------------------
(* Money and position: an account is [pos, cash, realized, fees]. *)

(* reducePosition: slippage, commission and tax; a tier moves the stage on unless nothing is left. *)
Sell(account, sale) ==
    LET p == account.pos
        amount == sale.qty * (sale.at - Part(sale.at, cfg.slippage))
        costs == Part(amount, cfg.commission) + Part(amount, cfg.sellTax)
        cost == (p.paid * sale.qty) \div p.qty
    IN  [account EXCEPT
           !.pos = IF sale.qty = p.qty THEN Flat
                   ELSE [p EXCEPT !.qty = @ - sale.qty, !.paid = @ - cost,
                                  !.stage = IF sale.why = "tier" THEN @ + 1 ELSE @],
           !.cash = @ + amount - costs,
           !.realized = @ + amount - cost - costs]

(* The fewest shares of: the risk budget at the stop, the budget; nothing when neither buys one. *)
RiskQty(fill, budget) ==
    Smaller((cfg.investment * cfg.riskPct) \div (fill * (-cfg.stopLoss)), budget \div fill)

(* computeBacktestBuyQty *)
BuyQty(account, fill, budget) ==
    LET plain == budget \div fill
        affordable == ((account.cash * 100) \div (100 + cfg.commission)) \div fill
        least == IF cfg.ensureMinOneShare /\ account.pos.qty = 0 /\ plain = 0 /\ affordable >= 1
                   THEN 1 ELSE plain
    IN  IF cfg.riskPct = 0 \/ account.pos.qty > 0 THEN least ELSE Smaller(RiskQty(fill, budget), least)

(* Mutant: the amount does not leave room for the commission. *)
BudgetWithoutCommission(account) == Smaller(Part(cfg.investment, cfg.tradeRatio), account.cash)

(* What a buy may cost, with its commission still affordable. *)
Budget(account) ==
    Smaller(Part(cfg.investment, cfg.tradeRatio), (account.cash * 100) \div (100 + cfg.commission))

Buy(account, price) ==
    LET p == account.pos
        fill == price + Part(price, cfg.slippage)
        qty == BuyQty(account, fill, Budget(account))
        fee == Part(qty * fill, cfg.commission)
    IN  IF qty = 0 THEN account
        ELSE [account EXCEPT
                !.pos = [qty |-> p.qty + qty, paid |-> p.paid + qty * fill,
                         high |-> IF p.qty = 0 THEN fill ELSE Larger(p.high, fill),
                         stage |-> 0, age |-> p.age],
                !.cash = @ - qty * fill - fee,
                !.fees = @ + fee]

Account == [pos |-> pos, cash |-> cash, realized |-> realized, fees |-> fees]

-----------------------------------------------------------------------------
(* The position at the beginning of the next candle. *)
Today == [pos EXCEPT !.age = @ + 1]

Sales(candle) == IF pos.qty = 0 THEN <<>> ELSE BacktestSales(cfg, Today, candle)

(* The highest price the position has seen: the day's high only if it was not sold at the open. *)
Seen(candle) ==
    LET open == Peak(Today, candle.open)
    IN  IF FirstHit(GapRules(cfg, Today, candle)).hit THEN open
        ELSE Peak([Today EXCEPT !.high = open], candle.high)

(* A candle has at most two sales: a tier, and the stop for the rest. *)
SellAll(account, sales) ==
    CASE Len(sales) = 0 -> account
      [] Len(sales) = 1 -> Sell(account, sales[1])
      [] OTHER -> Sell(Sell(account, sales[1]), sales[2])

AfterExits(candle) ==
    IF pos.qty = 0 THEN [done |-> FALSE, account |-> Account]
    ELSE [done |-> Sales(candle) # <<>>,
          account |-> SellAll([Account EXCEPT !.pos = [Today EXCEPT !.high = Seen(candle)]],
                              Sales(candle))]

(* The signal that is acted on and its price: yesterday's at the open, or today's at the close. *)
Acts(candle, today) ==
    IF cfg.useNextOpen THEN [signal |-> signal, price |-> candle.open]
                       ELSE [signal |-> today, price |-> candle.close]

AfterSignal(account, act) ==
    CASE act.signal = "buy" /\ (account.pos.qty = 0 \/ cfg.allowAddOn) /\ Budget(account) > 0 ->
           Buy(account, act.price)
      [] act.signal = "sell" /\ account.pos.qty > 0 ->
           Sell(account, Rule("signal", TRUE, act.price, account.pos.qty))
      [] OTHER -> account

Candle(candle, today) ==
    LET exits == AfterExits(candle)
        after == IF exits.done THEN exits.account
                 ELSE AfterSignal(exits.account, Acts(candle, today))
    IN  /\ day < MaxDays
        /\ day' = day + 1
        /\ signal' = today
        /\ pos' = after.pos /\ cash' = after.cash
        /\ realized' = after.realized /\ fees' = after.fees
        /\ UNCHANGED cfg

SimulationNext == \E candle \in Candles, today \in Signals : Candle(candle, today)

SimulationSpec == SimulationInit /\ [][SimulationNext]_simulationVars

-----------------------------------------------------------------------------
(* The comment in simulate: gaps sell at the open because a threshold that was jumped over was never *)
(* traded.  Whatever candle comes, every sale is at a price between its low and its high: a breakeven *)
(* floor or a trailing stop the price fell through overnight is not sold at the line.  And a position *)
(* that is still held after the exits of a day has not touched its stop on that day, also when TP1    *)
(* sold a part of it.                                                                                *)
FillsWithinCandle ==
    pos.qty > 0 =>
        \A c \in Candles :
            /\ \A k \in DOMAIN Sales(c) : Sales(c)[k].at \in c.low .. c.high
            /\ AfterExits(c).account.pos.qty > 0 => ~NotAbove(Today, c.low, cfg.stopLoss)

(* reducePosition and the buy: the cash never becomes negative, and what was put in is the cash, the *)
(* cost of the position and the commissions of buys, less the result that was realized.              *)
Books == cash >= 0 /\ cash + pos.paid + fees = cfg.investment + realized

Still(price) == [open |-> price, high |-> price, low |-> price, close |-> price]

(* The comment next to both tables of constants, that backtest and live trading use the same values: *)
(* with the same thresholds they also take the same decision.  When the price does not move for a day *)
(* the backtest sells exactly what the live engine sells at that price, for the same reason.          *)
EngineAgrees ==
    pos.qty > 0 =>
        \A price \in Prices :
            LET sale == EngineSale(cfg, Today, price)
            IN  Sales(Still(price)) = IF sale = NoSale THEN <<>> ELSE <<sale>>
=============================================================================
