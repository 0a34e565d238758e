--------------------------- MODULE ScanSelection ---------------------------
(***************************************************************************)
(* How the scheduled scan chooses among the candidates of a scan and       *)
(* divides the cash: applyScanResults and the functions it calls, without  *)
(* the database.  Candidates come in the order the scan ranked them.       *)
(*                                                                         *)
(* Percentages and multipliers are whole percents; the weights, ratios of  *)
(* the inverse volatilities, are kept over a common denominator.           *)
(***************************************************************************)
EXTENDS Integers, Sequences, SequencesExt, FiniteSetsExt

CONSTANTS
    Stocks,
    Sector,        \* the sector of a stock, or NoSector
    Cluster,       \* its correlation cluster, or NoSector
    Price,         \* its latest close, 0 when the scan sent none
    Volatility,    \* its ATR in percent, at least 1
    FirstBuyPct,   \* initialBuyRatioPct of the scan's strategy
    MaxHoldings,   \* MAX_CONCURRENT_HOLDINGS
    HoldingsFloor, \* REGIME_MIN_HOLDINGS_FLOOR
    MaxPerSector,  \* MAX_PER_SECTOR
    MaxPerCluster, \* MAX_PER_CLUSTER
    AmountFloor    \* REGIME_AMOUNT_FLOOR, in percent

NoSector == "unknown"

ASSUME ScanSelectionAssumption ==
    /\ {FirstBuyPct, MaxHoldings, HoldingsFloor, MaxPerSector, MaxPerCluster} \subseteq Nat \ {0}
    /\ AmountFloor \in Nat
    /\ IsFiniteSet(Stocks)
    /\ \A s \in Stocks : Price[s] \in Nat /\ Volatility[s] \in Nat \ {0}

(* What a scan is applied under: whether regime scaling and the cluster cap are switched on, and *)
(* the multipliers market-data sent, in percent.                                                 *)
NoScaling == [on |-> FALSE, slots |-> 100, amount |-> 100, clusters |-> FALSE]

(* Math.round(n * pct / 100) *)
RoundPct(n, pct) == (n * pct + 50) \div 100

EffectiveMaxHoldings(regime) ==
    IF regime.on THEN Max({HoldingsFloor, RoundPct(MaxHoldings, regime.slots)}) ELSE MaxHoldings

AvailableSlots(regime, active) ==
    Max({0, EffectiveMaxHoldings(regime) - Cardinality(active)})

(* Mutant: only the candidates count against a sector, not what is active already. *)
RoomInSectorOfCandidates(s, counted, picked) ==
    Sector[s] = NoSector
    \/ Cardinality({t \in Range(picked) : Sector[t] = Sector[s]}) < MaxPerSector

(* counted: the active stocks whose sector could be looked up. *)
RoomInSector(s, counted, picked) ==
    Sector[s] = NoSector
    \/ Cardinality({t \in counted \cup Range(picked) : Sector[t] = Sector[s]}) < MaxPerSector

RoomInCluster(s, active, picked) ==
    Cluster[s] = NoSector
    \/ Cardinality({t \in active \cup Range(picked) : Cluster[t] = Cluster[s]}) < MaxPerCluster

Admits(s, active, counted, regime, picked) ==
    /\ s \notin active
    /\ Len(picked) < AvailableSlots(regime, active)
    /\ RoomInSector(s, counted, picked)
    /\ regime.clusters => RoomInCluster(s, active, picked)

With(picked, s, admitted) == IF admitted THEN Append(picked, s) ELSE picked

(* The stocks of a list that are members of a set. *)
Among(list, members) ==
    LET kept[n \in 0 .. Len(list)] ==
          IF n = 0 THEN <<>> ELSE With(kept[n - 1], list[n], list[n] \in members)
    IN  kept[Len(list)]

(* One candidate after the other, the best first. *)
FilterCandidates(ranked, active, counted, regime) ==
    LET picked[n \in 0 .. Len(ranked)] ==
          IF n = 0 THEN <<>>
          ELSE With(picked[n - 1], ranked[n], Admits(ranked[n], active, counted, regime, picked[n - 1]))
    IN  picked[Len(ranked)]

-----------------------------------------------------------------------------
(* The cash. *)

AllocatedBudget(cash, regime) ==
    IF regime.on THEN Min({cash, RoundPct(cash, Max({AmountFloor, regime.amount}))}) ELSE cash

(* The least investment whose first buy is one share: Math.ceil(price / ratio). *)
MinimumInvestment(s) == (Price[s] * 100 + FirstBuyPct - 1) \div FirstBuyPct

Total(amounts) ==
    LET sum[n \in 0 .. Len(amounts)] == IF n = 0 THEN 0 ELSE sum[n - 1] + amounts[n]
    IN  sum[Len(amounts)]

Minimums(chosen) == [i \in DOMAIN chosen |-> MinimumInvestment(chosen[i])]

(* What is left of a budget after the minimum of every chosen stock. *)
LeftOver(budget, chosen) == budget - Total(Minimums(chosen))

Affordable(budget, candidates) ==
    LET chosen[n \in 0 .. Len(candidates)] ==
          IF n = 0 THEN <<>>
          ELSE With(chosen[n - 1], candidates[n],
                    MinimumInvestment(candidates[n]) <= LeftOver(budget, chosen[n - 1]))
    IN  chosen[Len(candidates)]

(* Of n chosen stocks: the product of the others' volatilities is the inverse volatility over *)
(* a common denominator; the weight, whose mean is 1, is kept between one half and two.       *)
InverseVolatility(chosen, i) ==
    LET product[n \in 0 .. Len(chosen)] ==
          IF n = 0 THEN 1 ELSE product[n - 1] * (IF n = i THEN 1 ELSE Volatility[chosen[n]])
    IN  product[Len(chosen)]

Weights(chosen) ==
    LET inverse == [i \in DOMAIN chosen |-> InverseVolatility(chosen, i)]
        mean == Total(inverse)
    IN  [i \in DOMAIN chosen |-> Max({mean, Min({4 * mean, 2 * Len(chosen) * inverse[i]})})]

(* Every stock but the last gets its share rounded down, the last one what remains. *)
WeightedInvestments(chosen, budget) ==
    LET weights == Weights(chosen)
        share == [i \in 1 .. Len(chosen) - 1 |-> (budget * weights[i]) \div Total(weights)]
    IN  [i \in DOMAIN chosen |-> IF i < Len(chosen) THEN share[i] ELSE budget - Total(share)]

Investments(chosen, budget) ==
    [i \in DOMAIN chosen |->
        MinimumInvestment(chosen[i])
          + WeightedInvestments(chosen, LeftOver(budget, chosen))[i]]
=============================================================================
