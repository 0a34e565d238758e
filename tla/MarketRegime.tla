---------------------------- MODULE MarketRegime ----------------------------
(***************************************************************************)
(* The market regime of a scan: how broad the market rises, smoothed over  *)
(* the scans and turned into a label with bands that differ for entering   *)
(* and leaving it.  Scores are percentages; a smoothed score is rounded    *)
(* down to a multiple of Grain, which keeps their number small.            *)
(***************************************************************************)
EXTENDS Integers

Labels == {"CRISIS", "NEUTRAL", "ATTACK"}

Grain == 5

(* DEFAULT_MARKET_REGIME_OPTIONS *)
CrisisEnter == 35
CrisisExit == 45
AttackEnter == 65
AttackExit == 55
MinHoldDays == 1

(* The mean of trend, momentum and volatility components with weights 0.4, 0.2 and 0.4. *)
RawScore(breadth) == (2 * breadth.trend + breadth.momentum + 2 * breadth.calm) \div 5

(* alpha = 2 / (5 + 1); prev is the smoothed score of the scan before, or -1. *)
Smoothed(raw, prev) ==
    LET score == IF prev = -1 THEN raw ELSE (raw + 2 * prev) \div 3
    IN  score - (score % Grain)

(* Mutant: the crisis ends where it begins. *)
ResolveWithoutBand(score, prev) ==
    CASE score < CrisisEnter -> "CRISIS"
      [] score > AttackEnter \/ (prev = "ATTACK" /\ score > AttackExit) -> "ATTACK"
      [] OTHER -> "NEUTRAL"

(* resolveLabel *)
Resolve(score, prev) ==
    LET crisis == IF prev = "CRISIS" THEN score < CrisisExit ELSE score < CrisisEnter
        attack == IF prev = "ATTACK" THEN score > AttackExit ELSE score > AttackEnter
    IN  IF crisis THEN "CRISIS" ELSE IF attack THEN "ATTACK" ELSE "NEUTRAL"

(* shouldKeepPreviousLabel: age is the time since updatedAt in days, which every scan renews. *)
KeepsLabel(label, state) == state.label # "none" /\ state.label # label /\ state.age < MinHoldDays

(* computeMarketRegime of enough stocks; state is the file, [score, label, age], with label "none" if it *)
(* is missing or damaged.                                                                               *)
Regime(breadth, state) ==
    LET score == Smoothed(RawScore(breadth), state.score)
        label == Resolve(score, state.label)
    IN  [score |-> score, label |-> IF KeepsLabel(label, state) THEN state.label ELSE label]
=============================================================================
