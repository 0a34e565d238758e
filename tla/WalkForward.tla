----------------------------- MODULE WalkForward -----------------------------
(***************************************************************************)
(* The walk-forward check of a strategy: the candles of six months are cut *)
(* into folds, a fold trades on its in-sample part, which always begins at *)
(* the first candle, and is judged on the out-of-sample part behind it.    *)
(*                                                                         *)
(* What a simulation returns is data here: a run says for every fold, and  *)
(* for the single split, whether there were enough trades and what the two *)
(* parts returned.                                                         *)
(***************************************************************************)
EXTENDS Integers, FiniteSets, FiniteSetsExt

CONSTANTS
    MinInSample,   \* MIN_IN_SAMPLE_LENGTH
    MinOos,        \* MIN_OOS_LENGTH
    MaxFolds       \* the smaller of HARD_WF_MAX_FOLDS and WF_MAX_FOLDS

ASSUME WalkForwardAssumption ==
    /\ MinInSample \in Nat \ {0}
    /\ MinOos \in Nat \ {0}
    /\ MaxFolds \in 1 .. 3

MinValidFolds == 2

Fold(index, oosStart, oosEnd) == [index |-> index, oosStart |-> oosStart, oosEnd |-> oosEnd]

(* The single split: two thirds and one third. *)
LegacyFold(n) == Fold(-1, (2 * n) \div 3, n)

LongEnough(fold) == fold.oosStart >= MinInSample /\ fold.oosEnd - fold.oosStart >= MinOos

(* Number and length of the rolling folds of n candles. *)
FoldCount(n) ==
    LET possible == (n - MinInSample) \div MinOos
    IN  IF possible < MaxFolds THEN possible ELSE MaxFolds
OosLength(n) == (n - MinInSample + FoldCount(n) - 1) \div FoldCount(n)

(* Mutant: the windows overlap by one candle. *)
RollingFoldTooLong(n, i) ==
    LET start == MinInSample + i * OosLength(n)
        end == start + OosLength(n) + 1
    IN  Fold(i, start, IF end < n THEN end ELSE n)

RollingFold(n, i) ==
    LET start == MinInSample + i * OosLength(n)
        end == start + OosLength(n)
    IN  Fold(i, start, IF end < n THEN end ELSE n)

RollingFolds(n) ==
    {fold \in {RollingFold(n, i) : i \in 0 .. FoldCount(n) - 1} : fold.oosEnd - fold.oosStart >= MinOos}

(* buildWalkForwardFolds *)
WalkForwardFolds(n, rolling) ==
    IF rolling /\ FoldCount(n) >= MinValidFolds /\ Cardinality(RollingFolds(n)) >= MinValidFolds
      THEN RollingFolds(n)
      ELSE {LegacyFold(n)}

-----------------------------------------------------------------------------
(* Evaluation of a run: [enough, gain, oos] per fold; an evaluation is [ok, gain, oos]. *)

FoldResult == [enough : BOOLEAN, gain : Int, oos : Int]
SimulatedRun == [folds : [0 .. 2 -> FoldResult], legacy : FoldResult]

NotEvaluated == [ok |-> FALSE, gain |-> 0, oos |-> 0]

(* evaluateLegacyWalkForwardFold; strict says that the out-of-sample part must have gained. *)
LegacyEvaluation(n, run, strict) ==
    IF /\ LongEnough(LegacyFold(n)) /\ run.legacy.enough
       /\ run.legacy.gain > 0
       /\ strict => run.legacy.oos > 0
      THEN [ok |-> TRUE, gain |-> run.legacy.gain, oos |-> run.legacy.oos]
      ELSE NotEvaluated

Valid(fold, run) == LongEnough(fold) /\ run.folds[fold.index].enough

(* aggregateBacktestResults: the returns of the folds are compounded, here added. *)
Aggregate(folds, run) ==
    LET oos(i) == IF \E fold \in folds : fold.index = i THEN run.folds[i].oos ELSE 0
    IN  oos(0) + oos(1) + oos(2)

(* simulateWalkForwardRun: too few valid folds fall back to the single split. *)
Evaluation(n, rolling, run, strict) ==
    LET folds == WalkForwardFolds(n, rolling)
        valid == {fold \in folds : Valid(fold, run)}
        last == CHOOSE fold \in valid : \A other \in valid : other.index <= fold.index
    IN  IF folds = {LegacyFold(n)} THEN LegacyEvaluation(n, run, strict)
        ELSE IF Cardinality(valid) < MinValidFolds THEN LegacyEvaluation(n, run, strict)
        ELSE [ok |-> TRUE, gain |-> run.folds[last.index].gain, oos |-> Aggregate(valid, run)]

-----------------------------------------------------------------------------
(* The windows of n candles: out-of-sample windows lie behind a long enough in-sample part, are long *)
(* enough and within the candles, and do not overlap; together they leave out fewer candles at the   *)
(* end than a window needs.                                                                           *)
InBounds(n, fold) == fold.oosStart <= fold.oosEnd /\ fold.oosEnd <= n /\ fold.oosStart \in 0 .. n
Apart(f, g) == f.oosEnd <= g.oosStart \/ g.oosEnd <= f.oosStart

SoundFolds(n, rolling) ==
    LET folds == WalkForwardFolds(n, rolling)
    IN  /\ \A fold \in folds : InBounds(n, fold)
        /\ folds # {LegacyFold(n)} => \A fold \in folds : LongEnough(fold)
        /\ \A f, g \in folds : f # g => Apart(f, g)
        /\ \E fold \in folds : n - fold.oosEnd < MinOos
=============================================================================
