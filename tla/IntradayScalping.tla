--------------------------- MODULE IntradayScalping ---------------------------
(***************************************************************************)
(* The one-minute candles of one stock and the entry signal of the         *)
(* scalping strategy (IntradayScalpingTracker).  Trades bear the time of   *)
(* day and no date; a few of them come late.                               *)
(*                                                                         *)
(* The quotes of a trade are reduced to two verdicts: sound (the spread,   *)
(* the distance from the day's average price and the day's gain are within *)
(* their limits) and strong (executionStrength).  Every trade has the same *)
(* volume, so a candle counts its trades; prices are positive, and times   *)
(* well-formed.                                                            *)
(***************************************************************************)
EXTENDS Integers, SequencesExt, FiniteSetsExt

CONSTANTS
    Times,            \* times of a day, PerMinute to the minute
    PerMinute,
    Rollback,         \* minutes a trade lies back when it is of another day (120)
    MaxCandles,
    MinCompleted,     \* minCompletedCandles
    Fast, Slow,       \* candles of the two averages (3 and 5)
    EntryTimes,       \* from entryStartTime to entryEndTime
    MinConfirmations,
    Quotes,           \* what a trade may say: [kind, halted, price, sound, strong]
    MaxDelay,         \* a late trade is at most so late
    FirstMinutes,     \* the first trade of a day is one of these minutes
    MaxVolume,        \* bound: trades of a candle
    MaxDays           \* bound: days

(* A late trade is not so late that it would begin another day. *)
ASSUME ScalpingAssumption ==
    /\ Times \subseteq Nat /\ FirstMinutes \subseteq Nat
    /\ PerMinute \in Nat \ {0} /\ Rollback \in Nat \ {0}
    /\ MinCompleted \in Nat /\ Fast \in 1 .. MinCompleted /\ Slow \in 1 .. MinCompleted
    /\ MaxCandles \in Nat /\ MinCompleted <= MaxCandles
    /\ MaxDelay \in Nat /\ MaxDelay <= (Rollback - 1) * PerMinute
    /\ Quotes \subseteq [kind : {"regular", "other"}, halted : BOOLEAN, price : Nat, sound : BOOLEAN,
                       strong : BOOLEAN]
    /\ \A q \in Quotes : q.halted => q.kind = "other"

VARIABLES
    current,    \* the candle of the current minute
    completed,  \* the candles before it
    latest,     \* latestExecution, with its time
    fresh,      \* latestReceivedAt is not more than maxTickAgeMs ago
    day,        \* days begun
    bars,       \* the regular trades of today that came in order, as a candle per minute
    seen        \* the last trade of today that came in order, and whether it came recently

trackerVars == <<current, completed, latest, fresh>>
scalpingVars == <<trackerVars, day, bars, seen>>

None == [minute |-> -1]
Minutes == {t \div PerMinute : t \in Times}

ScalpingInit ==
    /\ current = None /\ completed = <<>> /\ latest = None /\ fresh = FALSE
    /\ day = 1 /\ bars = [m \in Minutes |-> None] /\ seen = None

MinuteOf(trade) == trade.time \div PerMinute

-------------------------------------------------------------------------------
(* Candles. *)

CreateCandle(trade) ==
    [minute |-> MinuteOf(trade), open |-> trade.price, high |-> trade.price, low |-> trade.price,
     close |-> trade.price, volume |-> 1]

UpdateCandle(candle, trade) ==
    [candle EXCEPT !.high = Max({@, trade.price}), !.low = Min({@, trade.price}),
                   !.close = trade.price, !.volume = @ + 1]

(* The last n elements. *)
LastOf(s, n) == SubSeq(s, Max({1, Len(s) - n + 1}), Len(s))

Rewound(trade) == latest # None /\ trade.time < latest.time

(* Mutant: every trade that lies back begins another day. *)
BeginsDayWhenRewound(trade) == Rewound(trade) /\ current # None

(* A trade far behind the current candle is of the next day: there is no date to tell. *)
BeginsDay(trade) == Rewound(trade) /\ current # None /\ current.minute - MinuteOf(trade) >= Rollback

IsLate(trade) == Rewound(trade) /\ ~BeginsDay(trade)

(* What is left of the candles when the trade is looked at. *)
Open(trade) == IF BeginsDay(trade) THEN None ELSE current
Closed(trade) == IF BeginsDay(trade) THEN <<>> ELSE completed

Keep(trade) == latest' = trade /\ fresh' = TRUE

(* Mutant: a trade outside regular trading is passed over altogether. *)
RecordOtherIgnored(trade) == UNCHANGED trackerVars

(* A halt, or a trade outside regular trading, is the latest one but not part of a candle. *)
RecordOther(trade) ==
    /\ current' = Open(trade) /\ completed' = Closed(trade)
    /\ Keep(trade)

(* The first trade of another minute completes the candle before. *)
RecordRegular(trade) ==
    LET open == Open(trade)
    IN  /\ IF open # None /\ open.minute = MinuteOf(trade)
             THEN current' = UpdateCandle(open, trade) /\ completed' = Closed(trade)
             ELSE /\ current' = CreateCandle(trade)
                  /\ completed' = IF open = None THEN Closed(trade)
                                  ELSE LastOf(Append(Closed(trade), open), MaxCandles)
        /\ Keep(trade)

(* record; a trade that is not late is never older than the current candle. *)
Record(trade) ==
    CASE IsLate(trade) -> UNCHANGED trackerVars
      [] ~IsLate(trade) /\ trade.kind = "other" -> RecordOther(trade)
      [] ~IsLate(trade) /\ trade.kind = "regular" -> RecordRegular(trade)

-------------------------------------------------------------------------------
(* evaluate *)

SumOf(s) == FoldLeft(LAMBDA total, x : total + x, 0, s)
Closes(candles) == [i \in DOMAIN candles |-> candles[i].close]
Volumes(candles) == [i \in DOMAIN candles |-> candles[i].volume]

(* The short average is above the long one, and the last candle closed above both. *)
TrendUp(candles) ==
    LET fast == SumOf(LastOf(Closes(candles), Fast))
    IN  /\ fast * Slow > SumOf(LastOf(Closes(candles), Slow)) * Fast
        /\ Last(candles).close * Fast > fast

(* Of four signs of momentum, those that are given. *)
Confirmations(candles) ==
    LET last == Last(candles)
        before == Volumes(Front(candles))
        sign == << last.close > last.open /\ (last.close - last.low) * 100 >= 65 * (last.high - last.low),
                   before # <<>> /\ last.volume * Len(before) >= SumOf(before),
                   latest.strong,
                   latest.price >= last.close >>
    IN  Cardinality({i \in DOMAIN sign : sign[i]})

(* Only completed candles count, so that the trend does not turn within a minute. *)
ShouldBuy ==
    /\ latest # None /\ fresh
    /\ latest.time \in EntryTimes /\ latest.kind = "regular"
    /\ Len(completed) >= MinCompleted
    /\ latest.sound
    /\ TrendUp(LastOf(completed, MinCompleted))
    /\ Confirmations(LastOf(completed, MinCompleted)) >= MinConfirmations

-------------------------------------------------------------------------------
(* The exchange. *)

InOrder(trade) == seen = None \/ trade.time >= seen.time

(* A trade of today: in order, or a little late; the first one of a day comes in the morning, unless *)
(* the stock was not followed then.                                                                  *)
Trade(trade) ==
    /\ IF seen = None THEN latest = None \/ MinuteOf(trade) \in FirstMinutes
                      ELSE seen.time - trade.time <= MaxDelay
    /\ LET bar == bars[MinuteOf(trade)]
       IN  /\ bar # None => bar.volume < MaxVolume
           /\ IF InOrder(trade) /\ trade.kind = "regular"
                THEN bars' = [bars EXCEPT ![MinuteOf(trade)] =
                                IF bar = None THEN CreateCandle(trade) ELSE UpdateCandle(bar, trade)]
                ELSE UNCHANGED bars
    /\ seen' = IF InOrder(trade) THEN [time |-> trade.time, kind |-> trade.kind, recent |-> TRUE] ELSE seen
    /\ Record(trade)
    /\ UNCHANGED day

(* More than maxTickAgeMs without a trade. *)
TimePasses ==
    /\ seen # None /\ seen.recent /\ seen' = [seen EXCEPT !.recent = FALSE]
    /\ fresh' = FALSE
    /\ UNCHANGED <<current, completed, latest, day, bars>>

(* "After the candles of three o'clock, trades of nine o'clock again": a day is traded to the        *)
(* afternoon.  (After one without a regular trade the tracker takes the next one's for late.)       *)
IsAfternoon(minute) == \A m \in FirstMinutes : minute - m >= Rollback

NextDay ==
    /\ day < MaxDays /\ day' = day + 1
    /\ current # None /\ IsAfternoon(current.minute)
    /\ seen' = None /\ bars' = [m \in Minutes |-> None]
    /\ fresh' = FALSE
    /\ UNCHANGED <<current, completed, latest>>

(* clearStock and clearAll: the last session of the stock is paused, or the service stops; what the *)
(* stock is traded for after that is drawn anew.                                                    *)
ClearStock ==
    /\ current' = None /\ completed' = <<>> /\ latest' = None /\ fresh' = FALSE
    /\ bars' = [m \in Minutes |-> None] /\ seen' = None
    /\ UNCHANGED day

TradeOf(time, q) ==
    [time |-> time, kind |-> q.kind, halted |-> q.halted, price |-> q.price, sound |-> q.sound,
     strong |-> q.strong]

ScalpingNext ==
    \/ \E t \in Times, q \in Quotes : Trade(TradeOf(t, q))
    \/ TimePasses \/ NextDay \/ ClearStock

ScalpingSpec == ScalpingInit /\ [][ScalpingNext]_scalpingVars

-------------------------------------------------------------------------------
(* What the tracker has of today, the oldest candle first. *)
Candles == completed \o (IF current = None THEN <<>> ELSE <<current>>)

(* The comments in record: late trades must not spoil closed candles, and candles of the day before *)
(* do not stay when the next one begins.  However trades are delayed, halted or of the next day,    *)
(* the tracker has today's candles as the exchange would draw them from the trades in order, and no *)
(* others: one for each minute with a regular trade, or the last ones of them.                      *)
CandlesAreTodays ==
    seen # None =>
        /\ \A k \in DOMAIN Candles : Candles[k].minute \in Minutes /\ Candles[k] = bars[Candles[k].minute]
        /\ \A j, k \in DOMAIN Candles : j < k => Candles[j].minute < Candles[k].minute
        /\ Len(Candles) <= MaxCandles + 1
        /\ \A m \in Minutes :
             bars[m] # None =>
                 \/ \E k \in DOMAIN Candles : Candles[k] = bars[m]
                 \/ Len(Candles) = MaxCandles + 1 /\ m < Candles[1].minute

(* The test "a halted trade": the signal of the trade before a halt is not used during the halt, nor *)
(* one that is too old, nor one of yesterday.                                                       *)
EntryFollowsLastTrade == ShouldBuy => seen # None /\ seen.recent /\ seen.kind = "regular"
===============================================================================
