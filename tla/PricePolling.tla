----------------------------- MODULE PricePolling -----------------------------
(* The round-robin poller of current prices (AutoTradingService): every active stock has one,        *)
(* because a quiet or lost websocket leaves its price old, and at most maxInFlight are asked at a    *)
(* time so that slow answers do not pile up. A failure delays the next question of that stock.       *)
(*                                                                                                   *)
(* Two ages of a price are told apart, and of the time of the next question whether it has come.     *)
(* Which stocks are active is decided in RealtimeFeed.                                               *)
EXTENDS QuoteGate, FiniteSets

CONSTANTS
    Stocks,         \* as numbers
    SlotSettings    \* values of PRICE_POLL_MAX_IN_FLIGHT

ASSUME PollingAssumption == SlotSettings \subseteq Nat \ {0} /\ Stocks \subseteq Nat \ {0}

VARIABLES
    maxInFlight,    \* PRICE_POLL_MAX_IN_FLIGHT, read at the start
    active,         \* activeStockCodes
    polling,        \* pollingStockCodes, in the order of their registration
    cursor,         \* pricePollCursor
    inFlight,       \* pollingInFlight
    later,          \* stocks whose nextPricePollAt is still to come
    failing,        \* stocks in pricePollingFailureCounts
    price,          \* latestPrices and latestPriceUpdatedAt: "none", "fresh" or "old"
    asks            \* the stock a request asks for

pollVars == <<maxInFlight, active, polling, cursor, inFlight, later, failing, price, asks>>
vars == <<gateVars, pollVars>>

Nobody == 0
Started(c) == asks[c] # Nobody

Init ==
    /\ GateInit
    /\ maxInFlight \in SlotSettings
    /\ active = {} /\ polling = <<>> /\ cursor = 0
    /\ inFlight = {} /\ later = {} /\ failing = {}
    /\ price = [s \in Stocks |-> "none"]
    /\ asks = [c \in Requests |-> Nobody]

------------------------------------------------------------------------------
(* Questions begin, each in a request of its own. *)
Poll(asked) ==
    LET free == {c \in Requests : ~Started(c)}
        Turn(c) == Cardinality({d \in free : d <= c})
        starts == {c \in free : Turn(c) <= Len(asked)} IN
    /\ Len(asked) <= Cardinality(free)
    /\ asks' = [c \in Requests |-> IF c \in starts THEN asked[Turn(c)] ELSE asks[c]]
    /\ quote' = [c \in Requests |-> IF c \in starts THEN Asked ELSE quote[c]]
    /\ inFlight' = inFlight \cup ToSet(asked)
    /\ UNCHANGED <<bucket, toss, accepted, kisToken>>

(* A session of a stock becomes active, or the last one ceases to be. A stock without a price is     *)
(* asked for at once, unless an answer that came after its last session has counted as a failure;    *)
(* the first stock starts the timer, with a round of its own.                                        *)
Activate(s) ==
    /\ s \notin active
    /\ active' = active \cup {s}
    /\ polling' = Append(polling, s)
    /\ later' = IF price[s] = "none" /\ s \notin failing THEN later \ {s} ELSE later
    /\ LET first == IF polling = <<>> /\ s \notin later' THEN <<s>> ELSE <<>>
       IN  Poll(first) /\ cursor' = IF first = <<>> THEN cursor ELSE 0
    /\ UNCHANGED <<maxInFlight, failing, price>>

(* stopPricePolling forgets a question that is under way, but does not end it. *)
Deactivate(s) ==
    /\ s \in active
    /\ active' = active \ {s}
    /\ polling' = SelectSeq(polling, LAMBDA t : t # s)
    /\ inFlight' = inFlight \ {s} /\ later' = later \ {s} /\ failing' = failing \ {s}
    /\ price' = [price EXCEPT ![s] = "none"]
    /\ UNCHANGED <<gateVars, maxInFlight, cursor, asks>>

(* A trade on the websocket. *)
SetLatestPrice(s) ==
    /\ s \in active /\ price' = [price EXCEPT ![s] = "fresh"]
    /\ UNCHANGED <<gateVars, maxInFlight, active, polling, cursor, inFlight, later, failing, asks>>

(* The engine finds the price too old for a decision and asks for a poll, unless the last one failed. *)
GetReliablePrice(s) ==
    /\ s \in active /\ price[s] # "fresh" /\ s \notin failing
    /\ later' = later \ {s}
    /\ UNCHANGED <<gateVars, maxInFlight, active, polling, cursor, inFlight, failing, price, asks>>

ShouldPoll(s) == s \in active /\ s \notin inFlight /\ s \notin later /\ price[s] # "fresh"

(* The stock i places behind a cursor. *)
Behind(at, i) == polling[((at + i) % Len(polling)) + 1]
Positions == 0 .. (Len(polling) - 1)
Slots == maxInFlight - Cardinality(inFlight)

(* Mutant: the next round starts with the stock the last one ended with. *)
CursorAt(i) == i % Len(polling)

CursorAfter(i) == (i + 1) % Len(polling)

(* The loop of a round: one lap in steps from the cursor, which each question moves while the step is *)
(* counted on, so that the stock behind one that is asked is passed over.                            *)
Round ==
    LET lap[i \in 0 .. Len(polling)] ==
            IF i = 0 THEN [cursor |-> cursor, asked |-> <<>>]
            ELSE LET last == lap[i - 1]
                     s == Behind(last.cursor, i - 1) IN
                 IF Len(last.asked) < Slots /\ ShouldPoll(s) /\ s \notin ToSet(last.asked)
                 THEN [cursor |-> CursorAfter(last.cursor + i - 1), asked |-> Append(last.asked, s)]
                 ELSE last
    IN lap[Len(polling)]

(* A tick of the timer: stocks that are due take the slots. *)
RunPricePollingRound ==
    /\ Round.asked # <<>>
    /\ Poll(Round.asked)
    /\ cursor' = Round.cursor
    /\ UNCHANGED <<maxInFlight, active, polling, later, failing, price>>

(* The end of pollCurrentPrice: the price counts if the stock is active, now or again; a failure and *)
(* a price both put the next question off. The mark is removed for the stock, whoever set it.        *)
PollEnds(c) ==
    /\ Ended(c)
    /\ LET s == asks[c]
           good == quote[c].at = "price" IN
       /\ price' = IF good /\ s \in active THEN [price EXCEPT ![s] = "fresh"] ELSE price
       /\ failing' = IF ~good THEN failing \cup {s} ELSE IF s \in active THEN failing \ {s} ELSE failing
       /\ later' = IF good /\ s \notin active THEN later ELSE later \cup {s}
       /\ inFlight' = inFlight \ {s}
    /\ asks' = [asks EXCEPT ![c] = Nobody]
    /\ quote' = [quote EXCEPT ![c] = NoQuote]
    /\ UNCHANGED <<bucket, toss, accepted, kisToken, maxInFlight, active, polling, cursor>>

(* Time passes. *)
TimeComes(s) ==
    /\ s \in later /\ later' = later \ {s}
    /\ UNCHANGED <<gateVars, maxInFlight, active, polling, cursor, inFlight, failing, price, asks>>

PriceAges(s) ==
    /\ price[s] = "fresh" /\ price' = [price EXCEPT ![s] = "old"]
    /\ UNCHANGED <<gateVars, maxInFlight, active, polling, cursor, inFlight, later, failing, asks>>

Gate == GateStep /\ UNCHANGED pollVars

Next ==
    \/ Gate \/ RunPricePollingRound
    \/ \E c \in Requests : PollEnds(c)
    \/ \E s \in Stocks :
          \/ Activate(s) \/ Deactivate(s)
          \/ SetLatestPrice(s) \/ GetReliablePrice(s) \/ TimeComes(s) \/ PriceAges(s)

SomebodyWaits(bs) == \E b \in bs : bucket[b].queue # <<>>

(* Timers fire, and a request of either service ends with an answer, an error or its time limit. *)
Fairness ==
    /\ WF_vars(RunPricePollingRound)
    /\ WF_vars(RefillKis /\ SomebodyWaits({"kis"}) /\ UNCHANGED pollVars)
    /\ WF_vars(RefillToss /\ SomebodyWaits({"auth", "market"}) /\ UNCHANGED pollVars)
    /\ WF_vars((TokenIssued \/ \E unauthorized \in BOOLEAN : TokenRefused(unauthorized)) /\ UNCHANGED pollVars)
    /\ \A c \in Requests : WF_vars(PollEnds(c) \/ (RequestStep(c) /\ UNCHANGED pollVars))
    /\ \A s \in Stocks : WF_vars(TimeComes(s))

Spec == Init /\ [][Next]_vars /\ Fairness

------------------------------------------------------------------------------
(* invalidateToken: a refusal that arrives late, when another request has had a new token issued,    *)
(* does not throw the new one away: only a token Toss has ceased to accept is discarded.             *)
GoodTokenKept == [][toss.token # NoToken /\ toss'.token = NoToken => toss.token # accepted]_vars

(* A round asks for a stock that lies behind s, counted from where the round began, and not for s    *)
(* itself, although s is due.                                                                        *)
PassesOver(s) ==
    /\ ShouldPoll(s) /\ s \notin inFlight'
    /\ \E i, j \in Positions : i < j /\ Behind(cursor, i) = s /\ Behind(cursor, j) \in inFlight' \ inFlight

(* runPricePollingRound "looks at one lap from the last position" (auto-trading.service.ts:3339), a   *)
(* round-robin (310, 324): no stock that is due is passed over for one behind it.                    *)
LapSkipsNobody == [][\A s \in Stocks : ~PassesOver(s)]_vars

(* However many other stocks fail, recover, come and go and use up the slots, a stock whose price is *)
(* old is asked for, receives a trade, or is no longer active, unless rounds pass it over for ever.  *)
OldPriceIsAsked ==
    \A s \in Stocks :
        <>[][~PassesOver(s)]_vars
          => ((s \in active /\ price[s] # "fresh") ~> (s \in inFlight \/ s \notin active \/ price[s] = "fresh"))
==============================================================================
