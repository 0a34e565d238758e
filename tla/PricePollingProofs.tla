------------------------- MODULE PricePollingProofs -------------------------
(***************************************************************************)
(* Theorems about what becomes of prices.  First, the Toss token of        *)
(* PricePolling for any number of stocks, requests and tokens, any buckets *)
(* and any settings.  Then, the candles of IntradayScalping for any times  *)
(* and quotes, any length of a minute and any number of candles.  Last,    *)
(* the orders that ViHold holds back, for any sessions of the stock.       *)
(***************************************************************************)
EXTENDS PricePolling, IntradayScalping, ViHold, TLAPS

Toss == [configured : BOOLEAN, token : Nat, usable : BOOLEAN, issuing : BOOLEAN, failures : Nat,
         breaker : BOOLEAN]
Places == {"none", "asked", "token", "market", "again", "kisToken", "kis", "price", "nothing"}
Quote == [at : Places, try : Nat, used : Nat]

TypeOK ==
    /\ accepted \in Nat
    /\ toss \in Toss
    /\ quote \in [Requests -> Quote]

(* getAccessToken: whoever waits for a token waits for a request that is under way, so that one      *)
(* failed or refused login leaves nobody behind.                                                     *)
WaitersAreServed == \A c \in Requests : quote[c].at = "token" => toss.issuing

IInv == TypeOK /\ WaitersAreServed

(* What a step may do to the token and to the requests. *)
Sound ==
    /\ IInv'
    /\ toss.token # NoToken /\ toss'.token = NoToken => toss.token # accepted

-----------------------------------------------------------------------------
(* Records. *)

LEMMA AgainAndToKis ==
  ASSUME NEW q \in Quote
  PROVE  /\ Again(q) \in Quote /\ Again(q).at = "again"
         /\ ToKis(q) \in Quote /\ ToKis(q).at # "token"
<1>1. Again(q) \in Quote /\ Again(q).at = "again"
  BY DEF Again, Quote, Places, NoToken
<1>2. ToKis(q) \in Quote /\ ToKis(q).at # "token"
  BY DEF ToKis, Quote, Places, NoToken
<1> QED
  BY <1>1, <1>2

-----------------------------------------------------------------------------
(* One request changes, or none does. *)

LEMMA Asks ==
  ASSUME IInv, NEW c \in Requests, NEW q \in Quote, quote' = [quote EXCEPT ![c] = q],
         q.at # "token" \/ toss'.issuing,
         toss' \in Toss, toss.issuing => toss'.issuing, accepted' \in Nat,
         toss.token # NoToken /\ toss'.token = NoToken => toss.token # accepted
  PROVE  Sound
<1>1. /\ quote' \in [Requests -> Quote]
      /\ \A d \in Requests : quote'[d] = IF d = c THEN q ELSE quote[d]
  BY DEF IInv, TypeOK
<1>2. TypeOK'
  BY <1>1 DEF TypeOK
<1>3. WaitersAreServed'
  BY <1>1 DEF IInv, WaitersAreServed
<1> QED
  BY <1>2, <1>3 DEF Sound, IInv

LEMMA NobodyAsks ==
  ASSUME IInv, quote' = quote, accepted' \in Nat, toss' \in Toss, toss.issuing => toss'.issuing,
         toss'.token = toss.token
  PROVE  Sound
<1>1. TypeOK'
  BY DEF IInv, TypeOK
<1>2. WaitersAreServed'
  BY DEF IInv, WaitersAreServed
<1> QED
  BY <1>1, <1>2 DEF Sound, IInv

LEMMA AskKisSound ==
  ASSUME IInv, NEW c \in Requests, AskKis(c)
  PROVE  Sound
<1>1. quote' = [quote EXCEPT ![c] = ToKis(quote[c])] /\ toss' = toss /\ accepted' = accepted
  BY DEF AskKis
<1>2. quote[c] \in Quote
  BY DEF IInv, TypeOK
<1>3. ToKis(quote[c]) \in Quote /\ ToKis(quote[c]).at # "token"
  BY <1>2, AgainAndToKis
<1> QED
  BY <1>1, <1>3, Asks DEF IInv, TypeOK

LEMMA AskTossSound ==
  ASSUME IInv, NEW c \in Requests, NEW try \in Nat, AskToss(c, try), accepted' = accepted
  PROVE  Sound
<1> USE DEF IInv, TypeOK
<1>1. CASE toss.token # NoToken /\ toss.usable
  <2> DEFINE q == [at |-> "market", try |-> try, used |-> toss.token]
  <2>1. quote' = [quote EXCEPT ![c] = q] /\ toss' = toss
    BY <1>1 DEF AskToss
  <2>2. q \in Quote /\ q.at # "token"
    BY DEF Quote, Places, Toss
  <2> HIDE DEF q
  <2> QED
    BY <2>1, <2>2, Asks
<1>2. CASE ~(toss.token # NoToken /\ toss.usable)
  <2> DEFINE q == [at |-> "token", try |-> try, used |-> NoToken]
  <2>1. quote' = [quote EXCEPT ![c] = q] /\ toss' = [toss EXCEPT !.issuing = TRUE]
    BY <1>2, Zenon DEF AskToss
  <2>2. q \in Quote
    BY DEF Quote, Places, NoToken
  <2>3. toss' \in Toss /\ toss'.token = toss.token /\ toss'.issuing
    BY <2>1 DEF Toss
  <2> HIDE DEF q
  <2> QED
    BY <2>1, <2>2, <2>3, Asks
<1> QED
  BY <1>1, <1>2

-----------------------------------------------------------------------------
(* The end of a request for a token moves everybody who waits. *)

LEMMA TokenIssuedSound ==
  ASSUME IInv, TokenIssued
  PROVE  Sound
<1> USE DEF IInv, TypeOK
<1> DEFINE token == accepted + 1
           f(c) == [quote[c] EXCEPT !.at = "market", !.used = token]
<1>1. /\ accepted' = token
      /\ toss' = [toss EXCEPT !.token = token, !.usable = TRUE, !.issuing = FALSE, !.failures = 0,
                              !.breaker = FALSE]
      /\ quote' = [c \in Requests |-> IF c \in Waiting THEN f(c) ELSE quote[c]]
  BY DEF TokenIssued
<1>2. token \in Nat /\ token # NoToken
  BY DEF NoToken
<1> HIDE DEF token
<1>3. toss' \in Toss /\ toss'.token = token
  BY <1>1, <1>2 DEF Toss
<1>4. \A c \in Requests : f(c) \in Quote /\ f(c).at = "market"
  BY <1>2 DEF Quote, Places
<1> HIDE DEF f
<1>5. ASSUME NEW c \in Requests PROVE quote'[c] \in Quote /\ quote'[c].at # "token"
  BY <1>1, <1>4 DEF Waiting
<1>6. quote' \in [Requests -> Quote]
  BY <1>1, <1>5
<1> QED
  BY <1>1, <1>2, <1>3, <1>5, <1>6 DEF Sound, WaitersAreServed

LEMMA TokenRefusedSound ==
  ASSUME IInv, NEW unauthorized \in BOOLEAN, TokenRefused(unauthorized)
  PROVE  Sound
<1> USE DEF IInv, TypeOK
<1> DEFINE again == {c \in Waiting : unauthorized /\ quote[c].try = 1}
           failures == IF toss.failures < Threshold THEN toss.failures + 1 ELSE toss.failures
           breaker == toss.breaker \/ toss.failures + 1 >= Threshold
<1>1. /\ accepted' = accepted
      /\ toss' = [toss EXCEPT !.issuing = FALSE, !.failures = failures, !.breaker = breaker]
  BY Zenon DEF TokenRefused
<1>2. quote' = [c \in Requests |-> CASE c \in again -> Again(quote[c])
                                     [] c \in Waiting \ again -> ToKis(quote[c])
                                     [] OTHER -> quote[c]]
  BY Zenon DEF TokenRefused
<1>3. failures \in Nat /\ breaker \in BOOLEAN
  BY DEF Toss
<1> HIDE DEF failures, breaker
<1>4. toss' \in Toss /\ toss'.token = toss.token
  BY <1>1, <1>3 DEF Toss
<1>5. again \subseteq Waiting
  OBVIOUS
<1> HIDE DEF again
<1>6. ASSUME NEW c \in Requests PROVE quote'[c] \in Quote /\ quote'[c].at # "token"
  <2>1. CASE c \in again
    BY <1>2, <2>1, AgainAndToKis
  <2>2. CASE c \in Waiting \ again
    BY <1>2, <2>2, AgainAndToKis
  <2>3. CASE c \notin Waiting
    BY <1>2, <1>5, <2>3 DEF Waiting
  <2> QED
    BY <2>1, <2>2, <2>3
<1>7. quote' \in [Requests -> Quote]
  BY <1>2, <1>6
<1> QED
  BY <1>1, <1>4, <1>6, <1>7 DEF Sound, WaitersAreServed

-----------------------------------------------------------------------------
(* The steps of one request. *)

(* 401: the token of the request is not the accepted one; if it is discarded, nothing else is. *)
LEMMA TossRefusesTokenSound ==
  ASSUME IInv, NEW c \in Requests, TossRefusesToken(c)
  PROVE  Sound
<1> USE DEF IInv, TypeOK
<1>1. /\ quote[c].used # accepted /\ accepted' = accepted
      /\ toss' = InvalidateToken(quote[c].used)
      /\ quote' = [quote EXCEPT ![c] = Again(quote[c])]
  BY DEF TossRefusesToken
<1>2. Again(quote[c]) \in Quote /\ Again(quote[c]).at # "token"
  BY AgainAndToKis
<1>3. /\ toss' \in Toss /\ (toss.issuing => toss'.issuing)
      /\ toss.token # NoToken /\ toss'.token = NoToken => toss.token # accepted
  BY <1>1 DEF InvalidateToken, Toss, NoToken
<1> QED
  BY <1>1, <1>2, <1>3, Asks

LEMMA QuoteMoves ==
  ASSUME IInv, NEW c \in Requests, NEW q \in Quote, q.at # "token",
         quote' = [quote EXCEPT ![c] = q], toss' = toss, accepted' = accepted
  PROVE  Sound
  BY Asks DEF IInv, TypeOK

LEMMA RequestStepSound ==
  ASSUME IInv, NEW c \in Requests, RequestStep(c)
  PROVE  Sound
<1> DEFINE q == quote[c]
<1>0. q \in Quote
  BY DEF IInv, TypeOK
<1>1. CASE GetLastPrice(c)
  BY <1>1, AskTossSound, AskKisSound DEF GetLastPrice
<1>2. CASE TossAnswers(c) \/ KisAnswers(c)
  <2>1. quote' = [quote EXCEPT ![c] = [q EXCEPT !.at = "price"]] /\ toss' = toss /\ accepted' = accepted
    BY <1>2 DEF TossAnswers, KisAnswers
  <2>2. [q EXCEPT !.at = "price"] \in Quote /\ [q EXCEPT !.at = "price"].at # "token"
    BY <1>0 DEF Quote, Places
  <2> QED
    BY <2>1, <2>2, QuoteMoves
<1>3. CASE TossOfNoUse(c)
  BY <1>3, AskKisSound DEF TossOfNoUse
<1>4. CASE TossRefusesToken(c)
  BY <1>4, TossRefusesTokenSound
<1>5. CASE TossAgain(c)
  BY <1>5, AskTossSound, AskKisSound DEF TossAgain
<1>6. CASE KisTokenIssued(c)
  <2>1. quote' = [quote EXCEPT ![c] = [q EXCEPT !.at = "kis"]] /\ toss' = toss /\ accepted' = accepted
    BY <1>6 DEF KisTokenIssued
  <2>2. [q EXCEPT !.at = "kis"] \in Quote /\ [q EXCEPT !.at = "kis"].at # "token"
    BY <1>0 DEF Quote, Places
  <2> QED
    BY <2>1, <2>2, QuoteMoves
<1>7. CASE KisFails(c)
  <2>1. quote' = [quote EXCEPT ![c] = [q EXCEPT !.at = "nothing"]] /\ toss' = toss /\ accepted' = accepted
    BY <1>7 DEF KisFails
  <2>2. [q EXCEPT !.at = "nothing"] \in Quote /\ [q EXCEPT !.at = "nothing"].at # "token"
    BY <1>0 DEF Quote, Places
  <2> QED
    BY <2>1, <2>2, QuoteMoves
<1>8. CASE KisLimits(c)
  <2>1. /\ quote' = [quote EXCEPT ![c] = [q EXCEPT !.try = q.try + 1]] /\ toss' = toss
        /\ accepted' = accepted /\ q.at = "kis"
    BY <1>8 DEF KisLimits, AtKis
  <2>2. [q EXCEPT !.try = q.try + 1] \in Quote /\ [q EXCEPT !.try = q.try + 1].at # "token"
    BY <1>0, <2>1 DEF Quote, Places
  <2> QED
    BY <2>1, <2>2, QuoteMoves
<1> QED
  BY <1>1, <1>2, <1>3, <1>4, <1>5, <1>6, <1>7, <1>8 DEF RequestStep

-----------------------------------------------------------------------------
(* The other steps. *)

LEMMA GateStepSound ==
  ASSUME IInv, GateStep
  PROVE  Sound
<1> USE DEF IInv, TypeOK
<1>1. CASE \E c \in Requests : RequestStep(c)
  BY <1>1, RequestStepSound
<1>2. CASE RefillKis \/ RefillToss \/ KisTokenExpires
  BY <1>2, NobodyAsks DEF RefillKis, RefillToss, KisTokenExpires
<1>3. CASE TokenIssued
  BY <1>3, TokenIssuedSound
<1>4. CASE BreakerCloses
  <2>1. toss' \in Toss /\ toss'.issuing = toss.issuing /\ toss'.token = toss.token
    BY <1>4 DEF BreakerCloses, Toss
  <2> QED
    BY <1>4, <2>1, NobodyAsks DEF BreakerCloses
<1>5. CASE \E unauthorized \in BOOLEAN : TokenRefused(unauthorized)
  BY <1>5, TokenRefusedSound
<1>6. CASE TokenRevoked
  BY <1>6, NobodyAsks DEF TokenRevoked
<1>7. CASE TokenExpires
  <2>1. toss' \in Toss /\ toss'.issuing = toss.issuing /\ toss'.token = toss.token
    BY <1>7 DEF TokenExpires, Toss
  <2> QED
    BY <1>7, <2>1, NobodyAsks DEF TokenExpires
<1> QED
  BY <1>1, <1>2, <1>3, <1>4, <1>5, <1>6, <1>7 DEF GateStep

LEMMA PollSound ==
  ASSUME IInv, NEW asked, Poll(asked)
  PROVE  Sound
<1>1. PICK S : quote' = [c \in Requests |-> IF c \in S THEN Asked ELSE quote[c]]
  BY DEF Poll
<1>2. toss' = toss /\ accepted' = accepted
  BY DEF Poll
<1>3. Asked \in Quote /\ Asked.at # "token"
  BY DEF Asked, Quote, Places, NoToken
<1>4. ASSUME NEW c \in Requests
      PROVE  quote'[c] \in Quote /\ (quote'[c].at = "token" => quote[c].at = "token")
  BY <1>1, <1>3 DEF IInv, TypeOK
<1>5. quote' \in [Requests -> Quote]
  BY <1>1, <1>4
<1> QED
  BY <1>2, <1>4, <1>5 DEF Sound, IInv, TypeOK, WaitersAreServed

LEMMA PollStepSound ==
  ASSUME IInv,
         \/ \E c \in Requests : PollEnds(c)
         \/ \E s \in Stocks : Activate(s) \/ Deactivate(s) \/ SetLatestPrice(s) \/ GetReliablePrice(s)
                              \/ TimeComes(s) \/ PriceAges(s)
  PROVE  Sound
<1>1. ASSUME NEW c \in Requests, PollEnds(c) PROVE Sound
  <2>1. quote' = [quote EXCEPT ![c] = NoQuote] /\ toss' = toss /\ accepted' = accepted
    BY <1>1 DEF PollEnds
  <2>2. NoQuote \in Quote /\ NoQuote.at # "token"
    BY DEF NoQuote, Quote, Places, NoToken
  <2> QED
    BY <2>1, <2>2, QuoteMoves
<1>2. ASSUME NEW s \in Stocks,
             Deactivate(s) \/ SetLatestPrice(s) \/ GetReliablePrice(s) \/ TimeComes(s) \/ PriceAges(s)
      PROVE  Sound
  <2>1. quote' = quote /\ toss' = toss /\ accepted' = accepted
    BY <1>2 DEF Deactivate, SetLatestPrice, GetReliablePrice, TimeComes, PriceAges, gateVars
  <2> QED
    BY <2>1, NobodyAsks DEF IInv, TypeOK
<1>3. ASSUME NEW s \in Stocks, Activate(s) PROVE Sound
  <2>1. PICK first : Poll(first)
    BY <1>3 DEF Activate
  <2> QED
    BY <2>1, PollSound
<1> QED
  BY <1>1, <1>2, <1>3

LEMMA StepSound ==
  ASSUME IInv, [Next]_vars
  PROVE  Sound
<1>1. CASE Gate
  BY <1>1, GateStepSound DEF Gate
<1>2. CASE RunPricePollingRound
  BY <1>2, PollSound DEF RunPricePollingRound
<1>3. CASE UNCHANGED vars
  BY <1>3, NobodyAsks DEF vars, gateVars, IInv, TypeOK
<1> QED
  BY <1>1, <1>2, <1>3, PollStepSound DEF Next

LEMMA InitInv == Init => IInv
<1> SUFFICES ASSUME Init PROVE IInv
  OBVIOUS
<1>1. /\ accepted = NoToken
      /\ toss \in [configured : BOOLEAN, token : {NoToken}, usable : {FALSE}, issuing : {FALSE},
                   failures : {0}, breaker : {FALSE}]
  BY DEF Init, GateInit
<1>0. accepted \in Nat /\ toss \in Toss
  <2>1. ASSUME NEW T, T \subseteq Nat, NEW F, F \subseteq BOOLEAN, NEW Z, Z \subseteq Nat,
               NEW t \in [configured : BOOLEAN, token : T, usable : F, issuing : F, failures : Z, breaker : F]
        PROVE  t \in Toss
    BY <2>1 DEF Toss
  <2>2. {NoToken} \subseteq Nat /\ {FALSE} \subseteq BOOLEAN /\ {0} \subseteq Nat /\ accepted \in Nat
    BY <1>1 DEF NoToken
  <2> QED
    BY <1>1, <2>1, <2>2, Zenon
<1>2. NoQuote \in Quote /\ NoQuote.at # "token"
  BY DEF NoQuote, Quote, Places, NoToken
<1>3. quote = [c \in Requests |-> NoQuote]
  BY DEF Init, GateInit
<1> QED
  BY <1>0, <1>2, <1>3 DEF IInv, TypeOK, WaitersAreServed

-----------------------------------------------------------------------------
(* The requests and the Toss token have their types, and whoever waits for a token (getAccessToken   *)
(* joining tokenPromise) waits for a login that is under way.                                        *)
THEOREM Invariance == Spec => []IInv
<1>1. IInv /\ [Next]_vars => IInv'
  BY StepSound DEF Sound
<1> QED
  BY InitInv, <1>1, PTL DEF Spec

(* invalidateToken: whatever the order of logins, refusals and retries of any number of requests,    *)
(* a token is discarded only after Toss has ceased to accept it.                                     *)
THEOREM TokenIsKept == Spec => GoodTokenKept
<1>1. IInv /\ [Next]_vars => [toss.token # NoToken /\ toss'.token = NoToken => toss.token # accepted]_vars
  BY StepSound DEF Sound
<1> QED
  BY Invariance, <1>1, PTL DEF Spec, GoodTokenKept

-----------------------------------------------------------------------------
(* Numbers. *)

LEMMA Larger2 ==
  ASSUME NEW x \in Nat, NEW y \in Nat
  PROVE  Max({x, y}) \in Nat /\ Max({x, y}) = IF x >= y THEN x ELSE y
<1>1. \E m \in {x, y} : \A z \in {x, y} : m >= z
  <2>1. CASE x >= y
    BY <2>1
  <2>2. CASE y >= x
    BY <2>2
  <2> QED
    BY <2>1, <2>2
<1>2. Max({x, y}) \in {x, y} /\ \A z \in {x, y} : Max({x, y}) >= z
  BY <1>1 DEF Max
<1> QED
  BY <1>2

LEMMA LastStarts ==
  ASSUME NEW n \in Nat, NEW max \in Nat, n <= max
  PROVE  Max({1, n - max + 1}) = 1
<1>1. n - max + 1 \in Int /\ n - max + 1 <= 1
  OBVIOUS
<1>2. \A z \in {1, n - max + 1} : 1 >= z
  BY <1>1
<1>3. /\ Max({1, n - max + 1}) \in {1, n - max + 1}
      /\ \A z \in {1, n - max + 1} : Max({1, n - max + 1}) >= z
  BY <1>2 DEF Max
<1> QED
  BY <1>1, <1>3

LEMMA Smaller2 ==
  ASSUME NEW x \in Nat, NEW y \in Nat
  PROVE  Min({x, y}) \in Nat
<1>1. \E m \in {x, y} : \A z \in {x, y} : m <= z
  <2>1. CASE x <= y
    BY <2>1
  <2>2. CASE y <= x
    BY <2>2
  <2> QED
    BY <2>1, <2>2
<1> QED
  BY <1>1 DEF Min

LEMMA Quotient ==
  ASSUME NEW x \in Nat, NEW d \in Nat \ {0}
  PROVE  x \div d \in Nat /\ d * (x \div d) <= x /\ x < d * (x \div d) + d
<1> DEFINE q == x \div d
<1>1. q \in Nat /\ x = d * q + (x % d) /\ x % d \in 0 .. (d - 1)
  OBVIOUS
<1>2. d * q \in Nat
  BY <1>1
<1> QED
  BY <1>1, <1>2

LEMMA ProductRises ==
  ASSUME NEW a \in Int, NEW b \in Int, a <= b, NEW d \in Nat
  PROVE  d * a \in Int /\ d * b \in Int /\ d * a <= d * b
  OBVIOUS

(* The minutes of two times are no further apart than the times are. *)
LEMMA MinutesApart ==
  ASSUME NEW x \in Nat, NEW y \in Nat, NEW d \in Nat \ {0}, NEW n \in Nat, x - y <= n * d
  PROVE  x \div d - y \div d <= n
<1> DEFINE p == x \div d
           q == y \div d
<1>1. p \in Nat /\ q \in Nat /\ d * p <= x /\ y < d * q + d
  BY Quotient
<1> HIDE DEF p, q
<1>2. SUFFICES ASSUME p - q >= n + 1 PROVE FALSE
  BY <1>1 DEF p, q
<1>3. d * (q + (n + 1)) <= d * p /\ d * (q + (n + 1)) \in Int /\ d * p \in Int
  BY <1>1, <1>2, ProductRises
<1>4. d * (q + (n + 1)) = d * q + n * d + d /\ d * q \in Int /\ n * d \in Int
  BY <1>1
<1> QED
  BY <1>1, <1>3, <1>4

LEMMA MinutesInOrder ==
  ASSUME NEW x \in Nat, NEW y \in Nat, NEW d \in Nat \ {0}, x <= y
  PROVE  x \div d <= y \div d
<1>1. x \div d - y \div d <= 0
  BY MinutesApart
<1> QED
  BY <1>1, Quotient

-----------------------------------------------------------------------------
(* Trades and candles. *)

Bar == [minute : Nat, open : Nat, high : Nat, low : Nat, close : Nat, volume : Nat]
Trades == [time : Times, kind : {"regular", "other"}, halted : BOOLEAN, price : Nat, sound : BOOLEAN,
           strong : BOOLEAN]

LEMMA TradeIs ==
  ASSUME NEW t \in Times, NEW q \in Quotes
  PROVE  TradeOf(t, q) \in Trades
  BY ScalpingAssumption DEF TradeOf, Trades

LEMMA TradeHasMinute ==
  ASSUME NEW trade \in Trades
  PROVE  /\ trade # None /\ trade.time \in Nat /\ trade.price \in Nat
         /\ MinuteOf(trade) \in Nat /\ MinuteOf(trade) \in Minutes
<1>1. trade.time \in Times /\ trade.price \in Nat /\ trade # None
  BY DEF Trades, None
<1> QED
  BY <1>1, ScalpingAssumption, Quotient DEF MinuteOf, Minutes

LEMMA SomeCandlesAreKept == MaxCandles \in Nat /\ MaxCandles >= 1
  BY ScalpingAssumption

LEMMA MinutesAreNumbers == Minutes \subseteq Nat
  BY ScalpingAssumption, Quotient DEF Minutes

LEMMA CreateIsBar ==
  ASSUME NEW trade \in Trades
  PROVE  CreateCandle(trade) \in Bar /\ CreateCandle(trade).minute = MinuteOf(trade)
  BY TradeHasMinute DEF CreateCandle, Bar

LEMMA UpdateIsBar ==
  ASSUME NEW c \in Bar, NEW trade \in Trades
  PROVE  UpdateCandle(c, trade) \in Bar /\ UpdateCandle(c, trade).minute = c.minute
<1> DEFINE h == Max({c.high, trade.price})
           l == Min({c.low, trade.price})
<1>1. c.high \in Nat /\ c.low \in Nat /\ c.volume + 1 \in Nat /\ trade.price \in Nat
  BY TradeHasMinute DEF Bar
<1>2. h \in Nat /\ l \in Nat
  BY <1>1, Larger2, Smaller2
<1>3. UpdateCandle(c, trade) = [c EXCEPT !.high = h, !.low = l, !.close = trade.price, !.volume = c.volume + 1]
  BY DEF UpdateCandle
<1> HIDE DEF h, l
<1> QED
  BY <1>1, <1>2, <1>3 DEF Bar

LEMMA BarIsSomething == \A c \in Bar : c # None /\ c.minute \in Nat
  BY DEF Bar, None

-----------------------------------------------------------------------------
(* The candles of a day: the sequence s shows the bars b. *)

IsBars(b) == \A m \in Minutes : b[m] # None => b[m] \in Bar /\ b[m].minute = m

Shows(s, b) ==
    /\ s \in Seq(Bar)
    /\ \A k \in DOMAIN s : s[k].minute \in Minutes /\ s[k] = b[s[k].minute]
    /\ \A j, k \in DOMAIN s : j < k => s[j].minute < s[k].minute
    /\ Len(s) <= MaxCandles + 1
    /\ \A m \in Minutes :
         b[m] # None => \/ \E k \in DOMAIN s : s[k] = b[m]
                        \/ Len(s) = MaxCandles + 1 /\ m < s[1].minute

(* A trade of the minute of the last candle changes that one alone. *)
LEMMA ShowsUpdate ==
  ASSUME NEW s, NEW b, IsBars(b), Shows(s, b), Len(s) > 0, NEW c \in Bar, NEW t, NEW e,
         c.minute = s[Len(s)].minute,
         t \in Seq(Bar), Len(t) = Len(s), \A k \in 1 .. Len(s) - 1 : t[k] = s[k], t[Len(s)] = c,
         \A m \in Minutes : e[m] = IF m = c.minute THEN c ELSE b[m]
  PROVE  IsBars(e) /\ Shows(t, e)
<1> DEFINE n == Len(s)
<1>1. /\ s \in Seq(Bar) /\ n \in Nat \ {0} /\ DOMAIN s = 1 .. n /\ DOMAIN t = 1 .. n
      /\ \A k \in 1 .. n : s[k] \in Bar
      /\ \A k \in 1 .. n : k < n => t[k] = s[k]
      /\ t[n] = c /\ c.minute = s[n].minute /\ Len(t) = n
  BY DEF Shows
<1>0. /\ n <= MaxCandles + 1
      /\ \A m \in Minutes :
           b[m] # None => \/ \E k \in 1 .. n : s[k] = b[m]
                          \/ n = MaxCandles + 1 /\ m < s[1].minute
  BY <1>1 DEF Shows
<1> HIDE DEF n
<1>2. /\ \A k \in 1 .. n : s[k].minute \in Minutes /\ s[k] = b[s[k].minute] /\ s[k].minute \in Nat
      /\ \A j, k \in 1 .. n : j < k => s[j].minute < s[k].minute
  BY <1>1, BarIsSomething DEF Shows
<1>3. \A k \in 1 .. n : t[k].minute = s[k].minute /\ (k < n => t[k] = s[k]) /\ (k = n => t[k] = c)
  BY <1>1
<1>4. \A k \in 1 .. n : k < n => s[k].minute # c.minute
  BY <1>1, <1>2
<1>5. \A k \in 1 .. n : t[k].minute \in Minutes /\ t[k] = e[t[k].minute]
  <2> TAKE k \in 1 .. n
  <2>1. CASE k < n
    BY <2>1, <1>2, <1>3, <1>4
  <2>2. CASE k = n
    BY <2>2, <1>1, <1>2, <1>3
  <2> QED
    BY <2>1, <2>2, <1>1
<1>6. \A j, k \in 1 .. n : j < k => t[j].minute < t[k].minute
  BY <1>2, <1>3
<1>7. ASSUME NEW m \in Minutes, e[m] # None
      PROVE  \/ \E k \in 1 .. n : t[k] = e[m]
             \/ n = MaxCandles + 1 /\ m < t[1].minute
  <2>1. CASE m = c.minute
    BY <2>1, <1>1, <1>3
  <2>2. CASE m # c.minute
    <3>1. e[m] = b[m] /\ b[m] # None /\ b[m].minute = m
      BY <2>2, <1>7 DEF IsBars
    <3>2. \/ \E k \in 1 .. n : s[k] = b[m]
          \/ n = MaxCandles + 1 /\ m < s[1].minute
      BY <3>1, <1>0
    <3>3. ASSUME NEW k \in 1 .. n, s[k] = b[m] PROVE t[k] = e[m]
      <4>1. k # n
        BY <3>1, <3>3, <2>2, <1>1
      <4> QED
        BY <4>1, <3>1, <3>3, <1>3, <1>1
    <3> QED
      BY <3>2, <3>3, <1>3, <1>1
  <2> QED
    BY <2>1, <2>2
<1>8. IsBars(e)
  BY DEF IsBars
<1>9. Shows(t, e)
  BY <1>0, <1>1, <1>5, <1>6, <1>7 DEF Shows
<1> QED
  BY <1>8, <1>9

(* Before a trade of a later minute there is no bar of that minute. *)
LEMMA LaterMinuteIsNew ==
  ASSUME NEW s, NEW b, IsBars(b), Shows(s, b), NEW m \in Minutes,
         \A k \in DOMAIN s : s[k].minute < m
  PROVE  b[m] = None
<1> SUFFICES ASSUME b[m] # None PROVE FALSE
  OBVIOUS
<1>1. b[m].minute = m /\ m \in Nat
  BY MinutesAreNumbers DEF IsBars
<1>2. \A k \in DOMAIN s : s[k].minute \in Nat
  BY MinutesAreNumbers DEF Shows
<1>3. \/ \E k \in DOMAIN s : s[k] = b[m]
      \/ Len(s) = MaxCandles + 1 /\ m < s[1].minute
  BY DEF Shows
<1>4. CASE Len(s) = MaxCandles + 1 /\ m < s[1].minute
  <2>1. 1 \in DOMAIN s
    BY <1>4, ScalpingAssumption DEF Shows
  <2> QED
    BY <1>1, <1>2, <1>4, <2>1
<1> QED
  BY <1>1, <1>2, <1>3, <1>4

(* A trade of a later minute adds a candle; when there are too many, the oldest goes. *)
LEMMA ShowsAppend ==
  ASSUME NEW s, NEW b, IsBars(b), Shows(s, b), NEW c \in Bar, NEW e, c.minute \in Minutes,
         \A k \in DOMAIN s : s[k].minute < c.minute,
         Len(s) <= MaxCandles,
         \A m \in Minutes : e[m] = IF m = c.minute THEN c ELSE b[m]
  PROVE  IsBars(e) /\ Shows(Append(s, c), e)
<1> DEFINE n == Len(s)
           t == Append(s, c)
<1>1. /\ s \in Seq(Bar) /\ n \in Nat /\ DOMAIN s = 1 .. n
      /\ t \in Seq(Bar) /\ Len(t) = n + 1 /\ DOMAIN t = 1 .. n + 1
      /\ \A k \in 1 .. n : t[k] = s[k]
      /\ t[n + 1] = c
  BY DEF Shows
<1>0. \A m \in Minutes : b[m] # None => \E k \in 1 .. n : s[k] = b[m]
  <2>1. Len(s) # MaxCandles + 1 /\ DOMAIN s = 1 .. Len(s)
    <3>1. MaxCandles \in Nat
      BY SomeCandlesAreKept
    <3>2. Len(s) \in Nat /\ DOMAIN s = 1 .. Len(s)
      BY DEF Shows
    <3>3. ASSUME NEW x \in Nat, NEW y \in Nat, x <= y PROVE x # y + 1
      BY <3>3
    <3>4. Len(s) # MaxCandles + 1
      BY <3>1, <3>2, <3>3, Zenon
    <3> QED
      BY <3>2, <3>4
  <2> QED
    BY <2>1 DEF Shows
<1> HIDE DEF t, n
<1>2. \A k \in 1 .. n : /\ s[k].minute \in Minutes /\ s[k] = b[s[k].minute]
                        /\ s[k].minute \in Nat /\ s[k].minute < c.minute
  BY <1>1, MinutesAreNumbers DEF Shows
<1>3. \A j, k \in 1 .. n : j < k => s[j].minute < s[k].minute
  BY <1>1 DEF Shows
<1>4. c.minute \in Nat
  BY MinutesAreNumbers
<1>5. \A k \in 1 .. n + 1 : t[k].minute \in Minutes /\ t[k] = e[t[k].minute]
  <2> TAKE k \in 1 .. n + 1
  <2>1. CASE k \in 1 .. n
    BY <2>1, <1>1, <1>2, <1>4
  <2>2. CASE k = n + 1
    BY <2>2, <1>1
  <2> QED
    BY <2>1, <2>2, <1>1
<1>6. \A j, k \in 1 .. n + 1 : j < k => t[j].minute < t[k].minute
  <2> TAKE j, k \in 1 .. n + 1
  <2>1. CASE k \in 1 .. n
    BY <2>1, <1>1, <1>3
  <2>2. CASE k = n + 1
    BY <2>2, <1>1, <1>2
  <2> QED
    BY <2>1, <2>2, <1>1
<1>7. ASSUME NEW m \in Minutes, e[m] # None
      PROVE  \E k \in 1 .. n + 1 : t[k] = e[m]
  <2>1. CASE m = c.minute
    BY <2>1, <1>1
  <2>2. CASE m # c.minute
    <3>1. e[m] = b[m] /\ b[m] # None
      BY <2>2, <1>7
    <3>2. \E k \in 1 .. n : s[k] = b[m]
      BY <1>0, <3>1
    <3> QED
      BY <3>1, <3>2, <1>1
  <2> QED
    BY <2>1, <2>2
<1>8. IsBars(e)
  BY DEF IsBars
<1>9. n + 1 <= MaxCandles + 1
  BY <1>1, ScalpingAssumption DEF n
<1>10. Shows(t, e)
  BY <1>1, <1>5, <1>6, <1>7, <1>9 DEF Shows
<1> QED
  BY <1>8, <1>10 DEF t

LEMMA ShowsAppendFull ==
  ASSUME NEW s, NEW b, IsBars(b), Shows(s, b), NEW c \in Bar, NEW e, c.minute \in Minutes,
         \A k \in DOMAIN s : s[k].minute < c.minute,
         Len(s) = MaxCandles + 1,
         \A m \in Minutes : e[m] = IF m = c.minute THEN c ELSE b[m],
         NEW t, t \in Seq(Bar), Len(t) = Len(s),
         \A k \in 1 .. Len(s) - 1 : t[k] = s[k + 1], t[Len(s)] = c
  PROVE  IsBars(e) /\ Shows(t, e)
<1> DEFINE n == Len(s)
<1>1. /\ s \in Seq(Bar) /\ n \in Nat \ {0} /\ n > 1 /\ n = MaxCandles + 1
      /\ DOMAIN s = 1 .. n /\ DOMAIN t = 1 .. n /\ Len(t) = n
      /\ \A k \in 1 .. n : k < n => t[k] = s[k + 1] /\ k + 1 \in 1 .. n
      /\ t[n] = c /\ t[1] = s[2]
  <2>1. s \in Seq(Bar)
    BY DEF Shows
  <2>2. n \in Nat /\ n > 1
    BY SomeCandlesAreKept
  <2> QED
    BY <2>1, <2>2
<1>2. \A k \in 1 .. n : /\ s[k].minute \in Minutes /\ s[k] = b[s[k].minute]
                        /\ s[k].minute \in Nat /\ s[k].minute < c.minute
  BY <1>1, MinutesAreNumbers DEF Shows
<1>3. \A j, k \in 1 .. n : j < k => s[j].minute < s[k].minute
  BY <1>1 DEF Shows
<1>4. c.minute \in Nat
  BY MinutesAreNumbers
<1>0. \A m \in Minutes : b[m] # None => \/ \E k \in 1 .. n : s[k] = b[m]
                                        \/ m < s[1].minute
  BY <1>1 DEF Shows
<1> HIDE DEF n
<1>5. \A k \in 1 .. n : t[k].minute \in Minutes /\ t[k] = e[t[k].minute]
  <2> TAKE k \in 1 .. n
  <2>1. CASE k < n
    BY <2>1, <1>1, <1>2, <1>4
  <2>2. CASE k = n
    BY <2>2, <1>1
  <2> QED
    BY <2>1, <2>2, <1>1
<1>6. \A j, k \in 1 .. n : j < k => t[j].minute < t[k].minute
  <2> TAKE j, k \in 1 .. n
  <2>1. CASE k < n
    BY <2>1, <1>1, <1>3
  <2>2. CASE k = n
    BY <2>2, <1>1, <1>2
  <2> QED
    BY <2>1, <2>2, <1>1
<1>7. ASSUME NEW m \in Minutes, e[m] # None
      PROVE  \/ \E k \in 1 .. n : t[k] = e[m]
             \/ m < t[1].minute
  <2>1. CASE m = c.minute
    BY <2>1, <1>1
  <2>2. CASE m # c.minute
    <3>1. e[m] = b[m] /\ b[m] # None /\ b[m].minute = m /\ m \in Nat
      BY <2>2, <1>7, MinutesAreNumbers DEF IsBars
    <3>2. s[1].minute < s[2].minute /\ s[1].minute \in Nat /\ s[2].minute \in Nat
      BY <1>1, <1>2, <1>3
    <3>3. CASE \E k \in 1 .. n : s[k] = b[m]
      <4>1. PICK k \in 1 .. n : s[k] = b[m]
        BY <3>3
      <4>2. CASE k = 1
        BY <4>1, <4>2, <3>1, <3>2, <1>1
      <4>3. CASE k # 1
        <5>1. k - 1 \in 1 .. n /\ k - 1 < n /\ (k - 1) + 1 = k
          BY <4>3, <1>1
        <5>2. t[k - 1] = s[k]
          BY <5>1, <1>1
        <5> QED
          BY <5>1, <5>2, <4>1, <3>1
      <4> QED
        BY <4>2, <4>3
    <3>4. CASE m < s[1].minute
      BY <3>1, <3>2, <3>4, <1>1
    <3> QED
      BY <1>0, <3>1, <3>3, <3>4
  <2> QED
    BY <2>1, <2>2
<1>8. IsBars(e)
  BY DEF IsBars
<1>10. Shows(t, e)
  BY <1>1, <1>5, <1>6, <1>7 DEF Shows
<1> QED
  BY <1>8, <1>10
-----------------------------------------------------------------------------
(* The inductive invariant. *)

Marks == [time : Times, kind : {"regular", "other"}, recent : BOOLEAN]

ScalpingTypeOK ==
    /\ latest = None \/ latest \in Trades
    /\ seen = None \/ seen \in Marks
    /\ current = None \/ current \in Bar
    /\ completed \in Seq(Bar)
    /\ bars \in [Minutes -> Bar \cup {None}]

(* latestExecution is the last trade of today that came in order, or yesterday's; the current candle *)
(* is not of a later minute, and one of yesterday is of the afternoon.                               *)
LatestFollows ==
    /\ fresh => seen # None /\ seen.recent
    /\ seen # None => latest # None /\ latest.time = seen.time /\ latest.kind = seen.kind
    /\ current # None => latest # None /\ current.minute <= MinuteOf(latest)
    /\ seen = None /\ latest # None => current # None /\ IsAfternoon(current.minute)

DayIsDrawn ==
    /\ current = None => completed = <<>>
    /\ IsBars(bars)
    /\ seen = None => \A m \in Minutes : bars[m] = None
    /\ seen # None => Shows(Candles, bars)

ScalpingInv == ScalpingTypeOK /\ LatestFollows /\ DayIsDrawn

LEMMA NothingHappens ==
  ASSUME ScalpingInv, UNCHANGED <<current, completed, latest, fresh, bars, seen>>
  PROVE  ScalpingInv'
<1>1. ScalpingTypeOK'
  BY DEF ScalpingInv, ScalpingTypeOK
<1>2. LatestFollows'
  BY DEF ScalpingInv, LatestFollows, MinuteOf, IsAfternoon
<1>3. DayIsDrawn'
  BY DEF ScalpingInv, DayIsDrawn, Candles
<1> QED
  BY <1>1, <1>2, <1>3 DEF ScalpingInv

LEMMA CandlesAre ==
  ASSUME NEW s \in Seq(Bar), NEW c, c = None \/ c \in Bar
  PROVE  s \o (IF c = None THEN <<>> ELSE <<c>>) = IF c = None THEN s ELSE Append(s, c)
<1>1. CASE c = None
  BY <1>1
<1>2. CASE c # None
  <2>1. s \o <<c>> = Append(s, c)
    BY <1>2
  <2> QED
    BY <1>2, <2>1
<1> QED
  BY <1>1, <1>2

LEMMA CandlesNow ==
  ASSUME ScalpingTypeOK
  PROVE  Candles = IF current = None THEN completed ELSE Append(completed, current)
  BY CandlesAre DEF Candles, ScalpingTypeOK

LEMMA CandlesThen ==
  ASSUME ScalpingTypeOK'
  PROVE  Candles' = IF current' = None THEN completed' ELSE Append(completed', current')
<1>1. completed' \in Seq(Bar) /\ (current' = None \/ current' \in Bar)
  BY DEF ScalpingTypeOK
<1> QED
  BY <1>1, CandlesAre DEF Candles

(* A late trade never begins a day, and the first trade of a day always does. *)
LEMMA LateIsLate ==
  ASSUME ScalpingInv, NEW trade \in Trades, seen # None, ~InOrder(trade), seen.time - trade.time <= MaxDelay
  PROVE  IsLate(trade)
<1>1. /\ latest # None /\ latest \in Trades /\ latest.time = seen.time
      /\ latest.time \in Nat /\ trade.time \in Nat
      /\ MinuteOf(latest) \in Nat /\ MinuteOf(trade) \in Nat
  BY TradeHasMinute DEF ScalpingInv, ScalpingTypeOK, LatestFollows
<1>2. Rewound(trade)
  BY <1>1 DEF InOrder, Rewound
<1>3. /\ PerMinute \in Nat \ {0} /\ Rollback \in Nat \ {0} /\ Rollback - 1 \in Nat
      /\ MaxDelay \in Nat /\ MaxDelay <= (Rollback - 1) * PerMinute
  BY ScalpingAssumption
<1>4. latest.time - trade.time <= (Rollback - 1) * PerMinute
  <2>1. (Rollback - 1) * PerMinute \in Int
    BY <1>3
  <2> QED
    BY <2>1, <1>1, <1>3
<1>5. MinuteOf(latest) - MinuteOf(trade) <= Rollback - 1
  BY <1>1, <1>3, <1>4, MinutesApart DEF MinuteOf
<1>6. ASSUME current # None PROVE current.minute - MinuteOf(trade) < Rollback
  <2>1. current.minute \in Nat /\ current.minute <= MinuteOf(latest)
    BY <1>6, BarIsSomething DEF ScalpingInv, ScalpingTypeOK, LatestFollows
  <2> QED
    BY <2>1, <1>1, <1>3, <1>5
<1>7. ASSUME current # None PROVE ~(current.minute - MinuteOf(trade) >= Rollback)
  <2>1. current.minute \in Nat
    BY <1>7, BarIsSomething DEF ScalpingInv, ScalpingTypeOK
  <2> QED
    BY <1>7, <2>1, <1>1, <1>3, <1>6
<1> QED
  BY <1>2, <1>7 DEF IsLate, BeginsDay

LEMMA MorningBegins ==
  ASSUME ScalpingInv, NEW trade \in Trades, seen = None,
         latest = None \/ MinuteOf(trade) \in FirstMinutes
  PROVE  ~IsLate(trade) /\ Open(trade) = None /\ Closed(trade) = <<>>
<1>1. CASE latest = None
  BY <1>1 DEF Rewound, BeginsDay, IsLate, Open, Closed, ScalpingInv, LatestFollows, DayIsDrawn
<1>2. CASE latest # None
  <2>1. /\ current # None /\ current.minute \in Nat /\ MinuteOf(trade) \in Nat
        /\ latest \in Trades /\ MinuteOf(latest) \in Nat /\ latest.time \in Nat /\ trade.time \in Nat
        /\ current.minute <= MinuteOf(latest)
    BY <1>2, BarIsSomething, TradeHasMinute DEF ScalpingInv, ScalpingTypeOK, LatestFollows
  <2>2. current.minute - MinuteOf(trade) >= Rollback
    BY <1>2 DEF ScalpingInv, LatestFollows, IsAfternoon
  <2>3. PerMinute \in Nat \ {0} /\ Rollback \in Nat \ {0}
    BY ScalpingAssumption
  <2>4. trade.time < latest.time
    <3>1. SUFFICES ASSUME latest.time <= trade.time PROVE FALSE
      BY <2>1
    <3>2. MinuteOf(latest) <= MinuteOf(trade)
      BY <3>1, <2>1, <2>3, MinutesInOrder DEF MinuteOf
    <3> QED
      BY <3>2, <2>1, <2>2, <2>3
  <2> QED
    BY <1>2, <2>1, <2>2, <2>4 DEF Rewound, BeginsDay, IsLate, Open, Closed
<1> QED
  BY <1>1, <1>2

LEMMA InOrderIsNotLate ==
  ASSUME ScalpingInv, NEW trade \in Trades, seen # None, InOrder(trade)
  PROVE  /\ ~IsLate(trade) /\ Open(trade) = current /\ Closed(trade) = completed
         /\ current # None => current.minute \in Nat /\ current.minute <= MinuteOf(trade)
<1>1. /\ latest # None /\ latest \in Trades /\ latest.time = seen.time
      /\ latest.time \in Nat /\ trade.time \in Nat /\ latest.time <= trade.time
      /\ MinuteOf(latest) \in Nat /\ MinuteOf(trade) \in Nat
  BY TradeHasMinute DEF ScalpingInv, ScalpingTypeOK, LatestFollows, InOrder
<1>2. ~Rewound(trade)
  BY <1>1 DEF Rewound
<1>3. MinuteOf(latest) <= MinuteOf(trade)
  BY <1>1, ScalpingAssumption, MinutesInOrder DEF MinuteOf
<1>4. current # None => current.minute \in Nat /\ current.minute <= MinuteOf(latest)
  BY BarIsSomething DEF ScalpingInv, ScalpingTypeOK, LatestFollows
<1>5. current # None => current.minute \in Nat /\ current.minute <= MinuteOf(trade)
  BY <1>1, <1>3, <1>4
<1> QED
  BY <1>2, <1>5 DEF IsLate, BeginsDay, Open, Closed

-----------------------------------------------------------------------------
(* A trade. *)

LEMMA TradeIsLatest ==
  ASSUME NEW trade \in Trades, latest' = trade, fresh' = TRUE,
         seen' = [time |-> trade.time, kind |-> trade.kind, recent |-> TRUE],
         current' # None => current'.minute <= MinuteOf(trade)
  PROVE  LatestFollows' /\ seen' # None /\ seen' \in Marks
<1>1. seen' \in Marks /\ seen' # None /\ seen'.recent /\ seen'.time = trade.time /\ seen'.kind = trade.kind
  BY DEF Marks, Trades, None
<1>2. MinuteOf(latest)' = MinuteOf(trade)
  BY DEF MinuteOf
<1> QED
  BY <1>1, <1>2, TradeHasMinute DEF LatestFollows

LEMMA NothingShown ==
  ASSUME NEW b, \A m \in Minutes : b[m] = None
  PROVE  Shows(<<>>, b) /\ IsBars(b)
<1>1. <<>> \in Seq(Bar) /\ Len(<<>>) = 0 /\ DOMAIN <<>> = 1 .. 0
  OBVIOUS
<1>2. MaxCandles \in Nat
  BY SomeCandlesAreKept
<1>3. IsBars(b)
  BY DEF IsBars
<1>4. \A k \in DOMAIN <<>> : FALSE
  BY <1>1
<1>5. Len(<<>>) <= MaxCandles + 1
  BY <1>1, <1>2
<1>6. Shows(<<>>, b)
  BY <1>1, <1>4, <1>5, Zenon DEF Shows
<1> QED
  BY <1>3, <1>6

LEMMA OtherKeeps ==
  ASSUME ScalpingInv, NEW trade \in Trades, Trade(trade), trade.kind = "other",
         seen = None \/ InOrder(trade)
  PROVE  ScalpingInv'
<1>1. ~IsLate(trade) /\ InOrder(trade)
  BY MorningBegins, InOrderIsNotLate DEF Trade, InOrder
<1>2. /\ current' = Open(trade) /\ completed' = Closed(trade) /\ latest' = trade /\ fresh' = TRUE
      /\ bars' = bars /\ seen' = [time |-> trade.time, kind |-> trade.kind, recent |-> TRUE]
  BY <1>1 DEF Trade, Record, RecordOther, Keep
<1>3. CASE seen = None
  <2>1. Open(trade) = None /\ Closed(trade) = <<>>
    BY <1>3, MorningBegins DEF Trade
  <2>2. LatestFollows' /\ seen' # None /\ seen' \in Marks
    BY <1>2, <2>1, TradeIsLatest
  <2>3. ScalpingTypeOK'
    BY <1>2, <2>1, <2>2 DEF ScalpingInv, ScalpingTypeOK
  <2>4. Candles' = <<>>
    BY <1>2, <2>1, <2>3, CandlesThen
  <2>5. \A m \in Minutes : bars[m] = None
    BY <1>3 DEF ScalpingInv, DayIsDrawn
  <2>6. DayIsDrawn'
    BY <1>2, <2>1, <2>2, <2>4, <2>5, NothingShown DEF DayIsDrawn
  <2> QED
    BY <2>2, <2>3, <2>6 DEF ScalpingInv
<1>4. CASE seen # None
  <2>1. /\ Open(trade) = current /\ Closed(trade) = completed
        /\ current # None => current.minute <= MinuteOf(trade)
    BY <1>1, <1>4, InOrderIsNotLate
  <2>2. LatestFollows' /\ seen' # None /\ seen' \in Marks
    BY <1>2, <2>1, TradeIsLatest
  <2>3. ScalpingTypeOK'
    BY <1>2, <2>1, <2>2 DEF ScalpingInv, ScalpingTypeOK
  <2>4. Candles' = Candles
    BY <1>2, <2>1 DEF Candles
  <2>5. DayIsDrawn'
    BY <1>2, <1>4, <2>1, <2>2, <2>4 DEF ScalpingInv, DayIsDrawn
  <2> QED
    BY <2>2, <2>3, <2>5 DEF ScalpingInv
<1> QED
  BY <1>3, <1>4

(* A regular trade: what it draws, once the candles before it are known. *)
LEMMA RegularKeeps ==
  ASSUME ScalpingInv, NEW trade \in Trades, current' \in Bar, current'.minute = MinuteOf(trade),
         completed' \in Seq(Bar),
         bars' = [bars EXCEPT ![MinuteOf(trade)] = current'],
         latest' = trade, fresh' = TRUE,
         seen' = [time |-> trade.time, kind |-> trade.kind, recent |-> TRUE],
         IsBars(bars') /\ Shows(Append(completed', current'), bars')
  PROVE  ScalpingInv'
<1>1. MinuteOf(trade) \in Nat /\ MinuteOf(trade) \in Minutes /\ current' # None
  BY TradeHasMinute, BarIsSomething
<1>2. LatestFollows' /\ seen' # None /\ seen' \in Marks
  <2>1. current'.minute <= MinuteOf(trade)
    BY <1>1
  <2> QED
    BY <2>1, TradeIsLatest
<1>3. ScalpingTypeOK'
  BY <1>1, <1>2 DEF ScalpingInv, ScalpingTypeOK
<1>4. Candles' = Append(completed', current')
  BY <1>1, <1>3, CandlesThen
<1>5. DayIsDrawn'
  BY <1>1, <1>2, <1>4 DEF DayIsDrawn
<1> QED
  BY <1>2, <1>3, <1>5 DEF ScalpingInv

LEMMA RegularAddsCandle ==
  ASSUME ScalpingInv, NEW trade \in Trades, NEW s, NEW c \in Bar, c.minute = MinuteOf(trade),
         Shows(s, bars), \A k \in DOMAIN s : s[k].minute < MinuteOf(trade)
  PROVE  /\ bars[MinuteOf(trade)] = None
         /\ \A m \in Minutes : [bars EXCEPT ![MinuteOf(trade)] = c][m] = IF m = c.minute THEN c ELSE bars[m]
<1>1. MinuteOf(trade) \in Minutes
  BY TradeHasMinute
<1>2. bars[MinuteOf(trade)] = None
  BY <1>1, LaterMinuteIsNew DEF ScalpingInv, DayIsDrawn
<1> QED
  BY <1>1, <1>2 DEF ScalpingInv, ScalpingTypeOK

LEMMA RegularIsDrawn ==
  ASSUME ScalpingInv, NEW trade \in Trades, Trade(trade), trade.kind = "regular",
         seen = None \/ InOrder(trade)
  PROVE  ScalpingInv'
<1> DEFINE m == MinuteOf(trade)
           bar == IF bars[m] = None THEN CreateCandle(trade) ELSE UpdateCandle(bars[m], trade)
<1>1. ~IsLate(trade) /\ InOrder(trade)
  BY MorningBegins, InOrderIsNotLate DEF Trade, InOrder
<1>2. /\ latest' = trade /\ fresh' = TRUE /\ bars' = [bars EXCEPT ![m] = bar]
      /\ seen' = [time |-> trade.time, kind |-> trade.kind, recent |-> TRUE]
      /\ RecordRegular(trade)
  BY <1>1 DEF Trade, Record, RecordRegular, Keep
<1>3. m \in Minutes /\ m \in Nat /\ CreateCandle(trade) \in Bar /\ CreateCandle(trade).minute = m
  BY TradeHasMinute, CreateIsBar
<1>4. IsBars(bars) /\ completed \in Seq(Bar) /\ (current = None \/ current \in Bar)
  BY DEF ScalpingInv, ScalpingTypeOK, DayIsDrawn
<1> HIDE DEF m, bar
(* The first candle of the day, or a later one. *)
<1>5. ASSUME NEW s, Shows(s, bars), \A k \in DOMAIN s : s[k].minute < m,
             current' = CreateCandle(trade), completed' \in Seq(Bar),
             \/ Len(s) <= MaxCandles /\ completed' = s
             \/ Len(s) = MaxCandles + 1 /\ completed' = SubSeq(s, 2, Len(s))
      PROVE  ScalpingInv'
  <2> DEFINE c == CreateCandle(trade)
  <2>1. /\ bars[m] = None
        /\ \A k \in Minutes : [bars EXCEPT ![m] = c][k] = IF k = c.minute THEN c ELSE bars[k]
    BY <1>3, <1>5, RegularAddsCandle DEF m
  <2>2. bar = c /\ bars' = [bars EXCEPT ![m] = c]
    BY <1>2, <2>1 DEF bar
  <2>3. \A k \in Minutes : bars'[k] = IF k = c.minute THEN c ELSE bars[k]
    BY <2>1, <2>2
  <2> HIDE DEF c
  <2>4. c \in Bar /\ c.minute = m /\ c.minute \in Minutes /\ current' = c
    BY <1>3, <1>5 DEF c
  <2>5. IsBars(bars') /\ Shows(Append(completed', c), bars')
    <3>1. CASE Len(s) <= MaxCandles /\ completed' = s
      BY <3>1, <1>4, <1>5, <2>3, <2>4, ShowsAppend
    <3>2. CASE Len(s) = MaxCandles + 1 /\ completed' = SubSeq(s, 2, Len(s))
      <4> DEFINE t == Append(completed', c)
      <4>1. s \in Seq(Bar) /\ Len(s) \in Nat /\ Len(s) >= 1
        BY <1>5, <3>2, SomeCandlesAreKept DEF Shows
      <4>2. /\ Len(completed') = Len(s) - 1
            /\ \A k \in 1 .. Len(s) - 1 : completed'[k] = s[k + 1]
        BY <3>2, <4>1
      <4>3. /\ t \in Seq(Bar) /\ Len(t) = Len(s) /\ t[Len(s)] = c
            /\ \A k \in 1 .. Len(s) - 1 : t[k] = completed'[k]
        BY <1>5, <2>4, <4>1, <4>2
      <4>4. \A k \in 1 .. Len(s) - 1 : t[k] = s[k + 1]
        BY <4>2, <4>3
      <4> HIDE DEF t
      <4>5. IsBars(bars') /\ Shows(t, bars')
        <5>1. \A k \in DOMAIN s : s[k].minute < c.minute
          BY <1>5, <2>4
        <5> QED
          <6>1. /\ IsBars(bars) /\ Shows(s, bars) /\ c \in Bar /\ c.minute \in Minutes
                /\ Len(s) = MaxCandles + 1 /\ t \in Seq(Bar) /\ Len(t) = Len(s) /\ t[Len(s)] = c
            BY <1>4, <1>5, <2>4, <3>2, <4>3
          <6> QED
            BY <2>3, <4>4, <5>1, <6>1, ShowsAppendFull
      <4> QED
        BY <4>5 DEF t
    <3> QED
      BY <1>5, <3>1, <3>2
  <2> QED
    BY <1>2, <1>5, <2>2, <2>4, <2>5, RegularKeeps DEF m
<1>6. CASE seen = None
  <2>1. Open(trade) = None /\ Closed(trade) = <<>>
    BY <1>6, MorningBegins DEF Trade
  <2>2. current' = CreateCandle(trade) /\ completed' = <<>>
    BY <1>2, <2>1 DEF RecordRegular
  <2>3. Shows(<<>>, bars)
    BY <1>6, NothingShown DEF ScalpingInv, DayIsDrawn
  <2>4. /\ \A k \in DOMAIN <<>> : <<>>[k].minute < m
        /\ Len(<<>>) <= MaxCandles /\ <<>> \in Seq(Bar)
    BY SomeCandlesAreKept
  <2> QED
    BY <1>5, <2>2, <2>3, <2>4
<1>7. CASE seen # None
  <2>1. /\ Open(trade) = current /\ Closed(trade) = completed
        /\ current # None => current.minute \in Nat /\ current.minute <= m
    BY <1>1, <1>7, InOrderIsNotLate DEF m
  <2>2. Shows(Candles, bars) /\ Candles = IF current = None THEN completed ELSE Append(completed, current)
    BY <1>7, CandlesNow DEF ScalpingInv, DayIsDrawn
  <2>3. CASE current = None
    <3>1. Candles = <<>> /\ completed = <<>>
      BY <2>2, <2>3 DEF ScalpingInv, DayIsDrawn
    <3>2. current' = CreateCandle(trade) /\ completed' = <<>>
      BY <1>2, <2>1, <2>3, <3>1 DEF RecordRegular
    <3>4. /\ \A k \in DOMAIN <<>> : <<>>[k].minute < m
          /\ Len(<<>>) <= MaxCandles /\ <<>> \in Seq(Bar)
      BY SomeCandlesAreKept
    <3> QED
      BY <1>5, <2>2, <3>1, <3>2, <3>4
  <2>4. CASE current # None
    <3> DEFINE s == Append(completed, current)
               n == Len(completed)
    <3>1. /\ s = Candles /\ s \in Seq(Bar) /\ n \in Nat /\ Len(s) = n + 1 /\ DOMAIN s = 1 .. n + 1
          /\ s[n + 1] = current /\ \A k \in 1 .. n : s[k] = completed[k]
          /\ current \in Bar
      BY <1>4, <2>2, <2>4
    <3>2. Shows(s, bars) /\ n + 1 <= MaxCandles + 1
      <4>1. Shows(s, bars)
        BY <2>2, <3>1
      <4> HIDE DEF s
      <4>2. Len(s) <= MaxCandles + 1
        BY <4>1 DEF Shows
      <4> QED
        BY <3>1, <4>1, <4>2
    <3> HIDE DEF s, n
    <3>3. CASE current.minute = m
      <4> DEFINE c == UpdateCandle(current, trade)
                 t == Append(completed, c)
      <4>1. c \in Bar /\ c.minute = m
        BY <3>1, <3>3, UpdateIsBar
      <4>2. current' = c /\ completed' = completed
        BY <1>2, <2>1, <2>4, <3>3 DEF RecordRegular, m
      <4>3. bars[m] = current /\ bar = c
        <5>1. n + 1 \in DOMAIN s /\ s[n + 1].minute = m
          BY <3>1, <3>3
        <5>2. s[n + 1] = bars[m]
          BY <3>2, <5>1 DEF Shows
        <5> QED
          BY <2>4, <3>1, <5>2 DEF bar
      <4> HIDE DEF c
      <4>4. /\ t \in Seq(Bar) /\ Len(t) = Len(s) /\ t[Len(s)] = c
            /\ \A k \in 1 .. Len(s) - 1 : t[k] = s[k]
        <5>1. /\ t \in Seq(Bar) /\ Len(t) = n + 1 /\ t[n + 1] = c
              /\ \A k \in 1 .. n : t[k] = completed[k]
          BY <1>4, <4>1 DEF n
        <5>2. Len(s) = n + 1 /\ Len(s) - 1 = n
          BY <3>1
        <5> QED
          BY <3>1, <5>1, <5>2
      <4>5. \A k \in Minutes : bars'[k] = IF k = c.minute THEN c ELSE bars[k]
        BY <1>2, <1>3, <4>1, <4>3 DEF ScalpingInv, ScalpingTypeOK
      <4>6. Len(s) > 0 /\ c.minute = s[Len(s)].minute
        BY <3>1, <3>3, <4>1
      <4> HIDE DEF t
      <4>7. IsBars(bars') /\ Shows(t, bars')
        BY <1>4, <3>2, <4>1, <4>4, <4>5, <4>6, ShowsUpdate
      <4>8. bars' = [bars EXCEPT ![m] = current'] /\ Append(completed', current') = t
        BY <1>2, <4>2, <4>3 DEF t
      <4> QED
        BY <1>2, <1>4, <4>1, <4>2, <4>7, <4>8, RegularKeeps DEF m
    <3>4. CASE current.minute # m
      <4>1. current.minute < m /\ current.minute \in Nat
        BY <1>3, <2>1, <2>4, <3>4
      <4>2. \A k \in DOMAIN s : s[k].minute < m
        <5> TAKE k \in DOMAIN s
        <5>1. CASE k = n + 1
          BY <5>1, <3>1, <4>1
        <5>2. CASE k # n + 1
          <6>1. k < n + 1 /\ n + 1 \in DOMAIN s
            BY <5>2, <3>1
          <6>2. s[k].minute < s[n + 1].minute /\ s[k].minute \in Nat
            BY <6>1, <3>2, MinutesAreNumbers DEF Shows
          <6> QED
            BY <6>2, <3>1, <4>1, <1>3
        <5> QED
          BY <5>1, <5>2
      <4>3. current' = CreateCandle(trade) /\ completed' = LastOf(s, MaxCandles)
        BY <1>2, <2>1, <2>4, <3>4 DEF RecordRegular, m, s
      <4>4. MaxCandles \in Nat /\ MaxCandles >= 1
        BY ScalpingAssumption
      <4>5. CASE n + 1 <= MaxCandles
        <5>0. Len(s) \in Nat /\ Len(s) <= MaxCandles
          BY <3>1, <4>5
        <5>1. Max({1, Len(s) - MaxCandles + 1}) = 1
          BY <4>4, <5>0, LastStarts
        <5>2. LastOf(s, MaxCandles) = s
          <6>1. LastOf(s, MaxCandles) = SubSeq(s, 1, Len(s))
            BY <5>1 DEF LastOf
          <6>2. SubSeq(s, 1, Len(s)) = s
            BY <3>1
          <6> QED
            BY <6>1, <6>2
        <5> QED
          BY <1>5, <3>1, <3>2, <4>2, <4>3, <4>5, <5>2
      <4>6. CASE n + 1 > MaxCandles
        <5>1. n + 1 = MaxCandles + 1 /\ Len(s) = MaxCandles + 1
          BY <3>1, <3>2, <4>4, <4>6
        <5>2. Len(s) - MaxCandles + 1 = 2
          BY <4>4, <5>1
        <5>3. Max({1, 2}) = 2
          BY Larger2
        <5>4. LastOf(s, MaxCandles) = SubSeq(s, 2, Len(s))
          BY <5>2, <5>3 DEF LastOf
        <5>5. SubSeq(s, 2, Len(s)) \in Seq(Bar)
          BY <3>1, <4>4, <5>1
        <5> QED
          BY <1>5, <3>1, <3>2, <4>2, <4>3, <5>1, <5>4, <5>5
      <4> QED
        BY <3>1, <4>4, <4>5, <4>6
    <3> QED
      BY <3>3, <3>4
  <2> QED
    BY <2>3, <2>4
<1> QED
  BY <1>6, <1>7

LEMMA TradeKeeps ==
  ASSUME ScalpingInv, NEW trade \in Trades, Trade(trade)
  PROVE  ScalpingInv'
<1>1. CASE seen # None /\ ~InOrder(trade)
  <2>1. IsLate(trade)
    BY <1>1, LateIsLate DEF Trade
  <2>2. UNCHANGED <<current, completed, latest, fresh, bars, seen>>
    BY <1>1, <2>1 DEF Trade, Record, trackerVars
  <2> QED
    BY <2>2, NothingHappens
<1>2. CASE seen = None \/ InOrder(trade)
  <2>1. trade.kind = "regular" \/ trade.kind = "other"
    BY DEF Trades
  <2> QED
    BY <1>2, <2>1, OtherKeeps, RegularIsDrawn
<1> QED
  BY <1>1, <1>2

-----------------------------------------------------------------------------
(* The other steps. *)

LEMMA NoBars ==
  ASSUME bars' = [m \in Minutes |-> None], seen' = None
  PROVE  bars' \in [Minutes -> Bar \cup {None}] /\ IsBars(bars') /\ \A m \in Minutes : bars'[m] = None
  BY DEF IsBars

LEMMA TimeKeeps ==
  ASSUME ScalpingInv, TimePasses
  PROVE  ScalpingInv'
<1>1. seen # None /\ seen \in Marks
  BY DEF TimePasses, ScalpingInv, ScalpingTypeOK
<1>2. seen' \in Marks /\ seen' # None /\ seen'.time = seen.time /\ seen'.kind = seen.kind
  <2>1. seen' = [seen EXCEPT !.recent = FALSE]
    BY DEF TimePasses
  <2>2. seen' \in Marks /\ seen'.time = seen.time /\ seen'.kind = seen.kind
    BY <1>1, <2>1 DEF Marks
  <2> QED
    BY <2>2 DEF Marks, None
<1>3. fresh' = FALSE /\ UNCHANGED <<current, completed, latest, bars>>
  BY DEF TimePasses
<1>4. ScalpingTypeOK'
  BY <1>2, <1>3 DEF ScalpingInv, ScalpingTypeOK
<1>5. LatestFollows'
  BY <1>1, <1>2, <1>3 DEF ScalpingInv, LatestFollows, MinuteOf
<1>6. DayIsDrawn'
  BY <1>1, <1>2, <1>3 DEF ScalpingInv, DayIsDrawn, Candles
<1> QED
  BY <1>4, <1>5, <1>6 DEF ScalpingInv

LEMMA NextDayKeeps ==
  ASSUME ScalpingInv, NextDay
  PROVE  ScalpingInv'
<1>1. /\ current # None /\ IsAfternoon(current.minute) /\ fresh' = FALSE
      /\ seen' = None /\ bars' = [m \in Minutes |-> None] /\ UNCHANGED <<current, completed, latest>>
  BY DEF NextDay
<1>2. ScalpingTypeOK'
  BY <1>1, NoBars DEF ScalpingInv, ScalpingTypeOK
<1>3. LatestFollows'
  BY <1>1 DEF ScalpingInv, LatestFollows, MinuteOf, IsAfternoon
<1>4. DayIsDrawn'
  BY <1>1, NoBars DEF ScalpingInv, DayIsDrawn
<1> QED
  BY <1>2, <1>3, <1>4 DEF ScalpingInv

LEMMA ClearKeeps ==
  ASSUME current' = None, completed' = <<>>, latest' = None, fresh' = FALSE,
         bars' = [m \in Minutes |-> None], seen' = None
  PROVE  ScalpingInv'
<1>1. ScalpingTypeOK'
  BY NoBars DEF ScalpingTypeOK
<1>2. LatestFollows'
  BY DEF LatestFollows
<1>3. DayIsDrawn'
  BY NoBars DEF DayIsDrawn
<1> QED
  BY <1>1, <1>2, <1>3 DEF ScalpingInv

LEMMA ScalpingInitInv == ScalpingInit => ScalpingInv
<1> SUFFICES ASSUME ScalpingInit PROVE ScalpingInv
  OBVIOUS
<1>1. /\ current = None /\ completed = <<>> /\ latest = None /\ fresh = FALSE /\ seen = None
      /\ bars = [m \in Minutes |-> None]
  BY DEF ScalpingInit
<1>2. bars \in [Minutes -> Bar \cup {None}] /\ IsBars(bars) /\ \A m \in Minutes : bars[m] = None
  BY <1>1 DEF IsBars
<1> QED
  BY <1>1, <1>2 DEF ScalpingInv, ScalpingTypeOK, LatestFollows, DayIsDrawn

LEMMA ScalpingStep == ScalpingInv /\ [ScalpingNext]_scalpingVars => ScalpingInv'
<1> SUFFICES ASSUME ScalpingInv, [ScalpingNext]_scalpingVars PROVE ScalpingInv'
  OBVIOUS
<1>1. CASE \E t \in Times, q \in Quotes : Trade(TradeOf(t, q))
  BY <1>1, TradeIs, TradeKeeps
<1>2. CASE TimePasses
  BY <1>2, TimeKeeps
<1>3. CASE NextDay
  BY <1>3, NextDayKeeps
<1>4. CASE ClearStock
  BY <1>4, ClearKeeps DEF ClearStock
<1>5. CASE UNCHANGED scalpingVars
  BY <1>5, NothingHappens DEF scalpingVars, trackerVars
<1> QED
  BY <1>1, <1>2, <1>3, <1>4, <1>5 DEF ScalpingNext

LEMMA ScalpingInvariance == ScalpingSpec => []ScalpingInv
  BY ScalpingInitInv, ScalpingStep, PTL DEF ScalpingSpec

-----------------------------------------------------------------------------
(* record: however trades are delayed, halted or of the next day, the candles kept are those of the  *)
(* trades of today that came in order, one for each minute with a regular trade, the latest          *)
(* MaxCandles of them beside the current one.                                                        *)
THEOREM CandlesFollowTrades == ScalpingSpec => []CandlesAreTodays
<1>1. ScalpingInv => CandlesAreTodays
  BY DEF ScalpingInv, DayIsDrawn, Shows, CandlesAreTodays
<1> QED
  BY <1>1, ScalpingInvariance, PTL

(* evaluate: the strategy buys only on a regular trade that is the last one in order, of today and   *)
(* not too old.                                                                                      *)
THEOREM EntriesAreTimely == ScalpingSpec => []EntryFollowsLastTrade
<1>1. ScalpingInv => EntryFollowsLastTrade
  BY DEF ScalpingInv, LatestFollows, ShouldBuy, EntryFollowsLastTrade
<1> QED
  BY <1>1, ScalpingInvariance, PTL

-----------------------------------------------------------------------------
(* Orders held back during an interruption. *)

(* What StockTrades makes of it: the trades of the stock, the engine and the user. *)
HoldSpec == HoldInit /\ [][HaltedTrade \/ PlainTrade \/ HoldsForgotten \/ HoldNext]_holdVars

(* handleViClearTimeout and scheduleViReevaluation: an interruption has a timer at its end, and a held *)
(* order that was not left behind waits for a timer or is on the list of the re-evaluation under way.  *)
HaltIsTimed == halt # "no" => clearTimer

HeldIsWatched ==
    \A s \in held \ (refused \cup failed) : clearTimer \/ reevalTimer \/ s \in run.todo

HoldInv ==
    /\ halt \in {"no", "yes", "over"}
    /\ clearTimer \in BOOLEAN /\ reevalTimer \in BOOLEAN
    /\ run.at = "idle" => run.todo = {}
    /\ HaltIsTimed /\ HeldIsWatched

LEMMA HoldStarts == HoldInit => HoldInv
<1> SUFFICES ASSUME HoldInit PROVE HoldInv
  OBVIOUS
<1>1. halt = "no" /\ clearTimer = FALSE /\ reevalTimer = FALSE /\ run = Idle /\ held = {}
  BY DEF HoldInit
<1>2. Idle.todo = {}
  BY DEF Idle
<1> QED
  BY <1>1, <1>2 DEF HoldInv, HaltIsTimed, HeldIsWatched

(* An order is held back only during an interruption, whose timer then looks after it. *)
LEMMA JudgingKeepsWatch ==
  ASSUME HoldInv, NEW s, Defer(s) \/ Order(s) \/ NoOrder, UNCHANGED <<clearTimer, reevalTimer>>,
         run' = run \/ (run.todo = run'.todo /\ run'.at # "idle")
  PROVE  HoldInv'
<1>1. /\ halt \in {"no", "yes", "over"} /\ clearTimer \in BOOLEAN /\ reevalTimer \in BOOLEAN
      /\ halt # "no" => clearTimer
      /\ \A x \in held \ (refused \cup failed) : clearTimer \/ reevalTimer \/ x \in run.todo
      /\ run.at = "idle" => run.todo = {}
  BY DEF HoldInv, HaltIsTimed, HeldIsWatched
<1>2. run'.todo = run.todo /\ (run'.at = "idle" => run'.todo = {})
  BY <1>1
<1>3. halt' \in {"no", "yes", "over"} /\ (halt' # "no" => halt # "no")
  BY <1>1 DEF Defer, Order, NoOrder, GetState
<1>4. HeldIsWatched'
  <2>1. CASE clearTimer
    BY <2>1 DEF HeldIsWatched
  <2>2. CASE ~clearTimer
    <3>1. ~Defer(s)
      BY <1>1, <2>2 DEF Defer
    <3>2. held' \ (refused' \cup failed') \subseteq held \ (refused \cup failed)
      BY <3>1 DEF Order, NoOrder, Release, missed
    <3> QED
      BY <1>1, <1>2, <3>2 DEF HeldIsWatched
  <2> QED
    BY <2>1, <2>2
<1> QED
  BY <1>1, <1>2, <1>3, <1>4 DEF HoldInv, HaltIsTimed

LEMMA HoldStep ==
  HoldInv /\ [HaltedTrade \/ PlainTrade \/ HoldsForgotten \/ HoldNext]_holdVars => HoldInv'
<1> SUFFICES ASSUME HoldInv, [HaltedTrade \/ PlainTrade \/ HoldsForgotten \/ HoldNext]_holdVars
             PROVE  HoldInv'
  OBVIOUS
<1>1. /\ halt \in {"no", "yes", "over"} /\ clearTimer \in BOOLEAN /\ reevalTimer \in BOOLEAN
      /\ halt # "no" => clearTimer
      /\ \A x \in held \ (refused \cup failed) : clearTimer \/ reevalTimer \/ x \in run.todo
      /\ run.at = "idle" => run.todo = {}
  BY DEF HoldInv, HaltIsTimed, HeldIsWatched
<1> USE <1>1 DEF HoldInv, HaltIsTimed, HeldIsWatched, missed, engineVars
<1>2. CASE HaltedTrade
  BY <1>2 DEF HaltedTrade
<1>3. CASE PlainTrade
  BY <1>3 DEF PlainTrade
<1>4. CASE HoldsForgotten
  BY <1>4 DEF HoldsForgotten, Release
<1>5. CASE TimeoutPasses
  BY <1>5 DEF TimeoutPasses
<1>6. CASE ClearTimerFires
  BY <1>6 DEF ClearTimerFires, GetState
<1>7. CASE ReevaluationFires
  <2>1. CASE ReevaluationRefused
    BY <2>1 DEF ReevaluationRefused, MayReevaluate, InFlight, Idle
  <2>2. CASE NothingHeld
    BY <2>2 DEF NothingHeld
  <2>3. CASE ReevaluationStarts
    BY <2>3 DEF ReevaluationStarts, Idle
  <2> QED
    BY <1>7, <2>1, <2>2, <2>3 DEF ReevaluationFires
<1>8. CASE RunStep
  <2>1. CASE SessionsFound
    BY <2>1 DEF SessionsFound
  <2>2. CASE TakeHeld
    BY <2>2 DEF TakeHeld, Release
  <2>3. CASE Judged
    <3>1. run'.todo = run.todo /\ run'.at = "loop"
      BY <2>3 DEF Judged
    <3>2. \E s : Defer(s) \/ Order(s) \/ NoOrder
      BY <2>3 DEF Judged
    <3>3. UNCHANGED <<clearTimer, reevalTimer>>
      BY <2>3 DEF Judged
    <3> QED
      BY <3>1, <3>2, <3>3, JudgingKeepsWatch
  <2>4. CASE ReevaluationEnds
    BY <2>4 DEF ReevaluationEnds, Idle
  <2>5. CASE ReevaluationFails
    BY <2>5 DEF ReevaluationFails, Idle
  <2> QED
    BY <1>8, <2>1, <2>2, <2>3, <2>4, <2>5 DEF RunStep
<1>9. CASE SessionsLoaded \/ StockStaysActive
  BY <1>9 DEF SessionsLoaded, StockStaysActive
<1>10. ASSUME NEW s \in Sessions, SessionJudged(s) PROVE HoldInv'
  <2>1. (Defer(s) \/ Order(s)) /\ UNCHANGED <<clearTimer, reevalTimer, run>>
    BY <1>10 DEF SessionJudged
  <2> QED
    BY <2>1, JudgingKeepsWatch
<1>11. ASSUME NEW s \in Sessions, Pause(s) PROVE HoldInv'
  BY <1>11 DEF Pause, Release
<1>12. ASSUME NEW s \in Sessions, Resume(s) PROVE HoldInv'
  BY <1>12 DEF Resume
<1>13. CASE UNCHANGED holdVars
  BY <1>13 DEF holdVars
<1> QED
  BY <1>2, <1>3, <1>4, <1>5, <1>6, <1>7, <1>8, <1>9, <1>10, <1>11, <1>12, <1>13 DEF HoldNext

(* A held order is never without somebody who will come back to it: the timer of the interruption, the *)
(* timer of the re-evaluation, or the re-evaluation itself, unless that one failed or was refused      *)
(* because another one was under way.                                                                  *)
THEOREM HeldOrdersAreWatched == HoldSpec => []HeldIsWatched
<1>1. HoldInv => HeldIsWatched
  BY DEF HoldInv
<1> QED
  BY <1>1, HoldStarts, HoldStep, PTL DEF HoldSpec

=============================================================================
