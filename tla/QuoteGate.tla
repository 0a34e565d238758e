------------------------------ MODULE QuoteGate ------------------------------
(* How the backend asks for a current price (QuotationService.getLastPrice): Toss first, with its    *)
(* own OAuth token that concurrent requests share, and KIS when Toss is not set up, blocked, wrong   *)
(* or out of date. Every request to either waits for a token of a bucket that a timer fills.         *)
(*                                                                                                   *)
(* A request is known by its number. Prices are not told apart, and neither are the reasons for      *)
(* which an answer is of no use. An answer of KIS that says its rate limit is exceeded is asked for  *)
(* again with a growing delay, MaxRetry times.                                                       *)
EXTENDS Integers, Sequences, SequencesExt

CONSTANTS
    Requests,       \* numbers of requests that may be under way at once
    Capacity,       \* capacity of each bucket
    MaxRps,         \* KIS_MAX_RPS
    MaxRetry,       \* KIS_RATE_MAX_RETRY
    Threshold,      \* AUTH_FAILURE_THRESHOLD
    MaxTokens       \* bound: tokens Toss issues

Buckets == {"auth", "market", "kis"}
Issue == 0          \* the request for a Toss token in the bucket "auth"

ASSUME QuoteGateAssumption ==
    /\ Requests \subseteq Nat \ {Issue}
    /\ Capacity \in [Buckets -> Nat \ {0}] /\ MaxRps \in Nat \ {0}
    /\ MaxRetry \in Nat /\ Threshold \in Nat \ {0} /\ MaxTokens \in Nat

VARIABLES
    bucket,         \* the rate limiters: [tokens, queue]
    toss,           \* TossService: [configured, token, usable, issuing, failures, breaker]
    accepted,       \* the token Toss accepts
    kisToken,       \* KisService has an access token that has not expired
    quote           \* the requests: [at, try, used]

gateVars == <<bucket, toss, accepted, kisToken, quote>>

NoToken == 0
NoQuote == [at |-> "none", try |-> 0, used |-> NoToken]
Asked == [at |-> "asked", try |-> 0, used |-> NoToken]
Ended(c) == quote[c].at \in {"price", "nothing"}

GateInit ==
    /\ bucket = [b \in Buckets |-> [tokens |-> Capacity[b], queue |-> <<>>]]
    /\ toss \in [configured : BOOLEAN, token : {NoToken}, usable : {FALSE}, issuing : {FALSE},
                 failures : {0}, breaker : {FALSE}]
    /\ accepted = NoToken
    /\ kisToken \in BOOLEAN
    /\ quote = [c \in Requests |-> NoQuote]

------------------------------------------------------------------------------
(* The buckets.                                                                                      *)

(* acquire: at once, or at the end of the queue. *)
Acquire(bk, c) ==
    IF bk.queue = <<>> /\ bk.tokens > 0 THEN [bk EXCEPT !.tokens = @ - 1]
    ELSE [bk EXCEPT !.queue = Append(@, c)]

(* drainQueue and drain, once tokens have come. *)
Drained(bk, tokens) ==
    LET served == IF tokens < Len(bk.queue) THEN tokens ELSE Len(bk.queue) IN
    [tokens |-> tokens - served, queue |-> SubSeq(bk.queue, served + 1, Len(bk.queue))]

Queued(b, c) == c \in ToSet(bucket[b].queue)

(* Two timers of a second: KIS adds its rate up to the burst, Toss fills its groups. *)
RefillKis ==
    /\ LET sum == bucket["kis"].tokens + MaxRps
           tokens == IF sum < Capacity["kis"] THEN sum ELSE Capacity["kis"] IN
       bucket' = [bucket EXCEPT !["kis"] = Drained(@, tokens)]
    /\ UNCHANGED <<toss, accepted, kisToken, quote>>

RefillToss ==
    /\ bucket' = [b \in Buckets |-> IF b = "kis" THEN bucket[b] ELSE Drained(bucket[b], Capacity[b])]
    /\ UNCHANGED <<toss, accepted, kisToken, quote>>

------------------------------------------------------------------------------
(* Toss.                                                                                             *)

Again(q) == [q EXCEPT !.at = "again", !.try = 2, !.used = NoToken]
ToKis(q) == [q EXCEPT !.at = IF kisToken THEN "kis" ELSE "kisToken", !.try = 0, !.used = NoToken]

(* getAccessToken of KIS, and then its current price: each request of a token is one of its own. *)
AskKis(c) ==
    /\ quote' = [quote EXCEPT ![c] = ToKis(@)]
    /\ bucket' = [bucket EXCEPT !["kis"] = Acquire(@, c)]
    /\ UNCHANGED <<toss, accepted, kisToken>>

(* getAccessToken of Toss: the cached token, the one that is being issued, or a new one. *)
AskToss(c, try) ==
    IF toss.token # NoToken /\ toss.usable
    THEN /\ quote' = [quote EXCEPT ![c] = [at |-> "market", try |-> try, used |-> toss.token]]
         /\ bucket' = [bucket EXCEPT !["market"] = Acquire(@, c)]
         /\ toss' = toss
    ELSE /\ quote' = [quote EXCEPT ![c] = [at |-> "token", try |-> try, used |-> NoToken]]
         /\ bucket' = IF toss.issuing THEN bucket ELSE [bucket EXCEPT !["auth"] = Acquire(@, Issue)]
         /\ toss' = [toss EXCEPT !.issuing = TRUE]

GetLastPrice(c) ==
    /\ quote[c].at = "asked"
    /\ IF toss.configured /\ ~toss.breaker THEN AskToss(c, 1) /\ UNCHANGED <<accepted, kisToken>>
       ELSE AskKis(c)

IssuePending == toss.issuing /\ ~Queued("auth", Issue)
Waiting == {c \in Requests : quote[c].at = "token"}

(* A token is issued: Toss accepts it and no other, and everybody who waits goes on with it. *)
TokenIssued ==
    /\ IssuePending /\ accepted < MaxTokens
    /\ LET token == accepted + 1 IN
       /\ accepted' = token
       /\ toss' = [toss EXCEPT !.token = token, !.usable = TRUE, !.issuing = FALSE, !.failures = 0,
                               !.breaker = FALSE]
       /\ quote' = [c \in Requests |->
                      IF c \in Waiting THEN [quote[c] EXCEPT !.at = "market", !.used = token] ELSE quote[c]]
       /\ bucket' = [bucket EXCEPT !["market"] = FoldLeft(Acquire, @, SetToSeq(Waiting))]
    /\ UNCHANGED kisToken

(* The request for a token fails: those who wait go on with KIS, or once more with Toss after a 401, *)
(* and after Threshold failures in a row nobody asks Toss for a minute.                              *)
TokenRefused(unauthorized) ==
    /\ IssuePending
    /\ toss' = [toss EXCEPT !.issuing = FALSE, !.failures = IF @ < Threshold THEN @ + 1 ELSE @,
                            !.breaker = @ \/ toss.failures + 1 >= Threshold]
    /\ LET again == {c \in Waiting : unauthorized /\ quote[c].try = 1} IN
       /\ quote' = [c \in Requests |->
                      CASE c \in again -> Again(quote[c])
                        [] c \in Waiting \ again -> ToKis(quote[c])
                        [] OTHER -> quote[c]]
       /\ bucket' = [bucket EXCEPT !["kis"] = FoldLeft(Acquire, @, SetToSeq(Waiting \ again))]
    /\ UNCHANGED <<accepted, kisToken>>

BreakerCloses ==
    /\ toss.breaker
    /\ toss' = [toss EXCEPT !.breaker = FALSE]
    /\ UNCHANGED <<bucket, accepted, kisToken, quote>>

AtToss(c) == quote[c].at = "market" /\ ~Queued("market", c)

(* The price of Toss counts when its trade is recent. *)
TossAnswers(c) ==
    /\ AtToss(c) /\ quote[c].used = accepted
    /\ quote' = [quote EXCEPT ![c].at = "price"]
    /\ UNCHANGED <<bucket, toss, accepted, kisToken>>

(* An old price, no trade today, an error, or a second refusal of a token. *)
TossOfNoUse(c) == AtToss(c) /\ AskKis(c)

(* Mutant: the cached token is discarded whichever token was refused. *)
InvalidateAnyToken(token) == [toss EXCEPT !.token = NoToken, !.usable = FALSE]

(* Only the token that was refused is discarded. *)
InvalidateToken(token) ==
    IF token = toss.token THEN [toss EXCEPT !.token = NoToken, !.usable = FALSE] ELSE toss

(* 401: the token of this request is discarded and the request repeated once. *)
TossRefusesToken(c) ==
    /\ AtToss(c) /\ quote[c].used # accepted /\ quote[c].try = 1
    /\ toss' = InvalidateToken(quote[c].used)
    /\ quote' = [quote EXCEPT ![c] = Again(@)]
    /\ UNCHANGED <<bucket, accepted, kisToken>>

TossAgain(c) ==
    /\ quote[c].at = "again"
    /\ IF toss.breaker /\ ~(toss.token # NoToken /\ toss.usable) /\ ~toss.issuing THEN AskKis(c)
       ELSE AskToss(c, 2) /\ UNCHANGED <<accepted, kisToken>>

(* The keys were replaced, or the token has reached its age. *)
TokenRevoked ==
    /\ accepted \in 1 .. (MaxTokens - 1) /\ accepted = toss.token
    /\ accepted' = accepted + 1
    /\ UNCHANGED <<bucket, toss, kisToken, quote>>

TokenExpires ==
    /\ toss.usable /\ accepted < MaxTokens
    /\ toss' = [toss EXCEPT !.usable = FALSE]
    /\ UNCHANGED <<bucket, accepted, kisToken, quote>>

------------------------------------------------------------------------------
(* KIS.                                                                                              *)

AtKis(c, at) == quote[c].at = at /\ ~Queued("kis", c)

KisTokenIssued(c) ==
    /\ AtKis(c, "kisToken")
    /\ kisToken' = TRUE
    /\ quote' = [quote EXCEPT ![c].at = "kis"]
    /\ bucket' = [bucket EXCEPT !["kis"] = Acquire(@, c)]
    /\ UNCHANGED <<toss, accepted>>

KisTokenExpires ==
    /\ kisToken /\ kisToken' = FALSE
    /\ UNCHANGED <<bucket, toss, accepted, quote>>

KisAnswers(c) ==
    /\ AtKis(c, "kis")
    /\ quote' = [quote EXCEPT ![c].at = "price"]
    /\ UNCHANGED <<bucket, toss, accepted, kisToken>>

(* An error, or no answer in ten seconds. *)
KisFails(c) ==
    /\ AtKis(c, "kis") \/ AtKis(c, "kisToken")
    /\ quote' = [quote EXCEPT ![c].at = "nothing"]
    /\ UNCHANGED <<bucket, toss, accepted, kisToken>>

(* The rate limit: after a while the request waits for its turn again. *)
KisLimits(c) ==
    /\ AtKis(c, "kis") /\ quote[c].try < MaxRetry
    /\ quote' = [quote EXCEPT ![c].try = @ + 1]
    /\ bucket' = [bucket EXCEPT !["kis"] = Acquire(@, c)]
    /\ UNCHANGED <<toss, accepted, kisToken>>

RequestStep(c) ==
    \/ GetLastPrice(c)
    \/ TossAnswers(c) \/ TossOfNoUse(c) \/ TossRefusesToken(c) \/ TossAgain(c)
    \/ KisTokenIssued(c) \/ KisAnswers(c) \/ KisFails(c) \/ KisLimits(c)

GateStep ==
    \/ \E c \in Requests : RequestStep(c)
    \/ RefillKis \/ RefillToss
    \/ TokenIssued \/ BreakerCloses
    \/ \E unauthorized \in BOOLEAN : TokenRefused(unauthorized)
    \/ TokenRevoked \/ TokenExpires \/ KisTokenExpires
==============================================================================
