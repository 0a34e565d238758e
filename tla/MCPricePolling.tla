---------------------------- MODULE MCPricePolling ----------------------------
(* Three studies of the poller. *)
EXTENDS PricePolling

MCCapacity == [b \in Buckets |-> 1]

KisAtHand == kisToken /\ \A c \in Requests : quote[c].at = "kis" => quote[c].try = 0

(* Stocks that become active one after the other and stay so. *)
ActivateNext(last) == \E s \in Stocks : s = Cardinality(active) + 1 /\ s <= last /\ Activate(s)

(* With Toss: two questions at a time, for two stocks that receive no trades and are asked for again  *)
(* at once; KIS answers, and Toss refuses a login before the first one only.                         *)
AllDue == later = {} /\ \A s \in Stocks : price[s] # "fresh"
Wait == \E s \in Stocks : TimeComes(s) \/ PriceAges(s)
Ask ==
    \/ Gate /\ KisAtHand' /\ (accepted # NoToken => toss'.failures = 0) /\ \A c \in Requests : quote'[c].at # "nothing"
    \/ RunPricePollingRound
    \/ \E c \in Requests : PollEnds(c)
    \/ ~toss.issuing /\ accepted = NoToken /\ ActivateNext(2)
WithToss == toss.configured /\ IF AllDue THEN Ask ELSE Wait

(* Without Toss: one question at a time, while two stocks come and go; the second one stays while it  *)
(* is asked for, and its price does not grow old; KIS asks for a token and for patience only while    *)
(* the first stock is alone.                                                                         *)
ComingAndGoing ==
    /\ maxInFlight = 1
    /\ Next
    /\ active' \subseteq {1, 2}
    /\ KisAtHand' \/ active' \subseteq {1}
    /\ price'[2] # "old"
    /\ 2 \in inFlight => 2 \in active'

(* Without Toss: three stocks that stay and two questions at a time.  KIS has prices of the first two *)
(* only, and trades come for the second one; a price is old once its next question is due.           *)
Crowd ==
    /\ maxInFlight = 2
    /\ \/ Gate /\ KisAtHand'
          /\ \A c \in Requests : quote'[c].at = (IF asks[c] = 3 THEN "price" ELSE "nothing") => quote'[c] = quote[c]
       \/ RunPricePollingRound
       \/ \E c \in Requests : PollEnds(c)
       \/ ActivateNext(3)
       \/ SetLatestPrice(2)
       \/ \E s \in Stocks : TimeComes(s) /\ price[s] # "fresh"
       \/ \E s \in Stocks : PriceAges(s)

WithoutToss == ~toss.configured /\ (ComingAndGoing \/ Crowd)

(* A bucket is filled when a request waits for it. *)
OnDemand(bs) == (\A b \in bs : bucket'[b].tokens <= bucket[b].tokens) \/ SomebodyWaits(bs)

MCInit == Init /\ (toss.configured => kisToken /\ maxInFlight = 2) /\ (maxInFlight = 2 => kisToken)
MCNext == (WithToss \/ WithoutToss) /\ OnDemand({"kis"}) /\ OnDemand({"auth", "market"})
MCSpec == MCInit /\ [][MCNext]_vars /\ Fairness
==============================================================================
