------------------------- MODULE RealtimeFeedProofs -------------------------
(***************************************************************************)
(* Theorems about RealtimeFeed for any set of stocks and clients, any      *)
(* number of unanswered requests, and whatever faults happen.              *)
(***************************************************************************)
EXTENDS RealtimeFeed, TLAPS

(* The request sent last of those that wait for their answer. *)
Latest(t) == requests[t][Len(requests[t])]

(***************************************************************************)
(* The strengthening.  On an open socket the latest unanswered request of  *)
(* a topic says whether it is wanted, and an entry of                      *)
(* pendingSubscriptionActions is that request's: an answer can be taken    *)
(* for another request's only while later requests wait.  Without          *)
(* unanswered requests KIS and the wanted set agree.                       *)
(***************************************************************************)
LatestIsWanted(t) ==
    ws = "open" /\ requests[t] # <<>> =>
        /\ Latest(t) = "subscribe" <=> t \in wanted
        /\ action[t] \in {"none", Latest(t)}

AgreesWhenAnswered(t) ==
    ws = "open" /\ requests[t] = <<>> =>
        /\ t \in kis => t \in wanted
        /\ t \in wanted => t \in kis \/ refused[t] # "ok"

NothingDelivered == ws \in {"none", "connecting"} => kis = {}

(* The notice topic is only ever subscribed, and stays wanted from then on. *)
NoticeOnlySubscribed ==
    /\ notice = "subscribed" => Notice \in wanted
    /\ \A i \in 1 .. Len(requests[Notice]) : requests[Notice][i] = "subscribe"

TopicInv ==
    /\ \A t \in Topics : LatestIsWanted(t) /\ AgreesWhenAnswered(t)
    /\ NothingDelivered
    /\ NoticeOnlySubscribed
    /\ NoticeFlagHonest

IInv ==
    /\ TypeOK
    /\ OneConnectionAttempt
    /\ TopicInv
    /\ NoLeakedTopic
    /\ RefusedIsRetried

-----------------------------------------------------------------------------
(* What appending a request, and answering the first one, does to a queue. *)
LEMMA AppendLatest ==
    ASSUME NEW q \in Seq(Requests), NEW r \in Requests
    PROVE  /\ Append(q, r) \in Seq(Requests)
           /\ Append(q, r) # <<>>
           /\ Append(q, r)[Len(Append(q, r))] = r
           /\ (\A i \in 1 .. Len(q) : q[i] = "subscribe") /\ r = "subscribe"
                => \A i \in 1 .. Len(Append(q, r)) : Append(q, r)[i] = "subscribe"
  OBVIOUS

LEMMA TailLatest ==
    ASSUME NEW q \in Seq(Requests), q # <<>>
    PROVE  /\ Head(q) \in Requests
           /\ Tail(q) \in Seq(Requests)
           /\ Tail(q) # <<>> => Tail(q)[Len(Tail(q))] = q[Len(q)]
           /\ Tail(q) = <<>> => Head(q) = q[Len(q)]
           /\ (\A i \in 1 .. Len(q) : q[i] = "subscribe")
                => /\ Head(q) = "subscribe"
                   /\ \A i \in 1 .. Len(Tail(q)) : Tail(q)[i] = "subscribe"
<1>1. Len(q) \in Nat /\ Len(q) > 0
  OBVIOUS
<1>2. /\ Head(q) = q[1] /\ Tail(q) \in Seq(Requests)
      /\ Len(Tail(q)) = Len(q) - 1
      /\ \A i \in 1 .. Len(q) - 1 : Tail(q)[i] = q[i + 1]
  BY <1>1
<1>3. Tail(q) = <<>> => Len(q) = 1
  BY <1>1, <1>2
<1>4. Tail(q) # <<>> => Len(q) > 1
  BY <1>1, <1>2
<1>5. Head(q) \in Requests
  BY <1>1, <1>2
<1>6. QED
  BY <1>1, <1>2, <1>3, <1>4, <1>5

(* sendSubscription on an open socket makes its request the latest one of its *)
(* topics; without one, and for the other topics, nothing changes.            *)
LEMMA SendEffect ==
    ASSUME SocketTypeOK, NEW T \in SUBSET Topics, NEW r \in Requests, Send(T, r)
    PROVE  /\ requests' \in [Topics -> Seq(Requests)]
           /\ action' \in [Topics -> Requests \cup {"none"}]
           /\ \A t \in Topics :
                IF t \in T /\ ws = "open"
                  THEN requests'[t] # <<>> /\ Latest(t)' = r /\ action'[t] = r
                  ELSE requests'[t] = requests[t] /\ action'[t] = action[t]
<1>1. CASE ws = "open"
  <2>1. \A t \in T : /\ requests'[t] = Append(requests[t], r)
                     /\ requests[t] \in Seq(Requests)
                     /\ action'[t] = r
    BY <1>1 DEF Send, SocketTypeOK
  <2>2. \A t \in Topics \ T : requests'[t] = requests[t] /\ action'[t] = action[t]
    BY <1>1 DEF Send
  <2>3. \A t \in T : /\ requests'[t] \in Seq(Requests) /\ requests'[t] # <<>>
                     /\ requests'[t][Len(requests'[t])] = r
    BY <2>1, AppendLatest
  <2>4. requests' \in [Topics -> Seq(Requests)]
    <3>1. requests' = [t \in Topics |-> requests'[t]]
      BY <1>1 DEF Send
    <3>2. \A t \in Topics : requests'[t] \in Seq(Requests)
      BY <2>2, <2>3 DEF SocketTypeOK
    <3>3. QED
      BY <3>1, <3>2
  <2>5. action' \in [Topics -> Requests \cup {"none"}]
    BY <1>1 DEF Send, SocketTypeOK
  <2>6. QED
    BY <1>1, <2>1, <2>2, <2>3, <2>4, <2>5 DEF Latest
<1>2. CASE ws # "open"
  BY <1>2 DEF Send, SocketTypeOK
<1>3. QED
  BY <1>1, <1>2

-----------------------------------------------------------------------------
(* Subscribing keeps the invariant of the topics, and leaves no answered topic *)
(* behind that was not answered and wanted before.                             *)
LEMMA SubscribeKeeps ==
    ASSUME SocketTypeOK, TopicInv,
           NEW t \in Topics, NEW force \in BOOLEAN, SubscribeTopic(t, force),
           UNCHANGED <<connVars, kisVars>>,
           notice' = notice \/ notice' = "pending"
    PROVE  /\ requests' \in [Topics -> Seq(Requests)]
           /\ action' \in [Topics -> Requests \cup {"none"}]
           /\ TopicInv'
           /\ \A u \in Topics : ws = "open" /\ requests'[u] = <<>> =>
                requests[u] = <<>> /\ (u = t => t \in wanted)
<1> USE DEF SocketTypeOK, connVars, kisVars
<1>1. wanted' = wanted \cup {t}
  BY DEF SubscribeTopic
<1>2. CASE UNCHANGED <<requests, action>> /\ t \in wanted
  BY <1>1, <1>2 DEF TopicInv, LatestIsWanted, AgreesWhenAnswered, NothingDelivered,
                    NoticeOnlySubscribed, NoticeFlagHonest, Latest
<1>3. CASE Send({t}, "subscribe")
  <2>1. /\ requests' \in [Topics -> Seq(Requests)]
        /\ action' \in [Topics -> Requests \cup {"none"}]
        /\ \A u \in Topics :
             IF u \in {t} /\ ws = "open"
               THEN requests'[u] # <<>> /\ Latest(u)' = "subscribe" /\ action'[u] = "subscribe"
               ELSE requests'[u] = requests[u] /\ action'[u] = action[u]
    <3>1. "subscribe" \in Requests /\ {t} \in SUBSET Topics
      BY DEF Requests
    <3>2. QED
      BY <1>3, <3>1, SendEffect
  <2>2. \A u \in Topics : LatestIsWanted(u)' /\ AgreesWhenAnswered(u)'
    <3>1. ASSUME NEW u \in Topics PROVE LatestIsWanted(u)' /\ AgreesWhenAnswered(u)'
      <4>1. CASE u = t /\ ws = "open"
        BY <1>1, <2>1, <4>1 DEF LatestIsWanted, AgreesWhenAnswered
      <4>2. CASE ws # "open"
        BY <4>2 DEF LatestIsWanted, AgreesWhenAnswered
      <4>3. CASE u # t
        BY <1>1, <2>1, <4>3 DEF TopicInv, LatestIsWanted, AgreesWhenAnswered, Latest
      <4>4. QED
        BY <4>1, <4>2, <4>3
    <3>2. QED
      BY <3>1
  <2>3. NothingDelivered' /\ NoticeFlagHonest'
    BY <2>1 DEF TopicInv, NothingDelivered, NoticeFlagHonest, Topics
  <2>4. NoticeOnlySubscribed'
    <3>1. \/ requests'[Notice] = requests[Notice]
          \/ requests'[Notice] = Append(requests[Notice], "subscribe")
      BY <1>3 DEF Send, Topics
    <3>2. \A i \in 1 .. Len(requests'[Notice]) : requests'[Notice][i] = "subscribe"
      BY <3>1, AppendLatest DEF TopicInv, NoticeOnlySubscribed, Topics, Requests
    <3>3. QED
      BY <1>1, <3>2 DEF TopicInv, NoticeOnlySubscribed
  <2>5. QED
    BY <2>1, <2>2, <2>3, <2>4 DEF TopicInv
<1>4. QED
  BY <1>2, <1>3 DEF SubscribeTopic

(* So does unsubscribing stocks. *)
LEMMA UnsubscribeKeeps ==
    ASSUME SocketTypeOK, TopicInv, NEW T \in SUBSET Stocks, UnsubscribeTopics(T),
           UNCHANGED <<connVars, kisVars, noticeVars>>
    PROVE  /\ requests' \in [Topics -> Seq(Requests)]
           /\ action' \in [Topics -> Requests \cup {"none"}]
           /\ TopicInv'
           /\ \A u \in Topics : requests'[u] = <<>> => requests[u] = <<>>
<1> USE DEF SocketTypeOK, connVars, kisVars, noticeVars
<1> DEFINE D == T \cap wanted
<1>1. wanted' = wanted \ T /\ Send(D, "unsubscribe") /\ D \in SUBSET Topics /\ Notice \notin T
  BY KisWebSocketAssumption DEF UnsubscribeTopics, Topics
<1> HIDE DEF D
<1>2. /\ requests' \in [Topics -> Seq(Requests)]
      /\ action' \in [Topics -> Requests \cup {"none"}]
      /\ \A u \in Topics :
           IF u \in D /\ ws = "open"
             THEN requests'[u] # <<>> /\ Latest(u)' = "unsubscribe" /\ action'[u] = "unsubscribe"
             ELSE requests'[u] = requests[u] /\ action'[u] = action[u]
  <2>1. "unsubscribe" \in Requests
    BY DEF Requests
  <2>2. QED
    BY <1>1, <2>1, SendEffect
<1>3. ASSUME NEW u \in Topics PROVE LatestIsWanted(u)' /\ AgreesWhenAnswered(u)'
  <2>1. CASE u \in D /\ ws = "open"
    BY <1>1, <1>2, <2>1 DEF LatestIsWanted, AgreesWhenAnswered, D
  <2>2. CASE ws # "open"
    BY <2>2 DEF LatestIsWanted, AgreesWhenAnswered
  <2>3. CASE u \notin D
    <3>1. u \in wanted' <=> u \in wanted
      BY <1>1, <2>3 DEF D
    <3>2. QED
      BY <1>2, <2>3, <3>1 DEF TopicInv, LatestIsWanted, AgreesWhenAnswered, Latest
  <2>4. QED
    BY <2>1, <2>2, <2>3
<1>4. requests'[Notice] = requests[Notice] /\ (Notice \in wanted' <=> Notice \in wanted)
  BY <1>1, <1>2 DEF Topics, D
<1>5. NothingDelivered' /\ NoticeFlagHonest' /\ NoticeOnlySubscribed'
  BY <1>4 DEF TopicInv, NothingDelivered, NoticeFlagHonest, NoticeOnlySubscribed
<1>6. QED
  BY <1>2, <1>3, <1>5 DEF TopicInv

-----------------------------------------------------------------------------
(* An answer keeps the invariant of the topics; when it is the last one, it is *)
(* taken for the request it answers.                                           *)
LEMMA AnswerKeeps ==
    ASSUME SocketTypeOK, TopicInv, NEW t \in Topics, NEW ans \in Answers, KisAnswers(t, ans)
    PROVE  /\ SocketTypeOK'
           /\ TopicInv'
           /\ requests[t] # <<>> /\ ws = "open"
           /\ requests'[t] = <<>> => AnsweredAction(t) = Latest(t)
           /\ t \in wanted /\ requests'[t] = <<>> /\ t \notin kis' => refused'[t] = ans /\ ans # "ok"
<1> USE DEF SocketTypeOK, connVars
<1> DEFINE r == Head(requests[t])
<1>1. /\ ws = "open" /\ requests[t] # <<>> /\ requests[t] \in Seq(Requests)
      /\ requests'[t] = Tail(requests[t])
      /\ \A u \in Topics \ {t} : requests'[u] = requests[u] /\ action'[u] = action[u]
      /\ action'[t] = "none"
      /\ UNCHANGED <<connVars, wanted>>
  BY DEF KisAnswers
<1>2. /\ r \in Requests
      /\ requests'[t] \in Seq(Requests)
      /\ requests'[t] # <<>> => Latest(t)' = Latest(t)
      /\ requests'[t] = <<>> => r = Latest(t)
  BY <1>1, TailLatest DEF Latest
<1>3. /\ \A u \in Topics \ {t} : (u \in kis' <=> u \in kis) /\ refused'[u] = refused[u]
      /\ r = "unsubscribe" => t \notin kis' /\ refused'[t] = "ok"
      /\ r = "subscribe" => /\ ans = "ok" => t \in kis'
                            /\ t \in kis => t \in kis'
                            /\ t \in kis' => ans = "ok" \/ t \in kis
                            /\ refused'[t] = ans
  BY <1>2 DEF KisAnswers, KisDoes, Requests
<1>4. SocketTypeOK'
  <2>1. requests' \in [Topics -> Seq(Requests)] /\ action' \in [Topics -> Requests \cup {"none"}]
    BY <1>2 DEF KisAnswers
  <2>2. kis' \subseteq Topics /\ refused' \in [Topics -> Answers]
    BY DEF KisAnswers, KisDoes, Answers
  <2>3. /\ notice' \in {"idle", "pending", "subscribed", "failed"}
        /\ waiting' = (notice' = "pending")
    BY DEF KisAnswers, noticeVars
  <2>4. QED
    BY <1>1, <2>1, <2>2, <2>3
<1>5. LatestIsWanted(t)' /\ AgreesWhenAnswered(t)'
  <2>1. (Latest(t) = "subscribe" <=> t \in wanted) /\ action[t] \in {"none", Latest(t)}
    BY <1>1 DEF TopicInv, LatestIsWanted
  <2>2. CASE requests'[t] # <<>>
    BY <1>1, <1>2, <2>1, <2>2 DEF LatestIsWanted, AgreesWhenAnswered
  <2>3. CASE requests'[t] = <<>> /\ r = "subscribe"
    <3>1. t \in wanted'
      BY <1>1, <1>2, <2>1, <2>3
    <3>2. t \in kis' \/ refused'[t] # "ok"
      BY <1>3, <2>3
    <3>3. QED
      BY <2>3, <3>1, <3>2 DEF LatestIsWanted, AgreesWhenAnswered
  <2>4. CASE requests'[t] = <<>> /\ r = "unsubscribe"
    <3>1. t \notin wanted' /\ t \notin kis'
      BY <1>1, <1>2, <1>3, <2>1, <2>4
    <3>2. QED
      BY <2>4, <3>1 DEF LatestIsWanted, AgreesWhenAnswered
  <2>5. QED
    BY <1>2, <2>2, <2>3, <2>4 DEF Requests
<1>6. ASSUME NEW u \in Topics, u # t PROVE LatestIsWanted(u)' /\ AgreesWhenAnswered(u)'
  BY <1>1, <1>3, <1>6 DEF TopicInv, LatestIsWanted, AgreesWhenAnswered, Latest
<1>7. NothingDelivered'
  BY <1>1 DEF NothingDelivered
<1>8. NoticeOnlySubscribed' /\ NoticeFlagHonest'
  <2>1. CASE t # Notice
    <3>1. Notice \in Topics \ {t}
      BY <2>1 DEF Topics
    <3>2. requests'[Notice] = requests[Notice] /\ (Notice \in kis' <=> Notice \in kis)
      BY <1>1, <1>3, <3>1
    <3>3. notice' = notice
      BY <2>1 DEF KisAnswers, noticeVars
    <3>4. QED
      BY <1>1, <3>2, <3>3 DEF TopicInv, NoticeOnlySubscribed, NoticeFlagHonest
  <2>2. CASE t = Notice
    <3>1. /\ r = "subscribe"
          /\ \A i \in 1 .. Len(requests'[Notice]) : requests'[Notice][i] = "subscribe"
      <4>1. \A i \in 1 .. Len(requests[t]) : requests[t][i] = "subscribe"
        BY <2>2 DEF TopicInv, NoticeOnlySubscribed
      <4>2. /\ Head(requests[t]) = "subscribe"
            /\ \A i \in 1 .. Len(Tail(requests[t])) : Tail(requests[t])[i] = "subscribe"
        BY <1>1, <4>1, TailLatest
      <4>3. QED
        BY <1>1, <2>2, <4>2
    <3>2. Latest(t) = "subscribe"
      <4>1. Len(requests[t]) \in 1 .. Len(requests[t])
        BY <1>1
      <4>2. QED
        BY <2>2, <4>1 DEF TopicInv, NoticeOnlySubscribed, Latest
    <3>3. Notice \in wanted'
      BY <1>1, <2>2, <3>2 DEF TopicInv, LatestIsWanted
    <3>4. notice' = "subscribed" => Notice \in kis'
      BY <1>3, <2>2, <3>1 DEF KisAnswers
    <3>5. QED
      BY <3>1, <3>3, <3>4 DEF NoticeOnlySubscribed, NoticeFlagHonest
  <2>3. QED
    BY <2>1, <2>2
<1>9. requests'[t] = <<>> => AnsweredAction(t) = Latest(t)
  BY <1>1, <1>2 DEF TopicInv, LatestIsWanted, AnsweredAction
<1>10. t \in wanted /\ requests'[t] = <<>> /\ t \notin kis' => refused'[t] = ans /\ ans # "ok"
  <2>1. t \in wanted /\ requests'[t] = <<>> => r = "subscribe"
    BY <1>1, <1>2 DEF TopicInv, LatestIsWanted
  <2>2. QED
    BY <1>3, <2>1
<1>11. QED
  BY <1>1, <1>4, <1>5, <1>6, <1>7, <1>8, <1>9, <1>10 DEF TopicInv

-----------------------------------------------------------------------------
(* The initial states satisfy the invariant. *)
LEMMA InitIInv == Init => IInv
<1> SUFFICES ASSUME Init PROVE IInv
  OBVIOUS
<1> USE KisWebSocketAssumption DEF Init, SocketInit
<1>1. TypeOK /\ OneConnectionAttempt
  <2>1. \A t \in Topics : requests[t] \in Seq(Requests)
    OBVIOUS
  <2>2. QED
    BY <2>1 DEF TypeOK, SocketTypeOK, OneConnectionAttempt, Topics, SocketStates, Answers
<1>2. TopicInv
  <2>1. \A t \in Topics : LatestIsWanted(t) /\ AgreesWhenAnswered(t)
    BY DEF LatestIsWanted, AgreesWhenAnswered
  <2>2. NoticeOnlySubscribed
    <3>1. requests[Notice] = <<>>
      BY DEF Topics
    <3>2. QED
      BY <3>1 DEF NoticeOnlySubscribed
  <2>3. QED
    BY <2>1, <2>2 DEF TopicInv, NothingDelivered, NoticeFlagHonest
<1>3. NoLeakedTopic /\ RefusedIsRetried
  BY DEF NoLeakedTopic, RefusedIsRetried
<1>4. QED
  BY <1>1, <1>2, <1>3 DEF IInv

(* Connecting, losing the connection and the wait for the notice subscription. *)
LEMMA SocketIInv == IInv /\ Socket => IInv'
<1> SUFFICES ASSUME IInv, Socket PROVE IInv'
  OBVIOUS
<1> USE DEF IInv, engineVars
<1>0. /\ UNCHANGED <<live, syncs, activeStocks, polling, retry, subs>>
      /\ SocketTypeOK
      /\ Notice \in Topics
  BY DEF Socket, TypeOK, Topics
<1>1. <<>> \in Seq(Requests) /\ <<"subscribe">> \in Seq(Requests)
  BY DEF Requests
<1>2. CASE LoseSocket /\ wanted' = wanted /\ action' = action /\ SocketTypeOK'
           /\ OneConnectionAttempt' /\ (notice' = "subscribed" => notice = "subscribed")
  <2>1. requests'[Notice] = <<>>
    BY <1>0, <1>2 DEF LoseSocket
  <2>2. TopicInv'
    BY <1>2, <2>1 DEF LoseSocket, TopicInv, LatestIsWanted, AgreesWhenAnswered, NothingDelivered,
                      NoticeOnlySubscribed, NoticeFlagHonest
  <2>3. NoLeakedTopic' /\ RefusedIsRetried'
    BY <1>0, <1>2 DEF LoseSocket, NoLeakedTopic, RefusedIsRetried, Watched
  <2>4. QED
    BY <1>0, <1>2, <2>2, <2>3 DEF TypeOK
<1>3. ASSUME LoseSocket PROVE /\ requests' \in [Topics -> Seq(Requests)]
                              /\ kis' \subseteq Topics
                              /\ refused' \in [Topics -> Answers]
                              /\ ws' \in SocketStates /\ silent' \in BOOLEAN
  <2>1. requests' \in [Topics -> Seq(Requests)]
    BY <1>1, <1>3 DEF LoseSocket
  <2>2. "ok" \in Answers
    BY DEF Answers
  <2>3. QED
    BY <1>3, <2>1, <2>2 DEF LoseSocket, SocketStates
<1>4. CASE ReconnectTimerFires
  <2>1. LoseSocket /\ ~inFlight
    BY <1>4 DEF ReconnectTimerFires, OneConnectionAttempt
  <2>2. SocketTypeOK' /\ OneConnectionAttempt'
    BY <1>0, <1>3, <1>4, <2>1
    DEF ReconnectTimerFires, SocketTypeOK, OneConnectionAttempt, LoseSocket, noticeVars
  <2>3. QED
    BY <1>2, <1>4, <2>1, <2>2 DEF ReconnectTimerFires, noticeVars
<1>5. CASE SocketCloses
  <2>1. SocketTypeOK' /\ OneConnectionAttempt'
    BY <1>0, <1>3, <1>5 DEF SocketCloses, SocketTypeOK, OneConnectionAttempt, LoseSocket
  <2>2. QED
    BY <1>2, <1>5, <2>1 DEF SocketCloses
<1>6. CASE PingpongTimesOut
  <2>1. SocketTypeOK' /\ OneConnectionAttempt'
    BY <1>0, <1>3, <1>6
    DEF PingpongTimesOut, SocketTypeOK, OneConnectionAttempt, LoseSocket, noticeVars
  <2>2. QED
    BY <1>2, <1>6, <2>1 DEF PingpongTimesOut, noticeVars
<1>7. CASE ApprovalIssued \/ ApprovalFails \/ SocketClosing \/ SocketGoesSilent \/ HealthCheck
  <2>1. /\ SocketTypeOK' /\ OneConnectionAttempt'
        /\ UNCHANGED <<topicVars, kisVars, noticeVars>>
        /\ ws' = "open" <=> ws = "open" /\ ~SocketClosing
        /\ ws' \in {"none", "connecting"} => ws \in {"none", "connecting"}
    BY <1>0, <1>7
    DEF ApprovalIssued, ApprovalFails, SocketClosing, SocketGoesSilent, HealthCheck,
        SocketTypeOK, OneConnectionAttempt, SocketStates, topicVars, kisVars, noticeVars
  <2>2. TopicInv'
    BY <2>1 DEF topicVars, kisVars, noticeVars, TopicInv, LatestIsWanted, AgreesWhenAnswered,
                NothingDelivered, NoticeOnlySubscribed, NoticeFlagHonest, Latest
  <2>3. NoLeakedTopic' /\ RefusedIsRetried'
    BY <1>0, <2>1 DEF topicVars, kisVars, NoLeakedTopic, RefusedIsRetried, Watched
  <2>4. QED
    BY <1>0, <2>1, <2>2, <2>3 DEF TypeOK
<1>8. CASE SocketOpens
  <2>1. /\ \A t \in wanted : requests'[t] = <<"subscribe">> /\ action'[t] = "subscribe"
        /\ \A t \in Topics \ wanted : requests'[t] = <<>>
        /\ kis' = {} /\ ws' = "open"
        /\ UNCHANGED <<wanted, kisVars, noticeVars>>
    BY <1>0, <1>8 DEF SocketOpens, SocketTypeOK, kisVars, TopicInv, NothingDelivered
  <2>2. /\ <<"subscribe">> # <<>>
        /\ Len(<<"subscribe">>) = 1
        /\ <<"subscribe">>[1] = "subscribe"
    OBVIOUS
  <2>3. SocketTypeOK' /\ OneConnectionAttempt'
    <3>1. requests' \in [Topics -> Seq(Requests)] /\ action' \in [Topics -> Requests \cup {"none"}]
      <4>1. requests' \in [Topics -> Seq(Requests)]
        BY <1>1, <1>8 DEF SocketOpens
      <4>2. \A t \in Topics : action[t] \in Requests \cup {"none"}
        BY <1>0 DEF SocketTypeOK
      <4>3. action' \in [Topics -> Requests \cup {"none"}]
        BY <1>8, <4>2 DEF SocketOpens, Requests
      <4>4. QED
        BY <4>1, <4>3
    <3>2. QED
      BY <1>0, <1>8, <3>1
      DEF SocketOpens, SocketTypeOK, OneConnectionAttempt, SocketStates, kisVars, noticeVars
  <2>4. \A t \in Topics : LatestIsWanted(t)' /\ AgreesWhenAnswered(t)'
    BY <2>1, <2>2 DEF LatestIsWanted, AgreesWhenAnswered, Latest
  <2>5. NothingDelivered' /\ NoticeOnlySubscribed' /\ NoticeFlagHonest'
    BY <1>0, <2>1, <2>2
    DEF TopicInv, NothingDelivered, NoticeOnlySubscribed, NoticeFlagHonest, noticeVars
  <2>6. NoLeakedTopic' /\ RefusedIsRetried'
    BY <1>0, <2>1, <2>2 DEF NoLeakedTopic, RefusedIsRetried, Watched
  <2>7. QED
    BY <1>0, <2>3, <2>4, <2>5, <2>6 DEF TypeOK, TopicInv
<1>9. CASE EnsureOrderNotificationsSubscribed
  <2>1. /\ SubscribeTopic(Notice, TRUE) /\ UNCHANGED <<connVars, kisVars>>
        /\ notice' = "pending" /\ waiting' = TRUE
        /\ wanted' = wanted \cup {Notice}
    BY <1>9 DEF EnsureOrderNotificationsSubscribed, SubscribeTopic
  <2>2. /\ requests' \in [Topics -> Seq(Requests)]
        /\ action' \in [Topics -> Requests \cup {"none"}]
        /\ TopicInv'
        /\ \A u \in Topics : ws = "open" /\ requests'[u] = <<>> => requests[u] = <<>>
    BY <1>0, <2>1, SubscribeKeeps
  <2>3. SocketTypeOK' /\ OneConnectionAttempt'
    BY <1>0, <2>1, <2>2 DEF SocketTypeOK, OneConnectionAttempt, connVars, kisVars
  <2>4. Notice \notin Stocks
    BY KisWebSocketAssumption
  <2>5. NoLeakedTopic' /\ RefusedIsRetried'
    BY <1>0, <2>1, <2>2, <2>4
    DEF NoLeakedTopic, RefusedIsRetried, Watched, TypeOK, connVars, kisVars, Topics
  <2>6. QED
    BY <1>0, <2>2, <2>3, <2>5 DEF TypeOK
<1>10. CASE WaitTimesOut
  <2>1. /\ UNCHANGED <<connVars, topicVars, kisVars>> /\ notice' = "failed" /\ waiting' = FALSE
    BY <1>10 DEF WaitTimesOut
  <2>2. SocketTypeOK' /\ OneConnectionAttempt' /\ TopicInv'
    BY <1>0, <2>1
    DEF connVars, topicVars, kisVars, SocketTypeOK, OneConnectionAttempt, TopicInv, LatestIsWanted,
        AgreesWhenAnswered, NothingDelivered, NoticeOnlySubscribed, NoticeFlagHonest, Latest
  <2>3. NoLeakedTopic' /\ RefusedIsRetried'
    BY <1>0, <2>1 DEF connVars, topicVars, kisVars, NoLeakedTopic, RefusedIsRetried, Watched
  <2>4. QED
    BY <1>0, <2>2, <2>3 DEF TypeOK
<1>11. QED
  BY <1>4, <1>5, <1>6, <1>7, <1>8, <1>9, <1>10 DEF Socket, Connecting, NoticeSubscription

(* An answer, with what the engine makes of it. *)
LEMMA AnswerIInv == IInv /\ (\E t \in Topics, ans \in Answers : Answer(t, ans)) => IInv'
<1> SUFFICES ASSUME IInv, NEW t \in Topics, NEW ans \in Answers, Answer(t, ans) PROVE IInv'
  OBVIOUS
<1>1. /\ KisAnswers(t, ans) /\ HandleExecutionSubscriptionResult(t, ans)
      /\ UNCHANGED <<live, syncs, activeStocks, subs, connVars, wanted>>
      /\ \A u \in Topics \ {t} : requests'[u] = requests[u]
      /\ \A u \in Topics \ {t} : (u \in kis' <=> u \in kis) /\ refused'[u] = refused[u]
  BY DEF Answer, KisAnswers, KisDoes, IInv, TypeOK, SocketTypeOK
<1>2. /\ SocketTypeOK' /\ TopicInv'
      /\ requests'[t] = <<>> => AnsweredAction(t) = Latest(t)
      /\ t \in wanted /\ requests'[t] = <<>> /\ t \notin kis' => refused'[t] = ans /\ ans # "ok"
      /\ ws = "open" /\ requests[t] # <<>>
  BY <1>1, AnswerKeeps DEF IInv, TypeOK
<1>3. /\ polling' \subseteq Stocks /\ retry' \subseteq Stocks
      /\ \A u \in Stocks \ {t} : u \in retry' <=> u \in retry
  BY <1>1 DEF HandleExecutionSubscriptionResult, ScheduleSubscriptionRetry, Topics, IInv, TypeOK
<1>4. TypeOK' /\ OneConnectionAttempt' /\ NoLeakedTopic'
  BY <1>1, <1>2, <1>3 DEF IInv, TypeOK, OneConnectionAttempt, NoLeakedTopic, Watched, connVars
<1>5. RefusedIsRetried'
  <2> SUFFICES ASSUME NEW s \in activeStocks \cap wanted,
                      requests'[s] = <<>>, s \notin kis', ~Watched(s)
               PROVE  s \in retry' \/ refused'[s] = "limit"
    BY <1>1 DEF RefusedIsRetried, Watched
  <2>1. s \in Stocks /\ s \in Topics
    BY DEF IInv, TypeOK, Topics
  <2>2. CASE s # t
    BY <1>1, <1>2, <1>3, <2>1, <2>2 DEF IInv, RefusedIsRetried
  <2>3. CASE s = t
    <3>1. AnsweredAction(t) = "subscribe"
      BY <1>2, <2>1, <2>3 DEF IInv, TopicInv, LatestIsWanted
    <3>2. ans \in {"limit", "other"} /\ refused'[s] = ans
      BY <1>2, <2>3 DEF Answers, Refusals
    <3>3. t # Notice /\ t \in activeStocks
      BY <2>1, <2>3, KisWebSocketAssumption
    <3>4. QED
      BY <1>1, <2>3, <3>1, <3>2, <3>3 DEF HandleExecutionSubscriptionResult, ScheduleSubscriptionRetry
  <2>4. QED
    BY <2>2, <2>3
<1>6. QED
  BY <1>2, <1>4, <1>5 DEF IInv

(* A step that keeps the connection and what KIS delivers keeps the invariant  *)
(* when it keeps the topics', and each stock that it leaves wanted is needed   *)
(* and, unless a client watches it, refused only with a retry or at the limit. *)
LEMMA CallerKeeps ==
    ASSUME IInv, TypeOK', TopicInv', UNCHANGED <<connVars, kisVars>>,
           \A s \in wanted' \cap Stocks :
             \/ Watched(s)'
             \/ /\ s \in activeStocks'
                /\ \/ ws = "open" => requests'[s] # <<>>
                   \/ /\ s \in activeStocks \cap wanted /\ ~Watched(s)
                      /\ ws = "open" /\ requests'[s] = <<>> => requests[s] = <<>>
                      /\ s \in retry => s \in retry'
    PROVE  IInv'
<1>1. OneConnectionAttempt'
  BY DEF IInv, OneConnectionAttempt, connVars
<1>2. NoLeakedTopic'
  BY DEF NoLeakedTopic
<1>3. RefusedIsRetried'
  <2> SUFFICES ASSUME NEW s \in activeStocks' \cap wanted', ws' = "open",
                      requests'[s] = <<>>, s \notin kis', ~Watched(s)'
               PROVE  s \in retry' \/ refused'[s] = "limit"
    BY DEF RefusedIsRetried
  <2>1. s \in Stocks
    BY DEF TypeOK
  <2>2. /\ ws = "open" /\ s \notin kis /\ refused'[s] = refused[s]
        /\ s \in activeStocks \cap wanted /\ ~Watched(s)
        /\ requests[s] = <<>>
        /\ s \in retry => s \in retry'
    BY <2>1 DEF connVars, kisVars
  <2>3. QED
    BY <2>2 DEF IInv, RefusedIsRetried
<1>4. QED
  BY <1>1, <1>2, <1>3 DEF IInv

(* Every stock that is wanted is needed: NoLeakedTopic in the form CallerKeeps asks for. *)
LEMMA WantedIsNeeded ==
    ASSUME IInv, NEW s \in wanted, s \in Stocks, ~Watched(s)
    PROVE  s \in activeStocks
BY DEF IInv, NoLeakedTopic

(* The steps of the engine. *)
LEMMA EngineIInv == IInv /\ (\E s \in Stocks : Engine(s)) => IInv'
<1> SUFFICES ASSUME IInv, NEW s \in Stocks, Engine(s) PROVE IInv'
  OBVIOUS
<1>0. SocketTypeOK /\ TopicInv /\ TypeOK /\ s \in Topics
  BY DEF IInv, TypeOK, Topics
<1>1. CASE SessionChanges(s)
  <2>1. UNCHANGED <<connVars, topicVars, kisVars, noticeVars, activeStocks, polling, retry, subs>>
    BY <1>1 DEF SessionChanges, socketVars
  <2>2. live' \subseteq Stocks /\ syncs' \in [Stocks -> SUBSET SyncAnswers]
    BY <1>0, <1>1 DEF SessionChanges, TypeOK, SyncAnswers
  <2>3. TypeOK' /\ TopicInv'
    BY <1>0, <2>1, <2>2
    DEF connVars, topicVars, kisVars, noticeVars, TypeOK, SocketTypeOK, TopicInv, LatestIsWanted,
        AgreesWhenAnswered, NothingDelivered, NoticeOnlySubscribed, NoticeFlagHonest, Latest
  <2>4. \A u \in wanted' \cap Stocks :
          Watched(u)' \/ (u \in activeStocks \cap wanted /\ ~Watched(u))
    BY <2>1, WantedIsNeeded DEF topicVars, Watched
  <2>5. QED
    BY <2>1, <2>3, <2>4, CallerKeeps DEF topicVars
<1>2. CASE SyncActivates(s)
  <2>1. /\ SubscribeTopic(s, FALSE)
        /\ UNCHANGED <<connVars, kisVars, noticeVars, retry, subs>>
        /\ notice' = notice /\ wanted' = wanted \cup {s}
        /\ activeStocks' = activeStocks \cup {s}
    BY <1>2 DEF SyncActivates, SubscribeTopic, noticeVars
  <2>2. /\ requests' \in [Topics -> Seq(Requests)]
        /\ action' \in [Topics -> Requests \cup {"none"}]
        /\ TopicInv'
        /\ \A u \in Topics : ws = "open" /\ requests'[u] = <<>> =>
             requests[u] = <<>> /\ (u = s => s \in wanted)
    BY <1>0, <2>1, SubscribeKeeps
  <2>3. TypeOK'
    BY <1>0, <1>2, <2>1, <2>2
    DEF SyncActivates, TypeOK, SocketTypeOK, connVars, kisVars, noticeVars, SyncAnswers
  <2>4. \A u \in wanted' \cap Stocks :
          \/ Watched(u)'
          \/ /\ u \in activeStocks'
             /\ \/ ws = "open" => requests'[u] # <<>>
                \/ /\ u \in activeStocks \cap wanted /\ ~Watched(u)
                   /\ ws = "open" /\ requests'[u] = <<>> => requests[u] = <<>>
                   /\ u \in retry => u \in retry'
    BY <2>1, <2>2, WantedIsNeeded DEF Watched, Topics
  <2>5. QED
    BY <2>1, <2>2, <2>3, <2>4, CallerKeeps
<1>3. CASE SyncDeactivates(s)
  <2>1. /\ UnsubscribeTopics({s}) /\ {s} \in SUBSET Stocks
        /\ UNCHANGED <<connVars, kisVars, noticeVars, subs>>
        /\ wanted' = wanted \ {s}
        /\ activeStocks' = activeStocks \ {s} /\ retry' = retry \ {s}
    BY <1>3 DEF SyncDeactivates, UnsubscribeTopics
  <2>2. /\ requests' \in [Topics -> Seq(Requests)]
        /\ action' \in [Topics -> Requests \cup {"none"}]
        /\ TopicInv'
        /\ \A u \in Topics : requests'[u] = <<>> => requests[u] = <<>>
    BY <1>0, <2>1, UnsubscribeKeeps
  <2>3. TypeOK'
    BY <1>0, <1>3, <2>1, <2>2
    DEF SyncDeactivates, TypeOK, SocketTypeOK, connVars, kisVars, noticeVars, SyncAnswers
  <2>4. \A u \in wanted' \cap Stocks :
          \/ Watched(u)'
          \/ /\ u \in activeStocks' \cap activeStocks \cap wanted /\ ~Watched(u)
             /\ u \in retry => u \in retry'
    BY <2>1, WantedIsNeeded DEF Watched
  <2>5. QED
    BY <2>1, <2>2, <2>3, <2>4, CallerKeeps DEF Topics
<1>4. CASE RetryTimerFires(s)
  <2>1. /\ retry' = retry \ {s}
        /\ UNCHANGED <<connVars, kisVars, noticeVars, live, syncs, activeStocks, polling, subs>>
        /\ notice' = notice
    BY <1>4 DEF RetryTimerFires, noticeVars
  <2>2. CASE s \in activeStocks
    <3>1. /\ SubscribeTopic(s, TRUE) /\ wanted' = wanted \cup {s}
          /\ Send({s}, "subscribe") /\ {s} \in SUBSET Topics /\ "subscribe" \in Requests
      BY <1>0, <1>4, <2>2 DEF RetryTimerFires, SubscribeTopic, Requests
    <3>2. /\ requests' \in [Topics -> Seq(Requests)]
          /\ action' \in [Topics -> Requests \cup {"none"}]
          /\ TopicInv'
          /\ \A u \in Topics : ws = "open" /\ requests'[u] = <<>> => requests[u] = <<>>
      BY <1>0, <2>1, <3>1, SubscribeKeeps
    <3>3. ws = "open" => requests'[s] # <<>>
      <4>1. IF s \in {s} /\ ws = "open"
              THEN requests'[s] # <<>> /\ Latest(s)' = "subscribe" /\ action'[s] = "subscribe"
              ELSE requests'[s] = requests[s] /\ action'[s] = action[s]
        BY <1>0, <3>1, SendEffect
      <4>2. QED
        BY <4>1
    <3>4. TypeOK'
      BY <1>0, <2>1, <3>1, <3>2 DEF TypeOK, SocketTypeOK, connVars, kisVars, noticeVars
    <3>5. \A u \in wanted' \cap Stocks :
            \/ Watched(u)'
            \/ /\ u \in activeStocks'
               /\ \/ ws = "open" => requests'[u] # <<>>
                  \/ /\ u \in activeStocks \cap wanted /\ ~Watched(u)
                     /\ ws = "open" /\ requests'[u] = <<>> => requests[u] = <<>>
                     /\ u \in retry => u \in retry'
      BY <2>1, <2>2, <3>1, <3>2, <3>3, WantedIsNeeded DEF Watched, Topics
    <3>6. QED
      BY <2>1, <3>2, <3>4, <3>5, CallerKeeps
  <2>3. CASE s \notin activeStocks
    <3>1. UNCHANGED topicVars
      BY <1>4, <2>3 DEF RetryTimerFires
    <3>2. TypeOK' /\ TopicInv'
      BY <1>0, <2>1, <3>1
      DEF connVars, topicVars, kisVars, noticeVars, TypeOK, SocketTypeOK, TopicInv, LatestIsWanted,
          AgreesWhenAnswered, NothingDelivered, NoticeOnlySubscribed, NoticeFlagHonest, Latest
    <3>3. \A u \in wanted' \cap Stocks :
            \/ Watched(u)'
            \/ /\ u \in activeStocks' \cap activeStocks \cap wanted /\ ~Watched(u)
               /\ u \in retry => u \in retry'
      BY <2>1, <2>3, <3>1, WantedIsNeeded DEF topicVars, Watched
    <3>4. QED
      BY <2>1, <3>1, <3>2, <3>3, CallerKeeps DEF topicVars
  <2>4. QED
    BY <2>2, <2>3
<1>5. QED
  BY <1>1, <1>2, <1>3, <1>4 DEF Engine

-----------------------------------------------------------------------------
(* A client that leaves topics of its own. *)
LEMMA LeaveIInv ==
    ASSUME IInv, NEW c \in Clients, NEW T \in SUBSET subs[c], Leave(c, T)
    PROVE  IInv'
<1>0. SocketTypeOK /\ TopicInv /\ TypeOK /\ subs[c] \in SUBSET Stocks
  BY DEF IInv, TypeOK
<1> DEFINE L == LastWatched(c, T)
<1>1. /\ UnsubscribeTopics(L) /\ L \in SUBSET Stocks /\ wanted' = wanted \ L
      /\ UNCHANGED <<connVars, kisVars, noticeVars, engineVars>>
      /\ subs' = [subs EXCEPT ![c] = @ \ T]
  BY <1>0 DEF Leave, LastWatched, UnsubscribeTopics
<1>2. \A u \in Stocks \ L : Watched(u) => Watched(u)'
  <2> SUFFICES ASSUME NEW u \in Stocks \ L, Watched(u) PROVE Watched(u)'
    OBVIOUS
  <2>1. CASE u \in T
    <3>1. PICK d \in Clients \ {c} : u \in subs[d]
      BY <2>1 DEF LastWatched
    <3>2. QED
      BY <1>0, <1>1, <3>1 DEF Watched, TypeOK
  <2>2. CASE u \notin T
    BY <1>0, <1>1, <2>2 DEF Watched, TypeOK
  <2>3. QED
    BY <2>1, <2>2
<1> HIDE DEF L
<1>3. /\ requests' \in [Topics -> Seq(Requests)]
      /\ action' \in [Topics -> Requests \cup {"none"}]
      /\ TopicInv'
      /\ \A u \in Topics : requests'[u] = <<>> => requests[u] = <<>>
  BY <1>0, <1>1, UnsubscribeKeeps
<1>4. TypeOK'
  <2>1. subs' \in [Clients -> SUBSET Stocks]
    BY <1>0, <1>1 DEF TypeOK
  <2>2. QED
    BY <1>0, <1>1, <1>3, <2>1
    DEF TypeOK, SocketTypeOK, connVars, kisVars, noticeVars, engineVars
<1>5. \A u \in wanted' \cap Stocks :
        \/ Watched(u)'
        \/ u \in activeStocks' \cap activeStocks \cap wanted /\ ~Watched(u) /\ retry' = retry
  BY <1>1, <1>2, WantedIsNeeded DEF engineVars
<1>6. QED
  BY <1>1, <1>3, <1>4, <1>5, CallerKeeps DEF Topics

(* The steps of the browser gateway. *)
LEMMA GatewayIInv == IInv /\ (\E c \in Clients : Gateway(c)) => IInv'
<1> SUFFICES ASSUME IInv, NEW c \in Clients, Gateway(c) PROVE IInv'
  OBVIOUS
<1>0. SocketTypeOK /\ TopicInv /\ TypeOK
  BY DEF IInv, TypeOK
<1>1. ASSUME NEW s \in Stocks, HandleSubscribe(c, s) PROVE IInv'
  <2>0. s \in Topics
    BY DEF Topics
  <2>1. /\ UNCHANGED <<connVars, kisVars, noticeVars, engineVars>>
        /\ notice' = notice
        /\ subs' = [subs EXCEPT ![c] = @ \cup {s}]
    BY <1>1 DEF HandleSubscribe, noticeVars
  <2>2. Watched(s)' /\ \A u \in Stocks \ {s} : Watched(u)' <=> Watched(u)
    BY <1>0, <2>1 DEF Watched, TypeOK
  <2>3. subs' \in [Clients -> SUBSET Stocks]
    BY <1>0, <2>1 DEF TypeOK
  <2>4. CASE UNCHANGED topicVars
    <3>1. TypeOK' /\ TopicInv'
      BY <1>0, <2>1, <2>3, <2>4
      DEF connVars, topicVars, kisVars, noticeVars, engineVars, TypeOK, SocketTypeOK, TopicInv,
          LatestIsWanted, AgreesWhenAnswered, NothingDelivered, NoticeOnlySubscribed,
          NoticeFlagHonest, Latest
    <3>2. \A u \in wanted' \cap Stocks :
            \/ Watched(u)'
            \/ u \in activeStocks' \cap activeStocks \cap wanted /\ ~Watched(u) /\ retry' = retry
      BY <2>1, <2>2, <2>4, WantedIsNeeded DEF engineVars, topicVars
    <3>3. QED
      BY <2>1, <2>4, <3>1, <3>2, CallerKeeps DEF topicVars
  <2>5. CASE SubscribeTopic(s, FALSE)
    <3>1. /\ requests' \in [Topics -> Seq(Requests)]
          /\ action' \in [Topics -> Requests \cup {"none"}]
          /\ TopicInv'
          /\ \A u \in Topics : ws = "open" /\ requests'[u] = <<>> => requests[u] = <<>>
      BY <1>0, <2>0, <2>1, <2>5, SubscribeKeeps
    <3>2. wanted' = wanted \cup {s}
      BY <2>5 DEF SubscribeTopic
    <3>3. TypeOK'
      BY <1>0, <2>0, <2>1, <2>3, <3>1, <3>2
      DEF TypeOK, SocketTypeOK, connVars, kisVars, noticeVars, engineVars
    <3>4. \A u \in wanted' \cap Stocks :
            \/ Watched(u)'
            \/ u \in activeStocks' \cap activeStocks \cap wanted /\ ~Watched(u) /\ retry' = retry
      BY <2>1, <2>2, <3>2, WantedIsNeeded DEF engineVars
    <3>5. QED
      BY <2>1, <3>1, <3>3, <3>4, CallerKeeps DEF Topics
  <2>6. QED
    BY <1>1, <2>4, <2>5 DEF HandleSubscribe
<1>2. ASSUME NEW s \in Stocks, HandleUnsubscribe(c, s) PROVE IInv'
  BY <1>2, LeaveIInv DEF HandleUnsubscribe
<1>3. CASE HandleDisconnect(c)
  BY <1>3, LeaveIInv DEF HandleDisconnect
<1>4. QED
  BY <1>1, <1>2, <1>3 DEF Gateway

-----------------------------------------------------------------------------
(* Every step keeps the invariant. *)
LEMMA NextIInv == IInv /\ [Next]_vars => IInv'
<1> SUFFICES ASSUME IInv, [Next]_vars PROVE IInv'
  OBVIOUS
<1>1. CASE Next
  BY <1>1, SocketIInv, AnswerIInv, EngineIInv, GatewayIInv DEF Next
<1>2. CASE UNCHANGED vars
  BY <1>2
  DEF vars, socketVars, connVars, topicVars, kisVars, noticeVars, engineVars, IInv, TypeOK,
      SocketTypeOK, OneConnectionAttempt, TopicInv, LatestIsWanted, AgreesWhenAnswered,
      NothingDelivered, NoticeOnlySubscribed, NoticeFlagHonest, NoLeakedTopic, RefusedIsRetried,
      Watched, Latest
<1>3. QED
  BY <1>1, <1>2

LEMMA Invariance == Spec => []IInv
<1>1. Init => IInv
  BY InitIInv
<1>2. IInv /\ [Next]_vars => IInv'
  BY NextIInv
<1>3. QED
  BY <1>1, <1>2, PTL DEF Spec

(* The socket's and the engine's states keep their types, and a promise of a   *)
(* notice subscription exists exactly while its state is pending.              *)
THEOREM TypeCorrect == Spec => []TypeOK
<1>1. IInv => TypeOK
  BY DEF IInv
<1>2. QED
  BY <1>1, Invariance, PTL

(* Reconnection never ceases and never doubles: without an open or closing     *)
(* socket there is a timer or an attempt, never both (scheduleReconnect,       *)
(* connectInFlight, the monitors).                                             *)
THEOREM ReconnectsOnce == Spec => []OneConnectionAttempt
<1>1. IInv => OneConnectionAttempt
  BY DEF IInv
<1>2. QED
  BY <1>1, Invariance, PTL

(* On an open socket KIS delivers an answered topic if and only if the service *)
(* wants it, refusals aside, whatever requests crossed and whatever            *)
(* connections were lost before (subscribe, unsubscribe, resubscribeAll).      *)
THEOREM TopicsAgreeWithKis == Spec => []TopicsAgree
<1>1. IInv => TopicsAgree
  BY DEF IInv, TopicInv, AgreesWhenAnswered, TopicsAgree
<1>2. QED
  BY <1>1, Invariance, PTL

(* The flag on whose word an order is placed without polling is true on every  *)
(* open socket (orderNotificationSubscriptionState).                           *)
THEOREM NoticeFlagIsHonest == Spec => []NoticeFlagHonest
<1>1. IInv => NoticeFlagHonest
  BY DEF IInv, TopicInv
<1>2. QED
  BY <1>1, Invariance, PTL

(* No topic stays wanted that neither the engine nor a browser client needs    *)
(* (unsubscribeStock, decrementRef).                                           *)
THEOREM NoTopicLeaks == Spec => []NoLeakedTopic
<1>1. IInv => NoLeakedTopic
  BY DEF IInv
<1>2. QED
  BY <1>1, Invariance, PTL

(* A refused stock of the engine has a retry to come, unless KIS is at its     *)
(* limit (handleExecutionSubscriptionResult, scheduleSubscriptionRetry).       *)
THEOREM RefusalsAreRetried == Spec => []RefusedIsRetried
<1>1. IInv => RefusedIsRetried
  BY DEF IInv
<1>2. QED
  BY <1>1, Invariance, PTL
=============================================================================
