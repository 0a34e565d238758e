---------------------------- MODULE KisWebSocket ----------------------------
(***************************************************************************)
(* KisWebSocketService: the one websocket to KIS, its reconnection, and    *)
(* the topics subscribed on it.  `wanted' survives a lost socket and is    *)
(* sent again when the next one opens (resubscribeAll); KIS answers the    *)
(* requests of a topic in their order.  The topic of execution notices has *)
(* a state of its own (ensureOrderNotificationsSubscribed).                *)
(*                                                                         *)
(* Module RealtimeFeed adds the engine and the browser gateway, which call *)
(* SubscribeTopic and UnsubscribeTopics, and states the specification.     *)
(***************************************************************************)
EXTENDS Naturals, Sequences, FiniteSets

CONSTANTS
    Stocks,       \* topics of execution prices, one for each stock
    Notice,       \* the topic of the account's execution notices
    MaxRequests,  \* requests of a topic that may wait for their answer (bound)
    Faults        \* subset of FaultKinds

(* "approval": no approval key is issued; "close": a handshake fails or the     *)
(* socket closes; "silence": an open socket delivers nothing any more;          *)
(* "refuse": KIS refuses a subscription.                                        *)
FaultKinds == {"approval", "close", "silence", "refuse"}

ASSUME KisWebSocketAssumption ==
    /\ Notice \notin Stocks
    /\ MaxRequests \in Nat \ {0}
    /\ Faults \subseteq FaultKinds

Topics == Stocks \cup {Notice}

VARIABLES
    ws,        \* readyState of this.ws, "none" when it is null
    inFlight,  \* connectInFlight
    timer,     \* reconnectTimer is set
    silent,    \* nothing arrives on the open socket any more
    wanted,    \* subscriptions
    action,    \* pendingSubscriptionActions, "none" where it has no entry
    requests,  \* requests of a topic sent on this socket and not answered
    kis,       \* topics that KIS delivers on this connection
    refused,   \* KIS's answer to the last subscription on it (history variable)
    notice,    \* orderNotificationSubscriptionState
    waiting    \* orderNotificationSubscriptionPromise is not settled

connVars == <<ws, inFlight, timer, silent>>
topicVars == <<wanted, action, requests>>
kisVars == <<kis, refused>>
noticeVars == <<notice, waiting>>
socketVars == <<connVars, topicVars, kisVars, noticeVars>>

SocketStates == {"none", "connecting", "open", "closing"}
Requests == {"subscribe", "unsubscribe"}
Refusals == {"limit", "other"}
Answers == {"ok"} \cup Refusals

Room(t) == Len(requests[t]) < MaxRequests

(* onModuleInit: the first connect has asked for its key. *)
SocketInit ==
    /\ ws = "none" /\ inFlight = TRUE /\ timer = FALSE /\ silent = FALSE
    /\ action = [t \in Topics |-> "none"]
    /\ requests = [t \in Topics |-> <<>>]
    /\ kis = {}
    /\ refused = [t \in Topics |-> "ok"]
    /\ notice = "idle" /\ waiting = FALSE

-----------------------------------------------------------------------------
(* Connecting and reconnecting. *)

(* closeExistingSocket, or a close: what was on the socket is gone. *)
LoseSocket ==
    /\ ws' = "none"
    /\ silent' = FALSE
    /\ requests' = [t \in Topics |-> <<>>]
    /\ kis' = {}
    /\ refused' = [t \in Topics |-> "ok"]

(* The timer of scheduleReconnect: connect() returns when one is in flight, *)
(* otherwise it drops the old socket and asks for a key.                    *)
ReconnectTimerFires ==
    /\ timer
    /\ timer' = FALSE
    /\ IF inFlight
         THEN UNCHANGED <<ws, silent, requests, kisVars>>
         ELSE LoseSocket
    /\ inFlight' = TRUE
    /\ UNCHANGED <<wanted, action, noticeVars>>

ApprovalIssued ==
    /\ inFlight /\ ws = "none"
    /\ ws' = "connecting"
    /\ UNCHANGED <<inFlight, timer, silent, topicVars, kisVars, noticeVars>>

ApprovalFails ==
    /\ "approval" \in Faults
    /\ inFlight /\ ws = "none"
    /\ inFlight' = FALSE /\ timer' = TRUE
    /\ UNCHANGED <<ws, silent, topicVars, kisVars, noticeVars>>

(* Mutant: nothing is sent again. *)
OpenWithoutResubscribing ==
    /\ ws = "connecting"
    /\ ws' = "open" /\ inFlight' = FALSE /\ timer' = FALSE
    /\ UNCHANGED <<silent, topicVars, kisVars, noticeVars>>

(* resubscribeAll sends every wanted topic, without a look at their states. *)
SocketOpens ==
    /\ ws = "connecting"
    /\ ws' = "open" /\ inFlight' = FALSE /\ timer' = FALSE
    /\ requests' = [t \in Topics |-> IF t \in wanted THEN <<"subscribe">> ELSE <<>>]
    /\ action' = [t \in Topics |-> IF t \in wanted THEN "subscribe" ELSE action[t]]
    /\ UNCHANGED <<silent, wanted, kisVars, noticeVars>>

(* KIS closes: the socket is not open any more, its close event is to come. *)
SocketClosing ==
    /\ "close" \in Faults
    /\ ws = "open"
    /\ ws' = "closing"
    /\ UNCHANGED <<inFlight, timer, silent, topicVars, kisVars, noticeVars>>

(* The close event, or a failed handshake: the notice subscription is withdrawn. *)
SocketCloses ==
    /\ ws = "closing" \/ (ws = "connecting" /\ "close" \in Faults)
    /\ LoseSocket
    /\ inFlight' = FALSE /\ timer' = TRUE
    /\ waiting' = FALSE
    /\ notice' = CASE notice = "pending" -> "failed"
                   [] notice = "subscribed" -> "idle"
                   [] OTHER -> notice
    /\ UNCHANGED <<wanted, action>>

SocketGoesSilent ==
    /\ "silence" \in Faults
    /\ ws = "open" /\ ~silent
    /\ silent' = TRUE
    /\ UNCHANGED <<ws, inFlight, timer, topicVars, kisVars, noticeVars>>

(* Mutant: the monitor leaves the reconnection to the close event. *)
PingpongClosesOnly ==
    /\ ws \in {"open", "closing"} /\ silent
    /\ LoseSocket
    /\ UNCHANGED <<inFlight, timer, wanted, action, noticeVars>>

(* The PINGPONG monitor, or the health check in its place: the listeners are  *)
(* removed first, so the close handler does not run and `notice' stays.  The  *)
(* monitor runs until the close event.                                        *)
PingpongTimesOut ==
    /\ ws \in {"open", "closing"} /\ silent
    /\ LoseSocket
    /\ timer' = TRUE
    /\ UNCHANGED <<inFlight, wanted, action, noticeVars>>

(* Mutant: the key that is being issued is not taken for a connection attempt. *)
HealthCheckBySocketAlone ==
    /\ ~timer
    /\ ws \notin {"open", "connecting"}
    /\ timer' = TRUE
    /\ UNCHANGED <<ws, inFlight, silent, topicVars, kisVars, noticeVars>>

(* The health check finds no open socket and no attempt to get one. *)
HealthCheck ==
    /\ ~timer /\ ~inFlight
    /\ ws \notin {"open", "connecting"}
    /\ timer' = TRUE
    /\ UNCHANGED <<ws, inFlight, silent, topicVars, kisVars, noticeVars>>

-----------------------------------------------------------------------------
(* Topics.  These operators set topicVars; connVars, kisVars stay. *)

Send(T, r) ==
    IF ws = "open"
      THEN /\ requests' = [t \in Topics |-> IF t \in T THEN Append(requests[t], r)
                                            ELSE requests[t]]
           /\ action' = [t \in Topics |-> IF t \in T THEN r ELSE action[t]]
      ELSE UNCHANGED <<requests, action>>

(* A topic that is wanted already is sent again only when it is forced. *)
SubscribeTopic(t, force) ==
    /\ wanted' = wanted \cup {t}
    /\ IF t \in wanted /\ ~force THEN UNCHANGED <<requests, action>> ELSE Send({t}, "subscribe")

(* Mutant: a topic is dropped only while it can be told to KIS. *)
UnsubscribeWhenOpen(T) ==
    /\ wanted' = IF ws = "open" THEN wanted \ T ELSE wanted
    /\ Send(T \cap wanted, "unsubscribe")

UnsubscribeTopics(T) ==
    /\ wanted' = wanted \ T
    /\ Send(T \cap wanted, "unsubscribe")

(* The action an answer is taken for: the last one sent for the topic, or what *)
(* the answer's text says when that one was answered already.                  *)
AnsweredAction(t) == IF action[t] = "none" THEN Head(requests[t]) ELSE action[t]

(* KIS works a request off (external).  What it does not deliver it cannot stop. *)
(* Only of stocks does anybody read why a subscription was refused.              *)
KisDoes(t, r, ans) ==
    IF r = "unsubscribe"
      THEN /\ ans = IF t \in kis THEN "ok" ELSE "other"
           /\ kis' = kis \ {t}
           /\ refused' = [refused EXCEPT ![t] = "ok"]
      ELSE /\ ans \in Refusals => "refuse" \in Faults
           /\ ans = "limit" => t \in Stocks
           /\ kis' = IF ans = "ok" THEN kis \cup {t} ELSE kis
           /\ refused' = [refused EXCEPT ![t] = ans]

(* handleMessage: any answer about the notice topic settles its subscription. *)
KisAnswers(t, ans) ==
    /\ ws = "open" /\ ~silent
    /\ requests[t] # <<>>
    /\ KisDoes(t, Head(requests[t]), ans)
    /\ requests' = [requests EXCEPT ![t] = Tail(@)]
    /\ action' = [action EXCEPT ![t] = "none"]
    /\ IF t = Notice
         THEN waiting' = FALSE /\ notice' = IF ans = "ok" THEN "subscribed" ELSE "failed"
         ELSE UNCHANGED noticeVars
    /\ UNCHANGED <<connVars, wanted>>

-----------------------------------------------------------------------------
(* The notice subscription. *)

(* A caller with the flag set, or with a promise to share, changes nothing. *)
EnsureOrderNotificationsSubscribed ==
    /\ notice # "subscribed" /\ ~waiting
    /\ Room(Notice)
    /\ notice' = "pending" /\ waiting' = TRUE
    /\ SubscribeTopic(Notice, TRUE)
    /\ UNCHANGED <<connVars, kisVars>>

(* No answer within five seconds. *)
WaitTimesOut ==
    /\ waiting
    /\ waiting' = FALSE /\ notice' = "failed"
    /\ UNCHANGED <<connVars, topicVars, kisVars>>

Connecting ==
    \/ ReconnectTimerFires \/ ApprovalIssued \/ ApprovalFails \/ SocketOpens
    \/ SocketClosing \/ SocketCloses \/ SocketGoesSilent \/ PingpongTimesOut \/ HealthCheck

NoticeSubscription == EnsureOrderNotificationsSubscribed \/ WaitTimesOut

-----------------------------------------------------------------------------
(* Properties of the socket. *)

(* The connection, the topics and the notice state keep their types; the promise *)
(* of a notice subscription exists exactly while its state is pending.           *)
SocketTypeOK ==
    /\ ws \in SocketStates
    /\ inFlight \in BOOLEAN /\ timer \in BOOLEAN /\ silent \in BOOLEAN
    /\ wanted \subseteq Topics
    /\ action \in [Topics -> Requests \cup {"none"}]
    /\ requests \in [Topics -> Seq(Requests)]
    /\ kis \subseteq Topics
    /\ refused \in [Topics -> Answers]
    /\ notice \in {"idle", "pending", "subscribed", "failed"}
    /\ waiting = (notice = "pending")

(* There is always exactly one way to the next open socket: an open or closing *)
(* one, a timer or an attempt; a timer and an attempt never meet, so connect() *)
(* never closes a socket that is still connecting.                             *)
OneConnectionAttempt ==
    /\ ws \in {"open", "closing"} \/ timer \/ inFlight
    /\ ~(timer /\ inFlight)
    /\ inFlight => ws \in {"none", "connecting"}
    /\ ws = "connecting" => inFlight

(* Once its requests are answered, KIS delivers a topic on the open socket if  *)
(* and only if it is wanted, refusals aside: across reconnections, repeated    *)
(* and crossing requests (subscriptions, resubscribeAll).                      *)
TopicsAgree ==
    ws = "open" =>
        \A t \in Topics : requests[t] = <<>> =>
            /\ t \in kis => t \in wanted
            /\ t \in wanted => t \in kis \/ refused[t] # "ok"

(* The notice flag that lets an order go without polling is true on an open    *)
(* socket: KIS delivers notices on it, or is being asked again, although the   *)
(* flag outlives sockets that the monitors close.                              *)
NoticeFlagHonest ==
    notice = "subscribed" /\ ws = "open" => Notice \in kis \/ requests[Notice] # <<>>
=============================================================================
