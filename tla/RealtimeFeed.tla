---------------------------- MODULE RealtimeFeed ----------------------------
(***************************************************************************)
(* Who wants a stock's price topic: the engine for stocks with an ACTIVE   *)
(* session (syncStockActivity, handleExecutionSubscriptionResult, the      *)
(* subscription retry) and KisWebSocketGateway for browser clients that    *)
(* watch it, counted per topic.  Both call subscribe and unsubscribe of    *)
(* the same KisWebSocketService.                                           *)
(*                                                                         *)
(* syncStockActivity runs after each change of a session's status; it asks *)
(* the database (one await) and then acts on the answer, so several syncs  *)
(* of a stock may be under way and end in any order.                       *)
(***************************************************************************)
EXTENDS KisWebSocket

CONSTANT Clients   \* browser connections

VARIABLES
    live,          \* stocks with an ACTIVE session in the database
    syncs,         \* running syncs of a stock: the answers on their way to them
    activeStocks,  \* activeStockCodes
    polling,       \* pollingStockCodes
    retry,         \* stocks with a timer in subscriptionRetryTimers
    subs           \* the stocks a client subscribed to

engineVars == <<live, syncs, activeStocks, polling, retry>>

vars == <<socketVars, engineVars, subs>>

SyncAnswers == {"active", "none"}

Watched(s) == \E c \in Clients : s \in subs[c]

(* The engine restores the stocks of active sessions when the process starts; *)
(* its first request for notices may follow at once, as later ones (it is not *)
(* awaited, and without an HTS id it does nothing).                           *)
Init ==
    /\ SocketInit
    /\ live \in SUBSET Stocks
    /\ wanted = live
    /\ syncs = [s \in Stocks |-> {}]
    /\ activeStocks = live
    /\ polling = live
    /\ retry = {}
    /\ subs = [c \in Clients |-> {}]

-----------------------------------------------------------------------------
(* The engine. *)

(* A session of the stock becomes ACTIVE, or the last one ceases to be: the row *)
(* is flushed and a sync asks for it.  Its answer may be of a later change too; *)
(* then it is the answer of that change's own sync.                             *)
SessionChanges(s) ==
    /\ live' = IF s \in live THEN live \ {s} ELSE live \cup {s}
    /\ syncs' = [syncs EXCEPT ![s] = @ \cup {IF s \in live THEN "none" ELSE "active"}]
    /\ UNCHANGED <<socketVars, activeStocks, polling, retry, subs>>

SyncActivates(s) ==
    /\ "active" \in syncs[s]
    /\ Room(s)
    /\ syncs' = [syncs EXCEPT ![s] = @ \ {"active"}]
    /\ activeStocks' = activeStocks \cup {s}
    /\ polling' = polling \cup {s}
    /\ SubscribeTopic(s, FALSE)
    /\ UNCHANGED <<connVars, kisVars, noticeVars, live, retry, subs>>

SyncDeactivates(s) ==
    /\ "none" \in syncs[s]
    /\ Room(s)
    /\ syncs' = [syncs EXCEPT ![s] = @ \ {"none"}]
    /\ activeStocks' = activeStocks \ {s}
    /\ polling' = polling \ {s}
    /\ retry' = retry \ {s}
    /\ UnsubscribeTopics({s})
    /\ UNCHANGED <<connVars, kisVars, noticeVars, live, subs>>

(* Mutant: a stock that is polled is not retried. *)
ScheduleRetryUnlessPolled(s) == IF s \in polling THEN retry ELSE retry \cup {s}

(* scheduleSubscriptionRetry. *)
ScheduleSubscriptionRetry(s) == retry \cup {s}

(* The subscription limit leaves a stock to polling; another refusal is retried. *)
HandleExecutionSubscriptionResult(t, ans) ==
    IF t = Notice \/ AnsweredAction(t) # "subscribe" THEN UNCHANGED <<polling, retry>>
    ELSE IF t \notin activeStocks
      THEN polling' = polling \ {t} /\ retry' = retry \ {t}
    ELSE /\ polling' = IF ans = "limit" THEN polling \cup {t} ELSE polling
         /\ retry' = IF ans = "other" THEN ScheduleSubscriptionRetry(t) ELSE retry \ {t}

Answer(t, ans) ==
    /\ KisAnswers(t, ans)
    /\ HandleExecutionSubscriptionResult(t, ans)
    /\ UNCHANGED <<live, syncs, activeStocks, subs>>

RetryTimerFires(s) ==
    /\ s \in retry
    /\ Room(s)
    /\ retry' = retry \ {s}
    /\ IF s \in activeStocks THEN SubscribeTopic(s, TRUE) ELSE UNCHANGED topicVars
    /\ UNCHANGED <<connVars, kisVars, noticeVars, live, syncs, activeStocks, polling, subs>>

-----------------------------------------------------------------------------
(* The browser gateway: the first client subscribes, the last one unsubscribes. *)

HandleSubscribe(c, s) ==
    /\ s \notin subs[c]
    /\ Room(s)
    /\ subs' = [subs EXCEPT ![c] = @ \cup {s}]
    /\ IF Watched(s) THEN UNCHANGED topicVars ELSE SubscribeTopic(s, FALSE)
    /\ UNCHANGED <<connVars, kisVars, noticeVars, engineVars>>

(* The topics of which it is the last client. *)
LastWatched(c, T) == {s \in T : \A d \in Clients \ {c} : s \notin subs[d]}

(* decrementRef for the topics a client leaves. *)
Leave(c, T) ==
    /\ \A s \in T : Room(s)
    /\ subs' = [subs EXCEPT ![c] = @ \ T]
    /\ UnsubscribeTopics(LastWatched(c, T))
    /\ UNCHANGED <<connVars, kisVars, noticeVars, engineVars>>

HandleUnsubscribe(c, s) == s \in subs[c] /\ Leave(c, {s})

HandleDisconnect(c) == subs[c] # {} /\ Leave(c, subs[c])

-----------------------------------------------------------------------------
Socket == (Connecting \/ NoticeSubscription) /\ UNCHANGED <<engineVars, subs>>

Engine(s) ==
    \/ SessionChanges(s) \/ SyncActivates(s) \/ SyncDeactivates(s) \/ RetryTimerFires(s)

Gateway(c) ==
    \/ \E s \in Stocks : HandleSubscribe(c, s) \/ HandleUnsubscribe(c, s)
    \/ HandleDisconnect(c)

Next ==
    \/ Socket
    \/ \E t \in Topics, ans \in Answers : Answer(t, ans)
    \/ \E s \in Stocks : Engine(s)
    \/ \E c \in Clients : Gateway(c)

Spec == Init /\ [][Next]_vars

(* The step a connection waits for: its timer, key, handshake, close event or    *)
(* monitor.  It happens, and KIS answers requests on a socket that delivers.     *)
Recovers ==
    /\ \/ ReconnectTimerFires \/ ApprovalIssued \/ ApprovalFails
       \/ SocketOpens \/ SocketCloses \/ PingpongTimesOut
    /\ UNCHANGED <<engineVars, subs>>

FairSpec ==
    /\ Spec
    /\ WF_vars(Recovers)
    /\ \A t \in Topics : WF_vars(\E ans \in Answers : Answer(t, ans))

-----------------------------------------------------------------------------
(* Properties. *)

(* The socket and the engine's sets keep their types. *)
TypeOK ==
    /\ SocketTypeOK
    /\ live \subseteq Stocks
    /\ syncs \in [Stocks -> SUBSET SyncAnswers]
    /\ activeStocks \subseteq Stocks
    /\ polling \subseteq Stocks
    /\ retry \subseteq Stocks
    /\ subs \in [Clients -> SUBSET Stocks]

(* KIS limits the topics of a connection: none stays subscribed that neither   *)
(* the engine nor a browser client needs, whatever order syncs and clients     *)
(* come and go in.                                                             *)
NoLeakedTopic ==
    \A s \in wanted \cap Stocks : s \in activeStocks \/ Watched(s)

(* An active stock whose subscription was refused is tried again, unless KIS   *)
(* is at its limit: polling it over REST does not take the retry's place.  A   *)
(* stock that browser clients watch is excluded: the last of them to leave     *)
(* takes the engine's subscription away, too.                                  *)
RefusedIsRetried ==
    \A s \in activeStocks \cap wanted :
        ws = "open" /\ requests[s] = <<>> /\ s \notin kis /\ ~Watched(s)
            => s \in retry \/ refused[s] = "limit"

ConnectionFault ==
    /\ ApprovalFails \/ SocketClosing \/ SocketCloses \/ SocketGoesSilent
    /\ UNCHANGED <<engineVars, subs>>

(* Every lost connection comes back with its topics: a wanted topic is         *)
(* delivered, refused or no longer wanted, unless connections fail for ever.   *)
WantedComesBack ==
    \/ []<><<ConnectionFault>>_vars
    \/ \A t \in Topics : t \in wanted ~> t \in kis \/ t \notin wanted \/ refused[t] # "ok"
=============================================================================
