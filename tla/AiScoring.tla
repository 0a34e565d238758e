----------------------------- MODULE AiScoring -----------------------------
(***************************************************************************)
(* The AI meetings of the market-data service.  A background session       *)
(* scores a batch of stocks one after the other: it checks the provider's  *)
(* credentials, summarises the chart, lets two agents collect data and two *)
(* experts judge it, holds the meeting and stores the score.  Every agent  *)
(* is a process of the provider's CLI with a timeout.  The user may cancel *)
(* the session while it waits for any of these.  A page starts a session   *)
(* or finds the running one and follows it over a stream.                  *)
(*                                                                         *)
(* Scores are "scored" (1 to 10) or "failed" (the fallback score 0).       *)
(***************************************************************************)
EXTENDS AgentConfig, Sequences

CONSTANTS
    Sessions,  \* ids of background sessions
    Pages,     \* scanner pages of one user
    Followers, \* pages that stay open; the others are closed after they started a session
    Batch,     \* stocks of a session
    Providers  \* providers a session may be started with

ASSUME AiScoringAssumption ==
    /\ Callers = Sessions \cup Pages
    /\ Sessions \cap Pages = {}
    /\ Followers \subseteq Pages
    /\ Batch \in Nat \ {0}
    /\ Providers \subseteq {"claude", "gpt"}

VARIABLES
    meeting, \* the background sessions
    page,    \* the pages
    cancels  \* cancel requests on their way

vars == <<config, cred, authFile, pkce, logins, tokens, aging, call, edits, meeting, page,
          cancels>>

Phases == {"phase1", "phase2", "phase3"}
Places == {"none", "auth", "stockAuth", "chart", "persist", "ended"} \cup Phases
Statuses == {"none", "running", "completed", "error", "cancelled", "forgotten"}
Outcomes == {"ok", "failed", "limit", "authExpired"}

(* running and closing count the agents the session waits for: processes that run, and processes *)
(* that closed while their output is still being read.  orphans are processes nobody waits for.   *)
Meeting == [status: Statuses, provider: Providers, at: Places, running: 0 .. 2, closing: 0 .. 2,
            orphans: 0 .. Batch, aborted: BOOLEAN,
            scores: UNION {[1 .. n -> {"scored", "failed"}] : n \in 0 .. Batch}]

NoMeeting == [status |-> "none", provider |-> CHOOSE p \in Providers : TRUE, at |-> "none",
              running |-> 0, closing |-> 0, orphans |-> 0, aborted |-> FALSE, scores |-> <<>>]

Init ==
    /\ ConfigInit
    /\ meeting = [s \in Sessions |-> NoMeeting]
    /\ page = [p \in Pages |-> [step |-> "scanned", on |-> "none", sent |-> 0]]
    /\ cancels = {}

Running == {s \in Sessions : meeting[s].status = "running"}
Fresh == {s \in Sessions : meeting[s].status = "none"}

(***************************************************************************)
(* A session between two awaits, as functions of its record                *)
(***************************************************************************)

(* The agents it waits for are no longer awaited; those that still run are orphans. *)
Leave(m, at) == [m EXCEPT !.at = at, !.running = 0, !.closing = 0, !.orphans = @ + m.running]

(* The end of the loop overwrites the status, a cancellation included. *)
Complete(m) == [m EXCEPT !.status = "completed", !.at = "ended"]

(* catch: the session ends with an error ... *)
Fail(m) == [Leave(m, "ended") EXCEPT !.status = "error"]

(* ... unless what was thrown is the abort of a session that is still cancelled. *)
Abort(m) == [Fail(m) EXCEPT !.status = IF m.status = "cancelled" THEN "cancelled" ELSE @]

(* After a stock: a session cancelled meanwhile drops the score. *)
Score(m, score) ==
    IF m.status # "running" THEN Leave(m, "ended")
    ELSE [Leave(m, "persist") EXCEPT !.scores = Append(@, score)]

(* scoreSingleStock up to its first await. *)
BeginStock(m, c) ==
    CASE Ready(m.provider, c) = "yes" -> [m EXCEPT !.at = "chart"]
      [] Ready(m.provider, c) = "refresh" -> [m EXCEPT !.at = "stockAuth"]
      [] OTHER -> Score(m, "failed")

LoopHead(m, c) ==
    IF Len(m.scores) = Batch THEN Complete(m)
    ELSE IF m.status # "running" THEN [m EXCEPT !.at = "ended"]
    ELSE BeginStock(m, c)

(* runSessionInBackground up to its first await. *)
Begin(m, c) ==
    CASE Ready(m.provider, c) = "yes" -> LoopHead(m, c)
      [] Ready(m.provider, c) = "refresh" -> [m EXCEPT !.at = "auth"]
      [] OTHER -> Fail(m)

(* Mutant: agents are spawned without a look at the signal. *)
EnterAnyway(m, phase) == [m EXCEPT !.at = phase, !.running = IF phase = "phase3" THEN 1 ELSE 2]

(* Spawning is refused once the signal has been aborted; phase 3 has a single agent. *)
EnterPhase(m, phase) ==
    IF m.aborted THEN Abort(m)
    ELSE [m EXCEPT !.at = phase, !.running = IF phase = "phase3" THEN 1 ELSE 2]

CollectData(m) == EnterPhase(m, "phase1")
AskExperts(m) == EnterPhase(m, "phase2")
HoldMeeting(m) == EnterPhase(m, "phase3")

(* analyzeStock goes through the phases in order. *)
NextPhase(m) == IF m.at = "phase1" THEN AskExperts(m) ELSE HoldMeeting(m)

(* The final score, or the fallback score of a meeting without an answer. *)
FinalScore(outcome) == IF outcome = "ok" THEN "scored" ELSE "failed"

(* An agent has settled and is no longer counted in m.  A limit or an expired login ends the phase *)
(* at once; in the first phases any other failure counts as an empty answer.                       *)
AfterAgent(m, outcome) ==
    IF outcome = "limit" THEN Score(m, "failed")
    ELSE IF outcome = "authExpired" THEN Fail(m)
    ELSE IF m.at = "phase3" THEN Score(m, FinalScore(outcome))
    ELSE IF m.running + m.closing > 0 THEN m
    ELSE NextPhase(m)

(***************************************************************************)
(* Steps of a session                                                      *)
(***************************************************************************)

Resumes == {"auth", "stockAuth"}

(* The session's record becomes m; if it now awaits a token refresh, the refresh reads c. *)
Becomes(s, m, c) ==
    /\ meeting' = [meeting EXCEPT ![s] = m]
    /\ call' = [call EXCEPT ![s] = IF m.at \in Resumes THEN Refresh(c) ELSE Idle]

filesRest == <<cred, authFile, pkce, logins, tokens, aging>>

AuthAnswered(s) ==
    /\ meeting[s].at \in Resumes
    /\ \/ /\ RefreshSucceeds(s)
          /\ Becomes(s, IF meeting[s].at = "auth" THEN LoopHead(meeting[s], config')
                        ELSE [meeting[s] EXCEPT !.at = "chart"], config')
       \/ /\ RefreshFails(s)
          /\ Becomes(s, IF meeting[s].at = "auth" THEN Fail(meeting[s])
                        ELSE Score(meeting[s], "failed"), config)
    /\ UNCHANGED <<page, cancels>>

(* buildChartSummary: the database answers or fails. *)
ChartRead(s) ==
    /\ meeting[s].at = "chart"
    /\ \/ Becomes(s, CollectData(meeting[s]), config)
       \/ Becomes(s, Score(meeting[s], "failed"), config)
    /\ UNCHANGED <<config, filesRest, page, cancels>>

(* A Codex process has closed: its output file is read before the promise settles. *)
AgentCloses(s) ==
    /\ meeting[s].running > 0
    /\ meeting[s].provider = "gpt"
    /\ meeting' = [meeting EXCEPT ![s].running = @ - 1, ![s].closing = @ + 1]
    /\ UNCHANGED <<config, filesRest, call, page, cancels>>

(* The promise of an agent settles while its process runs: a timeout, a limit message, or the end *)
(* of a Claude process, whatever its exit code.                                                   *)
RunningSettles(s) ==
    /\ meeting[s].running > 0
    /\ \E outcome \in (IF meeting[s].provider = "claude" THEN {"ok"} ELSE {}) \cup {"failed", "limit"} :
          Becomes(s, AfterAgent([meeting[s] EXCEPT !.running = @ - 1], outcome), config)
    /\ UNCHANGED <<config, filesRest, page, cancels>>

(* The output of a closed Codex process has been read; its exit code and messages decide. *)
ClosedSettles(s) ==
    /\ meeting[s].closing > 0
    /\ \E outcome \in {"ok", "failed", "authExpired"} :
          /\ Becomes(s, AfterAgent([meeting[s] EXCEPT !.closing = @ - 1], outcome), config)
          /\ config' = IF outcome = "authExpired" THEN MarkGptExpired(config) ELSE config
    /\ UNCHANGED <<filesRest, page, cancels>>

OrphanEnds(s) ==
    /\ meeting[s].orphans > 0
    /\ meeting' = [meeting EXCEPT ![s].orphans = @ - 1]
    /\ UNCHANGED <<config, filesRest, call, page, cancels>>

(* persistScoreToDb answers, its error swallowed if it failed; then the next turn of the loop. *)
Persisted(s) ==
    /\ meeting[s].at = "persist"
    /\ Becomes(s, LoopHead(meeting[s], config), config)
    /\ UNCHANGED <<config, filesRest, page, cancels>>

(* cancelSession: every process that listens to the signal is killed, orphans too, and the session *)
(* ends unless it waits for something else than an agent.                                          *)
CancelMeeting(m) ==
    [m EXCEPT !.status = "cancelled", !.aborted = TRUE, !.orphans = 0, !.running = 0,
              !.at = IF m.running > 0 THEN "ended" ELSE @,
              !.closing = IF m.running > 0 THEN 0 ELSE @]

CancelArrives(s) ==
    /\ s \in cancels
    /\ cancels' = cancels \ {s}
    /\ meeting' = IF meeting[s].status = "running"
                  THEN [meeting EXCEPT ![s] = CancelMeeting(@)] ELSE meeting
    /\ UNCHANGED <<config, filesRest, call, page>>

(* An hour after its end a session is forgotten. *)
Forget(s) ==
    /\ meeting[s].status \in {"completed", "error", "cancelled"}
    /\ meeting[s].at = "ended" /\ meeting[s].orphans = 0
    /\ meeting' = [meeting EXCEPT ![s] = [NoMeeting EXCEPT !.status = "forgotten"]]
    /\ UNCHANGED <<config, filesRest, call, page, cancels>>

(***************************************************************************)
(* Pages                                                                   *)
(***************************************************************************)

Following(p) == page[p].step = "scoring"

Connect(p, s) ==
    [page EXCEPT ![p] = IF p \in Followers THEN [step |-> "connecting", on |-> s, sent |-> 0]
                        ELSE [@ EXCEPT !.step = "closed"]]

(* A new session, as far as its first await.  As a mutant of StartOrJoin: only the controller looks *)
(* for a running session, before it waits for the credentials.                                      *)
StartNew(p, provider, c) ==
    /\ Fresh # {}
    /\ LET s == CHOOSE t \in Fresh : TRUE
           m == Begin([NoMeeting EXCEPT !.status = "running", !.provider = provider], c)
       IN /\ meeting' = [meeting EXCEPT ![s] = m]
          /\ call' = [call EXCEPT ![p] = Idle, ![s] = IF m.at \in Resumes THEN Refresh(c) ELSE Idle]
          /\ page' = Connect(p, s)

(* startBackgroundSession: an existing running session is joined, otherwise a new one begins. *)
StartOrJoin(p, provider, c) ==
    IF Running # {}
    THEN \E s \in Running : page' = Connect(p, s) /\ call' = [call EXCEPT ![p] = Idle] /\ UNCHANGED meeting
    ELSE StartNew(p, provider, c)

(* handleAiScore and session/start: ready at once, refused, or after a token refresh. *)
StartMeeting(p, provider) ==
    /\ page[p].step \in {"scanned", "scored"}
    /\ IF Running # {} \/ Ready(provider, config) = "yes"
       THEN StartOrJoin(p, provider, config)
       ELSE /\ Ready(provider, config) = "refresh"
            /\ call' = [call EXCEPT ![p] = Refresh(config)]
            /\ page' = [page EXCEPT ![p].step = "starting"]
            /\ UNCHANGED meeting
    /\ UNCHANGED <<config, filesRest, cancels>>

StartAnswered(p) ==
    /\ page[p].step = "starting"
    /\ \/ RefreshSucceeds(p) /\ StartOrJoin(p, "claude", config')
       \/ /\ RefreshFails(p)
          /\ page' = [page EXCEPT ![p].step = "scanned"]
          /\ call' = [call EXCEPT ![p] = Idle]
          /\ UNCHANGED meeting
    /\ UNCHANGED <<cancels>>

(* init of a page that is loaded again: it finds the running session by asking for it. *)
Reload(p) ==
    /\ page[p].step \in {"connecting", "scoring", "scored"}
    /\ page' = IF Running = {} THEN [page EXCEPT ![p] = [step |-> "scanned", on |-> "none", sent |-> 0]]
               ELSE Connect(p, CHOOSE s \in Running : TRUE)
    /\ UNCHANGED <<config, filesRest, call, meeting, cancels>>

(* Where a terminal status leads a page. *)
After(status) == IF status = "completed" THEN "scored" ELSE "scanned"

(* streamSession: the scores so far, and the end if the session is over or forgotten. *)
OpenStream(p) ==
    /\ page[p].step = "connecting"
    /\ LET m == meeting[page[p].on]
       IN page' = IF m.status = "forgotten" THEN [page EXCEPT ![p].step = "scanned"]
                  ELSE [page EXCEPT ![p].sent = Len(m.scores),
                                    ![p].step = IF m.status = "running" THEN "scoring" ELSE After(m.status)]
    /\ UNCHANGED <<config, filesRest, call, meeting, cancels>>

(* Mutant: the terminal event is sent before the scores that came with it. *)
PollTerminalFirst(p) ==
    /\ Following(p)
    /\ LET m == meeting[page[p].on]
       IN /\ m.status # "forgotten"
          /\ m.status # "running" \/ page[p].sent < Len(m.scores)
          /\ page' = IF m.status = "running" THEN [page EXCEPT ![p].sent = Len(m.scores)]
                     ELSE [page EXCEPT ![p].step = After(m.status)]
    /\ UNCHANGED <<config, filesRest, call, meeting, cancels>>

(* The one-second poll of the stream: new scores first, then the terminal event. *)
Poll(p) ==
    /\ Following(p)
    /\ LET m == meeting[page[p].on]
       IN /\ m.status # "forgotten"
          /\ m.status # "running" \/ page[p].sent < Len(m.scores)
          /\ page' = [page EXCEPT ![p].sent = Len(m.scores),
                                  ![p].step = IF m.status = "running" THEN @ ELSE After(m.status)]
    /\ UNCHANGED <<config, filesRest, call, meeting, cancels>>

(* The connection of a stream breaks. *)
StreamLost(p) ==
    /\ Following(p)
    /\ page' = [page EXCEPT ![p].step = "scanned"]
    /\ UNCHANGED <<config, filesRest, call, meeting, cancels>>

(* The page asks for the cancellation and stops listening. *)
AbortScoring(p) ==
    /\ page[p].step \in {"connecting", "scoring"}
    /\ cancels' = cancels \cup {page[p].on}
    /\ page' = [page EXCEPT ![p].step = "scanned"]
    /\ UNCHANGED <<config, filesRest, call, meeting>>

(***************************************************************************)
(* Specification                                                           *)
(***************************************************************************)

SessionStep(s) ==
    \/ AuthAnswered(s) \/ ChartRead(s) \/ Persisted(s)
    \/ RunningSettles(s) \/ ClosedSettles(s)

PageStep(p) ==
    \/ \E provider \in Providers : StartMeeting(p, provider)
    \/ StartAnswered(p) \/ Reload(p) \/ OpenStream(p) \/ Poll(p) \/ StreamLost(p) \/ AbortScoring(p)

Meetings ==
    \/ \E s \in Sessions :
        \/ SessionStep(s) \/ AgentCloses(s) \/ OrphanEnds(s) \/ CancelArrives(s) \/ Forget(s)
    \/ \E p \in Pages : PageStep(p)

Next ==
    \/ Meetings /\ UNCHANGED edits
    \/ ConfigNext /\ UNCHANGED <<meeting, page, cancels>>

Spec == Init /\ [][Next]_vars

(* A user has at most one running session, also when two pages start one while both wait for the *)
(* same token.  (startSession, startBackgroundSession)                                            *)
OneRunningSession == \A s, t \in Running : s = t

(* Once a session has been aborted none of its agent processes runs, and none starts: neither the *)
(* agents of its phase nor those a failed phase left behind.  (spawnClaude, spawnGpt)             *)
AbortStopsAgents ==
    \A s \in Sessions :
        meeting[s].aborted => meeting[s].running = 0 /\ meeting[s].orphans = 0

(* A page that shows a meeting as scored shows every score the session has, now and later, and as *)
(* many as the batch.  (streamSession, runSessionInBackground)                                    *)
ScoredPageIsComplete ==
    \A p \in Pages : page[p].step = "scored" =>
        /\ page[p].sent = Batch
        /\ meeting[page[p].on].status = "forgotten" \/ Len(meeting[page[p].on].scores) = Batch

=============================================================================
