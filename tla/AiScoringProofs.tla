-------------------------- MODULE AiScoringProofs --------------------------
(***************************************************************************)
(* Theorems about AiScoring for any number of sessions, pages, stocks and  *)
(* settings pages, and for every order of answers, failures, timeouts and  *)
(* cancellations.                                                          *)
(***************************************************************************)
EXTENDS AiScoring, TLAPS

(***************************************************************************)
(* The strengthening.  Sound says what the record of a session is between  *)
(* two awaits: where agents are awaited, what an abort leaves, and how far *)
(* the batch is; NeverRevived what a step of a session may do to its       *)
(* status; FilesOK is the type of the configuration and of what the        *)
(* operations that wait for an answer have read of it.                     *)
(***************************************************************************)
MeetingType ==
    [status: Statuses, provider: Providers \cup {NoMeeting.provider}, at: Places, running: Nat, closing: Nat, orphans: Nat,
     aborted: BOOLEAN, scores: Seq({"scored", "failed"})]

Sound(m) ==
    /\ m \in MeetingType
    /\ m.running + m.closing > 0 => m.at \in Phases
    /\ m.aborted => m.status # "running" /\ m.running = 0 /\ m.orphans = 0
    /\ Len(m.scores) <= Batch
    /\ m.at \in {"stockAuth", "chart"} \cup Phases => Len(m.scores) < Batch
    /\ m.status = "completed" => m.at = "ended" /\ Len(m.scores) = Batch
    /\ m.status \in {"none", "forgotten"} => m.at = "none" /\ m.orphans = 0

(* n is what a step makes of m. *)
NeverRevived(m, n) ==
    /\ n.status = "running" => m.status = "running"
    /\ m.status \in {"completed", "forgotten"} => n.status \in {"completed", "forgotten"}

PageOK(p) ==
    /\ page[p] \in [step: {"scanned", "starting", "connecting", "scoring", "scored", "closed"},
                    on: Sessions \cup {"none"}, sent: Nat]
    /\ page[p].step \in {"connecting", "scoring", "scored"} => page[p].on \in Sessions
    /\ page[p].step = "starting" => "claude" \in Providers
    /\ page[p].step = "scored" =>
         /\ page[p].sent = Batch
         /\ meeting[page[p].on].status \in {"completed", "forgotten"}

TokensOK ==
    /\ config \in Config
    /\ tokens \in 0 .. MaxTokens
    /\ config.claude.token <= tokens
    /\ aging \subseteq 1 .. tokens

CallsOK ==
    /\ DOMAIN call = Callers \cup Settings /\ call = [c \in Callers \cup Settings |-> call[c]]
    /\ \A c \in DOMAIN call : call[c].op = "refresh" => call[c].read \in Config

FilesOK == TokensOK /\ CallsOK

MeetingsOK ==
    /\ DOMAIN meeting = Sessions /\ meeting = [s \in Sessions |-> meeting[s]]
    /\ \A s \in Sessions : Sound(meeting[s])
    /\ OneRunningSession
    /\ DOMAIN page = Pages /\ page = [p \in Pages |-> page[p]]
    /\ \A p \in Pages : PageOK(p)

IInv == MeetingsOK /\ FilesOK

-----------------------------------------------------------------------------
(* What the functions of a session's record make of its fields. *)

LEMMA FieldTypes ==
  ASSUME NEW m \in MeetingType
  PROVE  /\ m.status \in Statuses /\ m.at \in Places /\ m.aborted \in BOOLEAN
         /\ m.running \in Nat /\ m.closing \in Nat /\ m.orphans \in Nat
         /\ m.scores \in Seq({"scored", "failed"}) /\ Len(m.scores) \in Nat
  BY DEF MeetingType

(* A session that does not exist yet, and a new one. *)
LEMMA EmptyFields ==
  /\ NoMeeting \in MeetingType
  /\ NoMeeting.status = "none" /\ NoMeeting.at = "none" /\ NoMeeting.running = 0 /\ NoMeeting.closing = 0
  /\ NoMeeting.orphans = 0 /\ ~NoMeeting.aborted /\ NoMeeting.scores = <<>>
  BY DEF NoMeeting, MeetingType, Statuses, Places

LEMMA LeaveFields ==
  ASSUME NEW m \in MeetingType, NEW at \in Places
  PROVE  LET n == Leave(m, at) IN
         /\ n \in MeetingType
         /\ n.status = m.status /\ n.at = at /\ n.running = 0 /\ n.closing = 0
         /\ n.orphans = m.orphans + m.running /\ n.aborted = m.aborted /\ n.scores = m.scores
<1>1. m.orphans + m.running \in Nat
  BY FieldTypes
<1> QED
  BY <1>1 DEF Leave, MeetingType

LEMMA FailFields ==
  ASSUME NEW m \in MeetingType
  PROVE  /\ LET n == Fail(m) IN
            /\ n \in MeetingType
            /\ n.status = "error" /\ n.at = "ended" /\ n.running = 0 /\ n.closing = 0
            /\ n.orphans = m.orphans + m.running /\ n.aborted = m.aborted /\ n.scores = m.scores
         /\ LET n == Abort(m) IN
            /\ n \in MeetingType
            /\ n.status \in {"cancelled", "error"} /\ n.at = "ended" /\ n.running = 0 /\ n.closing = 0
            /\ n.orphans = m.orphans + m.running /\ n.aborted = m.aborted /\ n.scores = m.scores
<1>1. LET left == Leave(m, "ended") IN
      /\ left \in MeetingType
      /\ left.at = "ended" /\ left.running = 0 /\ left.closing = 0
      /\ left.orphans = m.orphans + m.running /\ left.aborted = m.aborted /\ left.scores = m.scores
  BY LeaveFields DEF Places
<1>2. LET n == Fail(m) IN
      /\ n \in MeetingType
      /\ n.status = "error" /\ n.at = "ended" /\ n.running = 0 /\ n.closing = 0
      /\ n.orphans = m.orphans + m.running /\ n.aborted = m.aborted /\ n.scores = m.scores
  BY <1>1 DEF Fail, MeetingType, Statuses
<1> QED
  BY <1>2 DEF Abort, MeetingType, Statuses

LEMMA ScoreFields ==
  ASSUME NEW m \in MeetingType, NEW score \in {"scored", "failed"}
  PROVE  LET n == Score(m, score) IN
         /\ n \in MeetingType
         /\ n.status = m.status /\ n.running = 0 /\ n.closing = 0
         /\ n.orphans = m.orphans + m.running /\ n.aborted = m.aborted
         /\ m.status # "running" => n.at = "ended" /\ n.scores = m.scores
         /\ m.status = "running" => n.at = "persist" /\ Len(n.scores) = Len(m.scores) + 1
<1>1. CASE m.status # "running"
  BY <1>1, LeaveFields DEF Score, Places
<1>2. CASE m.status = "running"
  <2> DEFINE left == Leave(m, "persist")
             scores == Append(m.scores, score)
  <2>1. /\ left \in MeetingType
        /\ left.status = m.status /\ left.at = "persist" /\ left.running = 0 /\ left.closing = 0
        /\ left.orphans = m.orphans + m.running /\ left.aborted = m.aborted /\ left.scores = m.scores
    BY LeaveFields DEF Places
  <2>2. scores \in Seq({"scored", "failed"}) /\ Len(scores) = Len(m.scores) + 1
    BY FieldTypes
  <2>3. Score(m, score) = [left EXCEPT !.scores = Append(left.scores, score)]
    BY <1>2 DEF Score
  <2>4. Score(m, score) = [left EXCEPT !.scores = scores]
    BY <2>1, <2>3
  <2> HIDE DEF left, scores
  <2> QED
    BY <1>2, <2>1, <2>2, <2>4 DEF MeetingType
<1> QED
  BY <1>1, <1>2

(* An agent of a phase is started. *)
LEMMA PhaseFields ==
  ASSUME NEW m \in MeetingType, NEW phase \in Phases, ~m.aborted
  PROVE  LET n == EnterPhase(m, phase) IN
         /\ n \in MeetingType
         /\ n.status = m.status /\ n.at = phase /\ n.closing = m.closing
         /\ n.orphans = m.orphans /\ n.aborted = m.aborted /\ n.scores = m.scores
  BY DEF EnterPhase, MeetingType, Places

-----------------------------------------------------------------------------
(* The session between two awaits: each function of its record keeps Sound and revives nothing. *)

LEMMA CompleteSound ==
  ASSUME NEW m \in MeetingType, Sound(m), m.status \notin {"none", "forgotten"},
         m.running + m.closing = 0, Len(m.scores) = Batch
  PROVE  Sound(Complete(m)) /\ NeverRevived(m, Complete(m))
<1>1. /\ Complete(m) \in MeetingType
      /\ Complete(m).status = "completed" /\ Complete(m).at = "ended" /\ Complete(m).running = m.running
      /\ Complete(m).closing = m.closing /\ Complete(m).orphans = m.orphans
      /\ Complete(m).aborted = m.aborted /\ Complete(m).scores = m.scores
  BY DEF Complete, MeetingType, Statuses, Places
<1> QED
  BY <1>1, FieldTypes DEF Sound, NeverRevived, Phases

LEMMA FailSound ==
  ASSUME NEW m \in MeetingType, m.status \notin {"completed", "forgotten"},
         m.aborted => m.running = 0 /\ m.orphans = 0, Len(m.scores) <= Batch
  PROVE  /\ Sound(Fail(m)) /\ NeverRevived(m, Fail(m))
         /\ Sound(Abort(m)) /\ NeverRevived(m, Abort(m))
<1>1. Sound(Fail(m)) /\ NeverRevived(m, Fail(m))
  BY FailFields, FieldTypes DEF Sound, NeverRevived, Phases
<1>2. Sound(Abort(m)) /\ NeverRevived(m, Abort(m))
  BY FailFields, FieldTypes DEF Sound, NeverRevived, Phases
<1> QED
  BY <1>1, <1>2

(* A session still at work on a stock. *)
Working(m) ==
    /\ m \in MeetingType
    /\ m.status \notin {"none", "forgotten", "completed"}
    /\ m.aborted => m.status # "running" /\ m.running = 0 /\ m.orphans = 0
    /\ Len(m.scores) < Batch

LEMMA ScoreSound ==
  ASSUME NEW m, Working(m), NEW score \in {"scored", "failed"}
  PROVE  Sound(Score(m, score)) /\ NeverRevived(m, Score(m, score))
<1>1. m \in MeetingType /\ Len(m.scores) \in Nat /\ Batch \in Nat
  BY FieldTypes, AiScoringAssumption DEF Working
<1> DEFINE n == Score(m, score)
<1>2. /\ n \in MeetingType
      /\ n.status = m.status /\ n.running = 0 /\ n.closing = 0
      /\ n.orphans = m.orphans + m.running /\ n.aborted = m.aborted
      /\ m.status # "running" => n.at = "ended" /\ n.scores = m.scores
      /\ m.status = "running" => n.at = "persist" /\ Len(n.scores) = Len(m.scores) + 1
  BY <1>1, ScoreFields
<1> HIDE DEF n
<1>3. Len(n.scores) <= Batch
  BY <1>1, <1>2 DEF Working
<1>4. n.at \in {"ended", "persist"}
  BY <1>2
<1>5. n.aborted => n.status # "running" /\ n.running = 0 /\ n.orphans = 0
  BY <1>1, <1>2, FieldTypes DEF Working
<1>6. Sound(n)
  BY <1>2, <1>3, <1>4, <1>5 DEF Working, Sound, Phases
<1>7. NeverRevived(m, n)
  BY <1>2 DEF Working, NeverRevived
<1> QED
  BY <1>6, <1>7 DEF n

LEMMA LoopHeadSound ==
  ASSUME NEW m \in MeetingType, Sound(m), m.status \notin {"none", "forgotten", "completed"},
         m.running + m.closing = 0, NEW c
  PROVE  Sound(LoopHead(m, c)) /\ NeverRevived(m, LoopHead(m, c))
<1>1. CASE Len(m.scores) = Batch
  BY <1>1, CompleteSound DEF LoopHead
<1>2. CASE Len(m.scores) # Batch /\ m.status # "running"
  <2> DEFINE n == [m EXCEPT !.at = "ended"]
  <2>1. LoopHead(m, c) = n
    BY <1>2 DEF LoopHead
  <2>2. /\ n \in MeetingType /\ n.at = "ended" /\ n.status = m.status /\ n.running = m.running
        /\ n.closing = m.closing /\ n.orphans = m.orphans /\ n.aborted = m.aborted /\ n.scores = m.scores
    BY DEF MeetingType, Places
  <2> HIDE DEF n
  <2> QED
    BY <1>2, <2>1, <2>2, FieldTypes DEF Sound, NeverRevived, Phases
<1>3. CASE Len(m.scores) # Batch /\ m.status = "running"
  <2>1. Working(m)
    BY <1>3, FieldTypes, AiScoringAssumption DEF Working, Sound
  <2>2. LoopHead(m, c) = BeginStock(m, c)
    BY <1>3 DEF LoopHead
  <2>3. ASSUME NEW at \in {"chart", "stockAuth"}
        PROVE  Sound([m EXCEPT !.at = at]) /\ NeverRevived(m, [m EXCEPT !.at = at])
    <3> DEFINE n == [m EXCEPT !.at = at]
    <3>1. /\ n \in MeetingType /\ n.at = at /\ n.status = m.status /\ n.running = m.running
          /\ n.closing = m.closing /\ n.orphans = m.orphans /\ n.aborted = m.aborted /\ n.scores = m.scores
      BY DEF MeetingType, Places
    <3> HIDE DEF n
    <3>2. Sound(n) /\ NeverRevived(m, n)
      BY <1>3, <2>1, <3>1, FieldTypes DEF Working, Sound, NeverRevived, Phases
    <3> QED
      BY <3>2 DEF n
  <2>4. CASE Ready(m.provider, c) = "yes"
    BY <2>2, <2>3, <2>4 DEF BeginStock
  <2>5. CASE Ready(m.provider, c) = "refresh"
    BY <2>2, <2>3, <2>5 DEF BeginStock
  <2>6. CASE Ready(m.provider, c) \notin {"yes", "refresh"}
    BY <2>1, <2>2, <2>6, ScoreSound DEF BeginStock
  <2> QED
    BY <2>4, <2>5, <2>6
<1> QED
  BY <1>1, <1>2, <1>3

LEMMA EnterPhaseSound ==
  ASSUME NEW m, Working(m), NEW phase \in Phases
  PROVE  Sound(EnterPhase(m, phase)) /\ NeverRevived(m, EnterPhase(m, phase))
<1>1. m \in MeetingType /\ Len(m.scores) \in Nat /\ Batch \in Nat
  BY FieldTypes, AiScoringAssumption DEF Working
<1>2. CASE m.aborted
  BY <1>1, <1>2, FailSound DEF EnterPhase, Working
<1>3. CASE ~m.aborted
  BY <1>1, <1>3, PhaseFields, FieldTypes DEF Working, Sound, NeverRevived
<1> QED
  BY <1>2, <1>3

LEMMA AfterAgentSound ==
  ASSUME NEW m, Working(m), m.at \in Phases, NEW outcome \in Outcomes
  PROVE  Sound(AfterAgent(m, outcome)) /\ NeverRevived(m, AfterAgent(m, outcome))
<1>1. m \in MeetingType /\ Len(m.scores) \in Nat /\ Batch \in Nat
  BY FieldTypes, AiScoringAssumption DEF Working
<1>2. CASE outcome = "limit"
  BY <1>2, ScoreSound DEF AfterAgent
<1>3. CASE outcome = "authExpired"
  BY <1>1, <1>3, FailSound DEF AfterAgent, Working
<1>4. CASE outcome \in {"ok", "failed"} /\ m.at = "phase3"
  <2>1. FinalScore(outcome) \in {"scored", "failed"}
    BY DEF FinalScore
  <2> QED
    BY <1>4, <2>1, ScoreSound DEF AfterAgent
<1>5. CASE outcome \in {"ok", "failed"} /\ m.at # "phase3" /\ m.running + m.closing > 0
  <2>1. Sound(m)
    BY <1>1 DEF Working, Sound
  <2> QED
    BY <1>5, <2>1 DEF AfterAgent, Working, NeverRevived
<1>6. CASE outcome \in {"ok", "failed"} /\ m.at # "phase3" /\ ~(m.running + m.closing > 0)
  <2>1. AfterAgent(m, outcome) \in {EnterPhase(m, "phase2"), EnterPhase(m, "phase3")}
    BY <1>6 DEF AfterAgent, NextPhase, AskExperts, HoldMeeting
  <2> QED
    BY <2>1, EnterPhaseSound DEF Phases
<1> QED
  BY <1>2, <1>3, <1>4, <1>5, <1>6 DEF Outcomes

LEMMA CancelSound ==
  ASSUME NEW m, Sound(m), m.status = "running"
  PROVE  Sound(CancelMeeting(m)) /\ NeverRevived(m, CancelMeeting(m))
<1> DEFINE n == CancelMeeting(m)
<1>1. m \in MeetingType
  BY DEF Sound
<1>2. /\ n \in MeetingType
      /\ n.status = "cancelled" /\ n.aborted /\ n.orphans = 0 /\ n.running = 0 /\ n.scores = m.scores
      /\ IF m.running > 0 THEN n.at = "ended" /\ n.closing = 0 ELSE n.at = m.at /\ n.closing = m.closing
  BY <1>1 DEF CancelMeeting, MeetingType, Statuses, Places
<1> HIDE DEF n
<1>3. Sound(n) /\ NeverRevived(m, n)
  BY <1>1, <1>2, FieldTypes DEF Sound, NeverRevived, Phases
<1> QED
  BY <1>3 DEF n

-----------------------------------------------------------------------------
LEMMA InitInv == Init => IInv
<1> SUFFICES ASSUME Init PROVE IInv
  OBVIOUS
<1>1. FilesOK
  <2>1. config \in Config
    <3>1. 0 \in 0 .. MaxTokens /\ 1 \in 0 .. MaxTokens
      BY AgentConfigAssumption
    <3>2. [claude |-> [mode |-> "subscription", key |-> FALSE, token |-> 1],
           gpt |-> [mode |-> "subscription", key |-> FALSE, error |-> FALSE]] \in Config
      BY <3>1 DEF Config, Modes
    <3>3. [claude |-> [mode |-> "api_key", key |-> TRUE, token |-> 0],
           gpt |-> [mode |-> "api_key", key |-> TRUE, error |-> FALSE]] \in Config
      BY <3>1 DEF Config, Modes
    <3> QED
      BY <3>2, <3>3 DEF Init, ConfigInit
  <2>2. tokens \in 0 .. MaxTokens /\ config.claude.token <= tokens
    BY AgentConfigAssumption DEF Init, ConfigInit
  <2>3. aging \subseteq 1 .. tokens
    BY DEF Init, ConfigInit
  <2>4. CallsOK
    BY DEF Init, ConfigInit, Idle, CallsOK
  <2> QED
    BY <2>1, <2>2, <2>3, <2>4 DEF FilesOK, TokensOK
<1>2. Sound(NoMeeting)
  BY AiScoringAssumption DEF Sound, NoMeeting, MeetingType, Statuses, Places, Phases
<1>3. /\ meeting = [s \in Sessions |-> NoMeeting] /\ NoMeeting.status = "none"
      /\ page = [p \in Pages |-> [step |-> "scanned", on |-> "none", sent |-> 0]]
  BY DEF Init, NoMeeting
<1>4. MeetingsOK
  BY <1>2, <1>3 DEF MeetingsOK, OneRunningSession, Running, PageOK
<1> QED
  BY <1>1, <1>4 DEF IInv

-----------------------------------------------------------------------------
(* A step of one session that the pages do not notice yet. *)
LEMMA SessionMoves ==
  ASSUME MeetingsOK, NEW s \in Sessions, NEW n, Sound(n), NeverRevived(meeting[s], n),
         meeting' = [meeting EXCEPT ![s] = n], UNCHANGED page
  PROVE  MeetingsOK'
<1>1. /\ DOMAIN meeting' = Sessions /\ meeting' = [t \in Sessions |-> meeting'[t]]
      /\ meeting'[s] = n /\ \A t \in Sessions : t # s => meeting'[t] = meeting[t]
  BY DEF MeetingsOK
<1>2. \A t \in Sessions : Sound(meeting'[t])
  BY <1>1 DEF MeetingsOK
<1>3. OneRunningSession'
  <2>1. \A t \in Sessions : meeting'[t].status = "running" => meeting[t].status = "running"
    BY <1>1 DEF NeverRevived
  <2> QED
    BY <2>1 DEF MeetingsOK, OneRunningSession, Running
<1>4. ASSUME NEW p \in Pages PROVE PageOK(p)'
  <2>1. PageOK(p)
    BY DEF MeetingsOK
  <2>2. page[p].step = "scored" =>
          page[p].on \in Sessions /\ meeting'[page[p].on].status \in {"completed", "forgotten"}
    BY <1>1, <2>1 DEF PageOK, NeverRevived
  <2> QED
    BY <2>1, <2>2 DEF PageOK
<1> QED
  BY <1>1, <1>2, <1>3, <1>4 DEF MeetingsOK

(* A step of one page that leaves the sessions alone. *)
LEMMA PageMoves ==
  ASSUME MeetingsOK, UNCHANGED meeting, NEW p \in Pages, NEW v, page' = [page EXCEPT ![p] = v], PageOK(p)'
  PROVE  MeetingsOK'
<1>1. ASSUME NEW q \in Pages PROVE PageOK(q)'
  <2>1. CASE q = p
    BY <2>1
  <2>2. CASE q # p
    <3>1. page'[q] = page[q]
      BY <2>2 DEF MeetingsOK
    <3> QED
      BY <3>1 DEF MeetingsOK, PageOK
  <2> QED
    BY <2>1, <2>2
<1>2. DOMAIN page' = Pages /\ page' = [q \in Pages |-> page'[q]]
  BY DEF MeetingsOK
<1>3. OneRunningSession'
  BY DEF MeetingsOK, OneRunningSession, Running
<1> QED
  BY <1>1, <1>2, <1>3 DEF MeetingsOK

-----------------------------------------------------------------------------
(* The steps of a session. *)

LEMMA MoveSound ==
  ASSUME NEW m, Working(m), m.running + m.closing = 0, NEW at \in {"chart", "stockAuth"}
  PROVE  Sound([m EXCEPT !.at = at]) /\ NeverRevived(m, [m EXCEPT !.at = at])
<1> DEFINE n == [m EXCEPT !.at = at]
<1>1. m \in MeetingType /\ Len(m.scores) \in Nat /\ Batch \in Nat
  BY FieldTypes, AiScoringAssumption DEF Working
<1>2. /\ n \in MeetingType /\ n.at = at /\ n.status = m.status /\ n.running = m.running
      /\ n.closing = m.closing /\ n.orphans = m.orphans /\ n.aborted = m.aborted /\ n.scores = m.scores
  BY <1>1 DEF MeetingType, Places
<1> HIDE DEF n
<1>3. Sound(n) /\ NeverRevived(m, n)
  BY <1>1, <1>2, FieldTypes DEF Working, Sound, NeverRevived, Phases
<1> QED
  BY <1>3 DEF n

(* A session that awaits an answer has not ended, and what it works on is not done. *)
LEMMA AtWork ==
  ASSUME NEW m, Sound(m), m.at \notin {"none", "ended"}
  PROVE  /\ m \in MeetingType
         /\ m.status \notin {"none", "forgotten", "completed"}
         /\ m.at \notin Phases => m.running + m.closing = 0
         /\ m.at \in {"stockAuth", "chart"} \cup Phases => Working(m)
<1>1. m \in MeetingType
  BY DEF Sound
<1> QED
  BY <1>1, FieldTypes DEF Sound, Working

LEMMA AuthAnsweredInv ==
  ASSUME MeetingsOK, NEW s \in Sessions, AuthAnswered(s)
  PROVE  MeetingsOK'
<1> DEFINE m == meeting[s]
<1>1. Sound(m) /\ m.at \in Resumes
  BY DEF MeetingsOK, AuthAnswered
<1>2. /\ m \in MeetingType
      /\ m.status \notin {"none", "forgotten", "completed"}
      /\ m.running + m.closing = 0
      /\ m.at = "stockAuth" => Working(m)
      /\ m.aborted => m.running = 0 /\ m.orphans = 0
      /\ Len(m.scores) <= Batch
  BY <1>1, AtWork DEF Resumes, Phases, Sound
<1>3. PICK n, c : /\ Becomes(s, n, c)
                  /\ \/ n \in {LoopHead(m, c), Fail(m)}
                     \/ m.at = "stockAuth" /\ n \in {[m EXCEPT !.at = "chart"], Score(m, "failed")}
  BY <1>1 DEF AuthAnswered, Resumes
<1>4. Sound(n) /\ NeverRevived(m, n)
  <2> HIDE DEF m
  <2>1. CASE n = LoopHead(m, c)
    BY <1>1, <1>2, <2>1, LoopHeadSound
  <2>2. CASE n = Fail(m)
    BY <1>2, <2>2, FailSound
  <2>3. CASE m.at = "stockAuth" /\ n = [m EXCEPT !.at = "chart"]
    BY <1>2, <2>3, MoveSound
  <2>4. CASE m.at = "stockAuth" /\ n = Score(m, "failed")
    BY <1>2, <2>4, ScoreSound
  <2> QED
    BY <1>3, <2>1, <2>2, <2>3, <2>4
<1> QED
  BY <1>3, <1>4, SessionMoves DEF Becomes, AuthAnswered

LEMMA ChartReadInv ==
  ASSUME MeetingsOK, NEW s \in Sessions, ChartRead(s)
  PROVE  MeetingsOK'
<1> DEFINE m == meeting[s]
<1>1. Working(m)
  BY AtWork DEF MeetingsOK, ChartRead
<1>2. PICK n : Becomes(s, n, config) /\ n \in {EnterPhase(m, "phase1"), Score(m, "failed")}
  BY DEF ChartRead, CollectData
<1>3. Sound(n) /\ NeverRevived(m, n)
  <2> HIDE DEF m
  <2> QED
    BY <1>1, <1>2, EnterPhaseSound, ScoreSound DEF Phases
<1> QED
  BY <1>2, <1>3, SessionMoves DEF Becomes, ChartRead

LEMMA AgentClosesInv ==
  ASSUME MeetingsOK, NEW s \in Sessions, AgentCloses(s)
  PROVE  MeetingsOK'
<1> DEFINE m == meeting[s]
           n == [m EXCEPT !.running = @ - 1, !.closing = @ + 1]
<1>1. Sound(m) /\ m \in MeetingType /\ m.running \in Nat /\ m.closing \in Nat /\ m.running > 0
  BY FieldTypes DEF MeetingsOK, Sound, AgentCloses
<1>2. meeting' = [meeting EXCEPT ![s] = n]
  BY DEF AgentCloses
<1>3. Sound(n) /\ NeverRevived(m, n)
  <2>1. m.running - 1 \in Nat /\ m.closing + 1 \in Nat
    BY <1>1
  <2> HIDE DEF m
  <2>2. /\ n \in MeetingType /\ n.at = m.at /\ n.status = m.status /\ n.running = m.running - 1
        /\ n.closing = m.closing + 1 /\ n.orphans = m.orphans /\ n.aborted = m.aborted /\ n.scores = m.scores
    BY <1>1, <2>1 DEF MeetingType
  <2> HIDE DEF n
  <2> QED
    BY <1>1, <2>2, FieldTypes DEF Sound, NeverRevived
<1> QED
  BY <1>2, <1>3, SessionMoves DEF AgentCloses

(* An agent has settled: m is the record, k what is left of it after the agent is no longer counted. *)
LEMMA SettledInv ==
  ASSUME MeetingsOK, NEW s \in Sessions, NEW k, NEW outcome \in Outcomes, NEW c,
         k \in MeetingType, k.status = meeting[s].status, k.at = meeting[s].at,
         k.orphans = meeting[s].orphans, k.aborted = meeting[s].aborted, k.scores = meeting[s].scores,
         k.running <= meeting[s].running, meeting[s].running + meeting[s].closing > 0,
         Becomes(s, AfterAgent(k, outcome), c), UNCHANGED page
  PROVE  MeetingsOK'
<1> DEFINE m == meeting[s]
<1>1. Sound(m)
  BY DEF MeetingsOK
<1>2. Working(m) /\ m.at \in Phases /\ m.running \in Nat
  <2> HIDE DEF m
  <2> QED
    BY <1>1, AtWork, FieldTypes DEF Sound, Phases, m
<1>3. Working(k) /\ k.at \in Phases
  BY <1>2, FieldTypes DEF Working
<1>4. Sound(AfterAgent(k, outcome)) /\ NeverRevived(k, AfterAgent(k, outcome))
  BY <1>3, AfterAgentSound
<1>5. NeverRevived(m, AfterAgent(k, outcome))
  BY <1>4 DEF NeverRevived
<1> QED
  BY <1>4, <1>5, SessionMoves DEF Becomes

LEMMA RunningSettlesInv ==
  ASSUME MeetingsOK, NEW s \in Sessions, RunningSettles(s)
  PROVE  MeetingsOK'
<1> DEFINE m == meeting[s]
           k == [m EXCEPT !.running = @ - 1]
<1>1. Sound(m) /\ m \in MeetingType /\ m.running \in Nat /\ m.closing \in Nat /\ m.running > 0
  BY FieldTypes DEF MeetingsOK, Sound, RunningSettles
<1>2. PICK outcome \in Outcomes : Becomes(s, AfterAgent(k, outcome), config)
  BY DEF RunningSettles, Outcomes
<1>3. /\ k \in MeetingType /\ k.status = m.status /\ k.at = m.at /\ k.orphans = m.orphans
      /\ k.aborted = m.aborted /\ k.scores = m.scores /\ k.running <= m.running
  <2>1. m.running - 1 \in Nat /\ m.running - 1 <= m.running
    BY <1>1
  <2> QED
    BY <1>1, <2>1 DEF MeetingType
<1>4. m.running + m.closing > 0
  BY <1>1
<1> HIDE DEF k
<1> QED
  BY <1>2, <1>3, <1>4, SettledInv DEF RunningSettles

LEMMA ClosedSettlesInv ==
  ASSUME MeetingsOK, NEW s \in Sessions, ClosedSettles(s)
  PROVE  MeetingsOK'
<1> DEFINE m == meeting[s]
           k == [m EXCEPT !.closing = @ - 1]
<1>1. Sound(m) /\ m \in MeetingType /\ m.running \in Nat /\ m.closing \in Nat /\ m.closing > 0
  BY FieldTypes DEF MeetingsOK, Sound, ClosedSettles
<1>2. PICK outcome \in Outcomes : Becomes(s, AfterAgent(k, outcome), config)
  BY DEF ClosedSettles, Outcomes
<1>3. /\ k \in MeetingType /\ k.status = m.status /\ k.at = m.at /\ k.orphans = m.orphans
      /\ k.aborted = m.aborted /\ k.scores = m.scores /\ k.running <= m.running
  <2>1. m.closing - 1 \in Nat
    BY <1>1
  <2> QED
    BY <1>1, <2>1 DEF MeetingType
<1>4. m.running + m.closing > 0
  BY <1>1
<1> HIDE DEF k
<1> QED
  BY <1>2, <1>3, <1>4, SettledInv DEF ClosedSettles

LEMMA PersistedInv ==
  ASSUME MeetingsOK, NEW s \in Sessions, Persisted(s)
  PROVE  MeetingsOK'
<1> DEFINE m == meeting[s]
           n == LoopHead(m, config)
<1>1. Sound(m) /\ m.at = "persist" /\ Becomes(s, n, config)
  BY DEF MeetingsOK, Persisted
<1>2. m \in MeetingType /\ m.status \notin {"none", "forgotten", "completed"} /\ m.running + m.closing = 0
  BY <1>1, AtWork DEF Phases
<1>3. Sound(n) /\ NeverRevived(m, n)
  BY <1>1, <1>2, LoopHeadSound
<1> QED
  BY <1>1, <1>3, SessionMoves DEF Becomes, Persisted

LEMMA OrphanEndsInv ==
  ASSUME MeetingsOK, NEW s \in Sessions, OrphanEnds(s)
  PROVE  MeetingsOK'
<1> DEFINE m == meeting[s]
           n == [m EXCEPT !.orphans = @ - 1]
<1>1. Sound(m) /\ m \in MeetingType /\ m.orphans \in Nat /\ m.orphans > 0
  BY FieldTypes DEF MeetingsOK, Sound, OrphanEnds
<1>2. meeting' = [meeting EXCEPT ![s] = n]
  BY DEF OrphanEnds
<1>3. Sound(n) /\ NeverRevived(m, n)
  <2>1. m.orphans - 1 \in Nat
    BY <1>1
  <2> HIDE DEF m
  <2>2. /\ n \in MeetingType /\ n.at = m.at /\ n.status = m.status /\ n.running = m.running
        /\ n.closing = m.closing /\ n.orphans = m.orphans - 1 /\ n.aborted = m.aborted /\ n.scores = m.scores
    BY <1>1, <2>1 DEF MeetingType
  <2> HIDE DEF n
  <2> QED
    BY <1>1, <2>2, FieldTypes DEF Sound, NeverRevived
<1> QED
  BY <1>2, <1>3, SessionMoves DEF OrphanEnds

LEMMA CancelArrivesInv ==
  ASSUME MeetingsOK, NEW s \in Sessions, CancelArrives(s)
  PROVE  MeetingsOK'
<1>1. CASE meeting[s].status = "running"
  <2>1. meeting' = [meeting EXCEPT ![s] = CancelMeeting(meeting[s])]
    BY <1>1 DEF CancelArrives
  <2>2. Sound(CancelMeeting(meeting[s])) /\ NeverRevived(meeting[s], CancelMeeting(meeting[s]))
    BY <1>1, CancelSound DEF MeetingsOK
  <2> QED
    BY <2>1, <2>2, SessionMoves DEF CancelArrives
<1>2. CASE meeting[s].status # "running"
  <2>1. UNCHANGED <<meeting, page>>
    BY <1>2 DEF CancelArrives
  <2> QED
    BY <2>1 DEF MeetingsOK, OneRunningSession, Running, PageOK
<1> QED
  BY <1>1, <1>2

LEMMA ForgetInv ==
  ASSUME MeetingsOK, NEW s \in Sessions, Forget(s)
  PROVE  MeetingsOK'
<1> DEFINE n == [NoMeeting EXCEPT !.status = "forgotten"]
<1>1. meeting' = [meeting EXCEPT ![s] = n]
  BY DEF Forget
<1>2. /\ n \in MeetingType
      /\ n.status = "forgotten" /\ n.at = "none" /\ n.running = 0 /\ n.closing = 0 /\ n.orphans = 0
      /\ ~n.aborted /\ n.scores = <<>>
  BY EmptyFields DEF Statuses, MeetingType
<1> HIDE DEF n
<1>3. Sound(n) /\ NeverRevived(meeting[s], n)
  BY <1>2, AiScoringAssumption DEF Sound, NeverRevived, Phases
<1> QED
  BY <1>1, <1>3, SessionMoves DEF Forget

-----------------------------------------------------------------------------
(* The steps of a page. *)

LEMMA BeginSound ==
  ASSUME NEW provider \in Providers, NEW c
  PROVE  LET n == Begin([NoMeeting EXCEPT !.status = "running", !.provider = provider], c)
         IN  Sound(n) /\ n.status \notin {"none", "forgotten"}
<1> DEFINE m == [NoMeeting EXCEPT !.status = "running", !.provider = provider]
<1>1. /\ m \in MeetingType
      /\ m.status = "running" /\ m.at = "none" /\ m.running = 0 /\ m.closing = 0 /\ m.orphans = 0
      /\ ~m.aborted /\ m.scores = <<>>
  BY EmptyFields DEF Statuses, MeetingType
<1> HIDE DEF m
<1>2. Sound(m) /\ Len(m.scores) <= Batch
  BY <1>1, AiScoringAssumption DEF Sound, Phases
<1>3. CASE Ready(m.provider, c) = "yes"
  <2>1. Sound(LoopHead(m, c)) /\ NeverRevived(m, LoopHead(m, c))
    BY <1>1, <1>2, LoopHeadSound
  <2>2. LoopHead(m, c).status \notin {"none", "forgotten"}
    <3>1. LoopHead(m, c) = BeginStock(m, c)
      BY <1>1, AiScoringAssumption DEF LoopHead
    <3>2. [m EXCEPT !.at = "chart"].status = "running" /\ [m EXCEPT !.at = "stockAuth"].status = "running"
      BY <1>1 DEF MeetingType
    <3>3. Score(m, "failed").status = "running"
      BY <1>1, ScoreFields
    <3> QED
      BY <3>1, <3>2, <3>3, <1>3 DEF BeginStock
  <2> QED
    BY <1>3, <2>1, <2>2 DEF Begin, m
<1>4. CASE Ready(m.provider, c) = "refresh"
  <2> DEFINE n == [m EXCEPT !.at = "auth"]
  <2>1. /\ n \in MeetingType
        /\ n.status = "running" /\ n.at = "auth" /\ n.running = 0 /\ n.closing = 0 /\ n.orphans = 0
        /\ ~n.aborted /\ n.scores = <<>>
    BY <1>1 DEF MeetingType, Places
  <2> HIDE DEF n
  <2>2. Sound(n)
    BY <2>1, AiScoringAssumption DEF Sound, Phases
  <2> QED
    BY <1>4, <2>1, <2>2 DEF Begin, m, n
<1>5. CASE Ready(m.provider, c) \notin {"yes", "refresh"}
  <2>1. Sound(Fail(m)) /\ Fail(m).status = "error"
    BY <1>1, <1>2, FailSound, FailFields
  <2> QED
    BY <1>5, <2>1 DEF Begin, m
<1> QED
  BY <1>3, <1>4, <1>5

(* The page that asked for session s. *)
LEMMA ConnectOK ==
  ASSUME MeetingsOK, NEW p \in Pages, NEW s \in Sessions, page' = Connect(p, s)
  PROVE  /\ \E v : page' = [page EXCEPT ![p] = v]
         /\ PageOK(p)'
<1>1. page[p] \in [step: {"scanned", "starting", "connecting", "scoring", "scored", "closed"},
                   on: Sessions \cup {"none"}, sent: Nat]
  BY DEF MeetingsOK, PageOK
<1>2. CASE p \in Followers
  BY <1>1, <1>2 DEF Connect, MeetingsOK, PageOK
<1>3. CASE p \notin Followers
  <2>1. page' = [page EXCEPT ![p] = [page[p] EXCEPT !.step = "closed"]]
    BY <1>3 DEF Connect
  <2>2. page'[p] = [page[p] EXCEPT !.step = "closed"]
    BY <2>1 DEF MeetingsOK
  <2> QED
    BY <1>1, <2>1, <2>2 DEF PageOK
<1> QED
  BY <1>2, <1>3

LEMMA StartNewInv ==
  ASSUME MeetingsOK, NEW p \in Pages, NEW provider \in Providers, NEW c,
         Running = {}, StartNew(p, provider, c)
  PROVE  MeetingsOK'
<1> DEFINE s == CHOOSE t \in Fresh : TRUE
           n == Begin([NoMeeting EXCEPT !.status = "running", !.provider = provider], c)
<1>1. s \in Sessions /\ meeting[s].status = "none"
  BY DEF StartNew, Fresh
<1>2. meeting' = [meeting EXCEPT ![s] = n] /\ page' = Connect(p, s)
  BY DEF StartNew
<1>3. Sound(n)
  BY BeginSound
<1> HIDE DEF s, n
<1>4. /\ DOMAIN meeting' = Sessions /\ meeting' = [t \in Sessions |-> meeting'[t]]
      /\ meeting'[s] = n /\ \A t \in Sessions : t # s => meeting'[t] = meeting[t]
  BY <1>1, <1>2 DEF MeetingsOK
<1>5. \A t \in Sessions : Sound(meeting'[t])
  BY <1>3, <1>4 DEF MeetingsOK
<1>6. OneRunningSession'
  BY <1>4 DEF OneRunningSession, Running
<1>7. (\E v : page' = [page EXCEPT ![p] = v]) /\ PageOK(p)'
  BY <1>1, <1>2, ConnectOK
<1>8. ASSUME NEW q \in Pages, q # p PROVE PageOK(q)'
  <2>1. page'[q] = page[q] /\ PageOK(q)
    BY <1>7, <1>8 DEF MeetingsOK
  <2>2. page[q].step = "scored" =>
          page[q].on \in Sessions /\ meeting'[page[q].on].status \in {"completed", "forgotten"}
    BY <1>1, <1>4, <2>1 DEF PageOK
  <2> QED
    BY <2>1, <2>2 DEF PageOK
<1>9. DOMAIN page' = Pages /\ page' = [q \in Pages |-> page'[q]]
  BY <1>7 DEF MeetingsOK
<1> QED
  BY <1>4, <1>5, <1>6, <1>7, <1>8, <1>9 DEF MeetingsOK

LEMMA StartOrJoinInv ==
  ASSUME MeetingsOK, NEW p \in Pages, NEW provider \in Providers, NEW c, StartOrJoin(p, provider, c)
  PROVE  MeetingsOK'
<1>1. CASE Running = {}
  BY <1>1, StartNewInv DEF StartOrJoin
<1>2. CASE Running # {}
  <2>1. PICK s \in Running : page' = Connect(p, s) /\ UNCHANGED meeting
    BY <1>2 DEF StartOrJoin
  <2>2. s \in Sessions
    BY DEF Running
  <2> QED
    BY <2>1, <2>2, ConnectOK, PageMoves
<1> QED
  BY <1>1, <1>2

(* A page that goes where nothing is claimed about it. *)
LEMMA PageSteps ==
  ASSUME MeetingsOK, UNCHANGED meeting, NEW p \in Pages,
         NEW step \in {"scanned", "starting"}, step = "starting" => "claude" \in Providers,
         page' = [page EXCEPT ![p].step = step]
  PROVE  MeetingsOK'
<1>1. page' = [page EXCEPT ![p] = [page[p] EXCEPT !.step = step]]
  OBVIOUS
<1>2. page'[p] = [page[p] EXCEPT !.step = step] /\ PageOK(p)
  BY DEF MeetingsOK
<1>3. PageOK(p)'
  BY <1>2 DEF PageOK
<1> QED
  BY <1>1, <1>3, PageMoves

(* A page that has been told of every score of its session, and of its end. *)
LEMMA PageIsTold ==
  ASSUME MeetingsOK, UNCHANGED meeting, NEW p \in Pages,
         page[p].step \in {"connecting", "scoring"}, meeting[page[p].on].status # "forgotten",
         NEW step, step = IF meeting[page[p].on].status = "running" THEN "scoring"
                          ELSE After(meeting[page[p].on].status),
         page' = [page EXCEPT ![p].sent = Len(meeting[page[p].on].scores), ![p].step = step]
  PROVE  MeetingsOK'
<1> DEFINE m == meeting[page[p].on]
           v == [page[p] EXCEPT !.sent = Len(m.scores), !.step = step]
<1>1. PageOK(p) /\ page[p].on \in Sessions
  BY DEF MeetingsOK, PageOK
<1>2. Sound(m) /\ Len(m.scores) \in Nat
  BY <1>1, FieldTypes DEF MeetingsOK, Sound
<1>3. page' = [page EXCEPT ![p] = v] /\ page'[p] = v
  BY DEF MeetingsOK
<1>4. step \in {"scanned", "scoring", "scored"}
  BY DEF After
<1>5. step = "scored" => m.status = "completed" /\ Len(m.scores) = Batch
  BY <1>2 DEF After, Sound
<1>6. PageOK(p)'
  BY <1>1, <1>2, <1>3, <1>4, <1>5 DEF PageOK
<1> QED
  BY <1>3, <1>6, PageMoves

LEMMA PageStepInv ==
  ASSUME MeetingsOK, NEW p \in Pages, PageStep(p)
  PROVE  MeetingsOK'
<1>1. PageOK(p)
  BY DEF MeetingsOK
<1>2. ASSUME NEW provider \in Providers, StartMeeting(p, provider) PROVE MeetingsOK'
  <2>1. CASE StartOrJoin(p, provider, config)
    BY <2>1, StartOrJoinInv
  <2>2. CASE /\ Ready(provider, config) = "refresh"
             /\ page' = [page EXCEPT ![p].step = "starting"] /\ UNCHANGED meeting
    <3>1. provider = "claude"
      BY <2>2, AiScoringAssumption DEF Ready, GptReady
    <3> QED
      BY <2>2, <3>1, PageSteps
  <2> QED
    BY <1>2, <2>1, <2>2 DEF StartMeeting
<1>3. ASSUME StartAnswered(p) PROVE MeetingsOK'
  <2>1. CASE StartOrJoin(p, "claude", config')
    BY <1>1, <1>3, <2>1, StartOrJoinInv DEF StartAnswered, PageOK
  <2>2. CASE page' = [page EXCEPT ![p].step = "scanned"] /\ UNCHANGED meeting
    BY <2>2, PageSteps
  <2> QED
    BY <1>3, <2>1, <2>2 DEF StartAnswered
<1>4. ASSUME Reload(p) PROVE MeetingsOK'
  <2> DEFINE v == [step |-> "scanned", on |-> "none", sent |-> 0]
             s == CHOOSE t \in Running : TRUE
  <2>1. CASE Running = {}
    <3>1. page' = [page EXCEPT ![p] = v] /\ page'[p] = v
      BY <1>4, <2>1 DEF Reload, MeetingsOK
    <3>2. PageOK(p)'
      BY <3>1 DEF PageOK
    <3> QED
      BY <1>4, <3>1, <3>2, PageMoves DEF Reload
  <2>2. CASE Running # {}
    <3>1. s \in Sessions
      BY <2>2 DEF Running
    <3>2. page' = Connect(p, s) /\ UNCHANGED meeting
      BY <1>4, <2>2 DEF Reload
    <3> HIDE DEF s
    <3> QED
      BY <3>1, <3>2, ConnectOK, PageMoves
  <2> QED
    BY <2>1, <2>2
<1>5. ASSUME OpenStream(p) PROVE MeetingsOK'
  <2>1. CASE meeting[page[p].on].status = "forgotten"
    BY <1>5, <2>1, PageSteps DEF OpenStream
  <2>2. CASE meeting[page[p].on].status # "forgotten"
    BY <1>5, <2>2, PageIsTold DEF OpenStream
  <2> QED
    BY <2>1, <2>2
<1>6. ASSUME Poll(p) PROVE MeetingsOK'
  BY <1>6, PageIsTold DEF Poll, Following
<1>7. ASSUME StreamLost(p) PROVE MeetingsOK'
  BY <1>7, PageSteps DEF StreamLost
<1>8. ASSUME AbortScoring(p) PROVE MeetingsOK'
  BY <1>8, PageSteps DEF AbortScoring
<1> QED
  BY <1>2, <1>3, <1>4, <1>5, <1>6, <1>7, <1>8 DEF PageStep

-----------------------------------------------------------------------------
LEMMA MeetingsStep == MeetingsOK /\ [Next]_vars => MeetingsOK'
<1> SUFFICES ASSUME MeetingsOK, [Next]_vars PROVE MeetingsOK'
  OBVIOUS
<1>1. ASSUME UNCHANGED <<meeting, page>> PROVE MeetingsOK'
  BY <1>1 DEF MeetingsOK, OneRunningSession, Running, PageOK
<1>2. ASSUME NEW s \in Sessions, SessionStep(s) PROVE MeetingsOK'
  BY <1>2, AuthAnsweredInv, ChartReadInv, PersistedInv, RunningSettlesInv, ClosedSettlesInv DEF SessionStep
<1>3. ASSUME NEW s \in Sessions, AgentCloses(s) \/ OrphanEnds(s) \/ CancelArrives(s) \/ Forget(s)
      PROVE  MeetingsOK'
  BY <1>3, AgentClosesInv, OrphanEndsInv, CancelArrivesInv, ForgetInv
<1>4. ASSUME Meetings PROVE MeetingsOK'
  BY <1>2, <1>3, <1>4, PageStepInv DEF Meetings
<1> QED
  BY <1>1, <1>4 DEF Next, vars

-----------------------------------------------------------------------------
(* The configuration and the operations that wait for an answer. *)

ClaudePart == [mode: Modes, key: BOOLEAN, token: 0 .. MaxTokens]
GptPart == [mode: Modes, key: BOOLEAN, error: BOOLEAN]

LEMMA PartFields ==
  ASSUME NEW mode \in Modes, NEW key \in BOOLEAN
  PROVE  /\ \A token \in 0 .. MaxTokens :
              /\ [mode |-> mode, key |-> key, token |-> token] \in ClaudePart
              /\ [mode |-> mode, key |-> key, token |-> token].token = token
         /\ \A error \in BOOLEAN : [mode |-> mode, key |-> key, error |-> error] \in GptPart
         /\ \A gpt \in GptPart, error \in BOOLEAN : [gpt EXCEPT !.error = error] \in GptPart
  BY DEF ClaudePart, GptPart

LEMMA ConfigFields ==
  ASSUME NEW c \in Config
  PROVE  /\ c.claude \in ClaudePart
         /\ c.gpt \in GptPart
         /\ c.claude.token \in 0 .. MaxTokens
         /\ \A claude \in ClaudePart :
              /\ [c EXCEPT !.claude = claude] \in Config
              /\ [c EXCEPT !.claude = claude].claude = claude /\ [c EXCEPT !.claude = claude].gpt = c.gpt
         /\ \A gpt \in GptPart :
              /\ [c EXCEPT !.gpt = gpt] \in Config
              /\ [c EXCEPT !.gpt = gpt].gpt = gpt /\ [c EXCEPT !.gpt = gpt].claude = c.claude
  BY DEF Config, ClaudePart, GptPart

(* A refreshed token is not one that has aged, and the rest of the configuration is what was read. *)
LEMMA RefreshFields ==
  ASSUME FilesOK, NEW c \in Callers \cup Settings, RefreshSucceeds(c)
  PROVE  /\ TokensOK'
         /\ config'.gpt = call[c].read.gpt
         /\ config'.claude.token \notin aging
         /\ call[c].op = "refresh" /\ UNCHANGED <<authFile, aging>>
<1> DEFINE read == call[c].read
           claude == [read.claude EXCEPT !.token = tokens + 1]
<1>1. read \in Config /\ call[c].op = "refresh" /\ UNCHANGED <<authFile, aging>>
  BY DEF FilesOK, CallsOK, RefreshSucceeds
<1>2. tokens' = tokens + 1 /\ tokens' \in 0 .. MaxTokens /\ tokens \in Nat
  BY AgentConfigAssumption DEF FilesOK, TokensOK, RefreshSucceeds
<1>3. config' = [read EXCEPT !.claude = claude]
  BY DEF RefreshSucceeds, RefreshWrites
<1> HIDE DEF read
<1>4. claude \in ClaudePart /\ claude.token = tokens + 1
  BY <1>1, <1>2, ConfigFields DEF ClaudePart
<1> HIDE DEF claude
<1>5. config' \in Config /\ config'.claude = claude /\ config'.gpt = read.gpt
  BY <1>1, <1>3, <1>4, ConfigFields
<1>6. aging' \subseteq 1 .. tokens' /\ tokens + 1 \notin aging
  BY <1>1, <1>2 DEF FilesOK, TokensOK
<1> QED
  BY <1>1, <1>2, <1>4, <1>5, <1>6 DEF TokensOK, read

(* An operation begins to wait, or stops waiting. *)
LEMMA CallMoves ==
  ASSUME CallsOK, NEW u, NEW x, x.op = "refresh" => x.read \in Config, call' = [call EXCEPT ![u] = x]
  PROVE  CallsOK'
  BY DEF CallsOK

LEMMA BecomesCalls ==
  ASSUME CallsOK, NEW s \in Sessions, NEW n, NEW c \in Config, Becomes(s, n, c)
  PROVE  CallsOK'
<1>1. PICK x \in {Refresh(c), Idle} : call' = [call EXCEPT ![s] = x]
  BY DEF Becomes
<1>2. x.op = "refresh" => x.read \in Config
  BY DEF Refresh, Idle
<1> QED
  BY <1>1, <1>2, CallMoves

LEMMA StartCalls ==
  ASSUME CallsOK, NEW p \in Pages, NEW provider, NEW c \in Config, StartOrJoin(p, provider, c)
  PROVE  CallsOK'
<1>1. CASE Running # {}
  <2>1. call' = [call EXCEPT ![p] = Idle]
    BY <1>1 DEF StartOrJoin
  <2> QED
    BY <2>1, CallMoves DEF Idle
<1>2. CASE Running = {}
  <2>1. PICK s, x : /\ x \in {Refresh(c), Idle}
                    /\ call' = [call EXCEPT ![p] = Idle, ![s] = x]
    <3> DEFINE s0 == CHOOSE t \in Fresh : TRUE
               m0 == Begin([NoMeeting EXCEPT !.status = "running", !.provider = provider], c)
               x0 == IF m0.at \in Resumes THEN Refresh(c) ELSE Idle
    <3>1. call' = [call EXCEPT ![p] = Idle, ![s0] = x0]
      BY <1>2 DEF StartOrJoin, StartNew
    <3>2. x0 \in {Refresh(c), Idle}
      OBVIOUS
    <3> HIDE DEF s0, x0
    <3> QED
      BY <3>1, <3>2
  <2>2. Idle.op # "refresh" /\ (x.op = "refresh" => x.read \in Config)
    BY <2>1 DEF Refresh, Idle
  <2>3. /\ DOMAIN call' = Callers \cup Settings /\ call' = [u \in Callers \cup Settings |-> call'[u]]
        /\ \A u \in DOMAIN call : call'[u] \in {call[u], Idle, x}
    BY <2>1 DEF CallsOK
  <2>4. ASSUME NEW u \in DOMAIN call, call'[u].op = "refresh" PROVE call'[u].read \in Config
    BY <2>2, <2>3, <2>4 DEF CallsOK
  <2> QED
    BY <2>3, <2>4 DEF CallsOK
<1> QED
  BY <1>1, <1>2

LEMMA MeetingFiles ==
  ASSUME FilesOK, Meetings
  PROVE  FilesOK'
<1>1. config \in Config /\ TokensOK /\ CallsOK
  BY DEF FilesOK, TokensOK
<1>2. ASSUME UNCHANGED <<config, filesRest>> PROVE TokensOK'
  BY <1>1, <1>2 DEF TokensOK, filesRest
<1>3. ASSUME NEW s \in Sessions, SessionStep(s) PROVE FilesOK'
  <2>1. CASE AuthAnswered(s)
    <3>1. CASE RefreshSucceeds(s)
      <4>1. TokensOK' /\ config' \in Config
        BY <3>1, RefreshFields, AiScoringAssumption DEF TokensOK
      <4>2. PICK n : Becomes(s, n, config')
        BY <2>1, <3>1 DEF AuthAnswered, RefreshFails, RefreshSucceeds
      <4> QED
        BY <1>1, <4>1, <4>2, BecomesCalls DEF FilesOK
    <3>2. CASE RefreshFails(s)
      <4>1. UNCHANGED <<config, filesRest>>
        BY <3>2 DEF RefreshFails, filesRest
      <4>2. PICK n, c : c \in {config, config'} /\ Becomes(s, n, c)
        BY <2>1 DEF AuthAnswered
      <4> QED
        BY <1>1, <1>2, <4>1, <4>2, BecomesCalls DEF FilesOK
    <3> QED
      BY <2>1, <3>1, <3>2 DEF AuthAnswered
  <2>2. CASE ChartRead(s) \/ Persisted(s) \/ RunningSettles(s)
    <3>1. /\ UNCHANGED <<config, filesRest>>
          /\ \E n : Becomes(s, n, config)
      BY <2>2 DEF ChartRead, Persisted, RunningSettles
    <3> QED
      BY <1>1, <1>2, <3>1, BecomesCalls DEF FilesOK
  <2>3. CASE ClosedSettles(s)
    <3>1. /\ UNCHANGED filesRest /\ config' \in {config, MarkGptExpired(config)}
          /\ \E n : Becomes(s, n, config)
      BY <2>3 DEF ClosedSettles
    <3>2. config' \in Config /\ config'.claude = config.claude
      <4>1. config.gpt \in GptPart
        BY <1>1, ConfigFields
      <4>2. [config.gpt EXCEPT !.error = TRUE] \in GptPart
        BY <4>1, PartFields DEF Modes
      <4>3. PICK gpt \in GptPart : config' \in {config, [config EXCEPT !.gpt = gpt]}
        BY <3>1, <4>2 DEF MarkGptExpired
      <4>4. [config EXCEPT !.gpt = gpt] \in Config /\ [config EXCEPT !.gpt = gpt].claude = config.claude
        BY <1>1, ConfigFields
      <4> QED
        BY <1>1, <4>3, <4>4
    <3>3. TokensOK'
      BY <1>1, <3>1, <3>2 DEF TokensOK, filesRest
    <3> QED
      BY <1>1, <3>1, <3>3, BecomesCalls DEF FilesOK
  <2> QED
    BY <1>3, <2>1, <2>2, <2>3 DEF SessionStep
<1>4. ASSUME NEW s \in Sessions, AgentCloses(s) \/ OrphanEnds(s) \/ CancelArrives(s) \/ Forget(s)
      PROVE  FilesOK'
  <2>1. UNCHANGED <<config, filesRest, call>>
    BY <1>4 DEF AgentCloses, OrphanEnds, CancelArrives, Forget
  <2> QED
    BY <1>1, <1>2, <2>1 DEF FilesOK, CallsOK
<1>5. ASSUME NEW p \in Pages, PageStep(p) PROVE FilesOK'
  <2>1. ASSUME NEW provider \in Providers, StartMeeting(p, provider) PROVE FilesOK'
    <3>1. UNCHANGED <<config, filesRest>>
      BY <2>1 DEF StartMeeting
    <3>2. CASE StartOrJoin(p, provider, config)
      BY <1>1, <1>2, <3>1, <3>2, StartCalls DEF FilesOK
    <3>3. CASE call' = [call EXCEPT ![p] = Refresh(config)]
      <4>1. Refresh(config).read \in Config
        BY <1>1 DEF Refresh
      <4>2. CallsOK'
        BY <1>1, <3>3, <4>1, CallMoves
      <4> QED
        BY <1>2, <3>1, <4>2 DEF FilesOK
    <3> QED
      BY <2>1, <3>2, <3>3 DEF StartMeeting
  <2>2. ASSUME StartAnswered(p) PROVE FilesOK'
    <3>1. CASE RefreshSucceeds(p) /\ StartOrJoin(p, "claude", config')
      <4>1. TokensOK' /\ config' \in Config
        BY <3>1, RefreshFields, AiScoringAssumption DEF TokensOK
      <4> QED
        BY <1>1, <3>1, <4>1, StartCalls DEF FilesOK
    <3>2. CASE RefreshFails(p) /\ call' = [call EXCEPT ![p] = Idle]
      <4>1. UNCHANGED <<config, filesRest>>
        BY <3>2 DEF RefreshFails, filesRest
      <4>2. CallsOK'
        BY <1>1, <3>2, CallMoves DEF Idle
      <4> QED
        BY <1>2, <4>1, <4>2 DEF FilesOK
    <3> QED
      BY <2>2, <3>1, <3>2 DEF StartAnswered
  <2>3. ASSUME Reload(p) \/ OpenStream(p) \/ Poll(p) \/ StreamLost(p) \/ AbortScoring(p) PROVE FilesOK'
    <3>1. UNCHANGED <<config, filesRest, call>>
      BY <2>3 DEF Reload, OpenStream, Poll, StreamLost, AbortScoring
    <3> QED
      BY <1>1, <1>2, <3>1 DEF FilesOK, CallsOK
  <2> QED
    BY <1>5, <2>1, <2>2, <2>3 DEF PageStep
<1> QED
  BY <1>3, <1>4, <1>5 DEF Meetings

LEMMA ConfigFiles ==
  ASSUME FilesOK, Edit \/ Answer
  PROVE  FilesOK'
<1>1. config \in Config /\ TokensOK /\ CallsOK
  BY DEF FilesOK, TokensOK
<1>2. ASSUME UNCHANGED <<config, tokens, aging>> PROVE TokensOK'
  BY <1>1, <1>2 DEF TokensOK
<1>3. ASSUME UNCHANGED call PROVE CallsOK'
  BY <1>1, <1>3 DEF CallsOK
<1>4. ASSUME NEW u \in Settings, CheckCliAuth(u) PROVE FilesOK'
  <2>1. Refresh(config).read \in Config
    BY <1>1 DEF Refresh
  <2> QED
    BY <1>1, <1>2, <1>4, <2>1, CallMoves DEF CheckCliAuth, FilesOK
<1>5. ASSUME NEW u \in Settings, SubmitOAuthCode(u) \/ SubmitKey(u) PROVE FilesOK'
  <2>1. \A login, verifier, provider :
          /\ [op |-> "code", login |-> login, verifier |-> verifier].op # "refresh"
          /\ [op |-> "key", provider |-> provider].op # "refresh"
    OBVIOUS
  <2>2. PICK x : call' = [call EXCEPT ![u] = x] /\ x.op # "refresh"
    <3>1. CASE SubmitOAuthCode(u)
      <4>1. PICK login \in 1 .. logins :
              call' = [call EXCEPT ![u] = [op |-> "code", login |-> login, verifier |-> pkce]]
        BY <3>1 DEF SubmitOAuthCode
      <4> QED
        BY <2>1, <4>1
    <3>2. CASE SubmitKey(u)
      <4>1. PICK provider \in {"claude", "gpt"} :
              call' = [call EXCEPT ![u] = [op |-> "key", provider |-> provider]]
        BY <3>2 DEF SubmitKey
      <4> QED
        BY <2>1, <4>1
    <3> QED
      BY <1>5, <3>1, <3>2
  <2> QED
    BY <1>1, <1>2, <1>5, <2>2, CallMoves DEF SubmitOAuthCode, SubmitKey, FilesOK
<1>6. ASSUME NEW provider \in {"claude", "gpt"}, SaveSubscription(provider) PROVE FilesOK'
  <2>1. [mode |-> "subscription", key |-> FALSE, error |-> FALSE] \in GptPart
    BY PartFields DEF Modes
  <2>2. /\ [config.claude EXCEPT !.mode = "subscription"] \in ClaudePart
        /\ [config.claude EXCEPT !.mode = "subscription"].token = config.claude.token
    BY <1>1, ConfigFields DEF Modes, ClaudePart
  <2>3. PICK gpt \in GptPart : config' \in {[config EXCEPT !.gpt = gpt],
                                           [config EXCEPT !.claude = [config.claude EXCEPT !.mode = "subscription"]]}
    BY <1>6, <2>1 DEF SaveSubscription
  <2>4. CASE config' = [config EXCEPT !.gpt = gpt]
    <3>1. config' \in Config /\ config'.claude.token = config.claude.token
      BY <1>1, <2>4, ConfigFields
    <3>2. UNCHANGED <<tokens, aging, call>>
      BY <1>6 DEF SaveSubscription
    <3> QED
      BY <1>1, <1>3, <3>1, <3>2 DEF FilesOK, TokensOK
  <2>5. CASE config' = [config EXCEPT !.claude = [config.claude EXCEPT !.mode = "subscription"]]
    <3>1. config' \in Config /\ config'.claude.token = config.claude.token
      BY <1>1, <2>2, <2>5, ConfigFields
    <3>2. UNCHANGED <<tokens, aging, call>>
      BY <1>6 DEF SaveSubscription
    <3> QED
      BY <1>1, <1>3, <3>1, <3>2 DEF FilesOK, TokensOK
  <2> QED
    BY <2>3, <2>4, <2>5
<1>7. ASSUME StartOAuthLogin PROVE FilesOK'
  BY <1>2, <1>3, <1>7 DEF StartOAuthLogin, FilesOK
<1>8. ASSUME ImportGptAuth PROVE FilesOK'
  <2>1. config.gpt \in GptPart
    BY <1>1, ConfigFields
  <2>2. [config.gpt EXCEPT !.error = FALSE] \in GptPart
    BY <2>1, PartFields DEF Modes
  <2>3. PICK gpt \in GptPart : config' = [config EXCEPT !.gpt = gpt]
    BY <1>8, <2>2 DEF ImportGptAuth
  <2>4. config' \in Config /\ config'.claude = config.claude
    BY <1>1, <2>3, ConfigFields
  <2> QED
    BY <1>1, <1>3, <1>8, <2>4 DEF ImportGptAuth, FilesOK, TokensOK
<1>9. ASSUME TokenAges PROVE FilesOK'
  <2>1. config.claude.token \in 1 .. tokens
    BY <1>1, <1>9, ConfigFields DEF TokenAges, TokensOK
  <2> QED
    BY <1>1, <1>3, <1>9, <2>1 DEF TokenAges, FilesOK, TokensOK
<1>10. ASSUME NEW u \in Settings, CheckEnds(u) PROVE FilesOK'
  <2>1. TokensOK'
    BY <1>2, <1>10, RefreshFields DEF CheckEnds, RefreshFails
  <2>2. CallsOK'
    BY <1>1, <1>10, CallMoves DEF CheckEnds, Idle
  <2> QED
    BY <2>1, <2>2 DEF FilesOK
<1>11. ASSUME NEW u \in Settings, CodeAccepted(u) PROVE FilesOK'
  <2>1. tokens' = tokens + 1 /\ tokens' \in 0 .. MaxTokens /\ aging' \subseteq 1 .. tokens'
    BY <1>1, <1>11, AgentConfigAssumption DEF CodeAccepted, TokensOK
  <2>2. \E claude \in ClaudePart : claude.token = tokens' /\ config' = [config EXCEPT !.claude = claude]
    BY <1>11, <2>1, PartFields DEF CodeAccepted, LoginWrites, Modes
  <2>3. config' \in Config /\ config'.claude.token = tokens'
    BY <1>1, <2>2, ConfigFields
  <2>4. CallsOK'
    BY <1>1, <1>11, CallMoves DEF CodeAccepted, Idle
  <2> QED
    BY <2>1, <2>3, <2>4 DEF FilesOK, TokensOK
<1>12. ASSUME NEW u \in Settings, CodeRefused(u) \/ KeyVerified(u) PROVE FilesOK'
  <2>1. 0 \in 0 .. MaxTokens
    BY AgentConfigAssumption
  <2>2. \/ config' = config
        \/ \E gpt \in GptPart : config' = [config EXCEPT !.gpt = gpt]
        \/ \E claude \in ClaudePart : claude.token = 0 /\ config' = [config EXCEPT !.claude = claude]
    BY <1>12, <2>1, PartFields DEF CodeRefused, KeyVerified, Modes
  <2>3. config' \in Config /\ config'.claude.token \in {config.claude.token, 0}
    <3>1. CASE config' = config
      BY <1>1, <3>1
    <3>2. ASSUME NEW gpt \in GptPart, config' = [config EXCEPT !.gpt = gpt]
          PROVE  config' \in Config /\ config'.claude.token = config.claude.token
      BY <1>1, <3>2, ConfigFields
    <3>3. ASSUME NEW claude \in ClaudePart, claude.token = 0, config' = [config EXCEPT !.claude = claude]
          PROVE  config' \in Config /\ config'.claude.token = 0
      BY <1>1, <3>3, ConfigFields
    <3> QED
      BY <2>2, <3>1, <3>2, <3>3
  <2>4. CallsOK'
    BY <1>1, <1>12, CallMoves DEF CodeRefused, KeyVerified, Idle
  <2>5. UNCHANGED <<tokens, aging>>
    BY <1>12 DEF CodeRefused, KeyVerified
  <2> QED
    BY <1>1, <2>1, <2>3, <2>4, <2>5, ConfigFields DEF FilesOK, TokensOK
<1> QED
  BY <1>4, <1>5, <1>6, <1>7, <1>8, <1>9, <1>10, <1>11, <1>12 DEF Edit, Answer

LEMMA FilesStep == FilesOK /\ [Next]_vars => FilesOK'
<1> SUFFICES ASSUME FilesOK, [Next]_vars PROVE FilesOK'
  OBVIOUS
<1>1. CASE UNCHANGED vars
  BY <1>1 DEF vars, FilesOK, TokensOK, CallsOK
<1> QED
  BY <1>1, MeetingFiles, ConfigFiles DEF Next, ConfigNext

-----------------------------------------------------------------------------
(* A step that takes the mark that the GPT subscription has expired. *)

MarkTaken ==
    \/ authFile' # authFile
    \/ config'.gpt.mode = "api_key"
    \/ \E c \in DOMAIN call :
          /\ call[c].op = "refresh" /\ call'[c] # call[c]
          /\ ~call[c].read.gpt.error

LEMMA RefreshTakes ==
  ASSUME FilesOK, NEW c \in Callers \cup Settings, RefreshSucceeds(c), call'[c].op # "refresh", MarkGoes
  PROVE  MarkTaken
<1>1. call[c].op = "refresh" /\ config'.gpt = call[c].read.gpt
  BY RefreshFields
<1>2. ~call[c].read.gpt.error
  BY <1>1 DEF MarkGoes
<1>3. c \in DOMAIN call /\ call'[c] # call[c]
  BY <1>1 DEF FilesOK, CallsOK
<1> QED
  BY <1>1, <1>2, <1>3 DEF MarkTaken

(* What the session awaits after a refresh is not another refresh: the token is new. *)
LEMMA LoopHeadAwaits ==
  ASSUME NEW m \in MeetingType, NEW c, m.at = "auth", c.claude.token \notin aging
  PROVE  LoopHead(m, c).at \notin Resumes
<1>1. CASE Len(m.scores) = Batch \/ m.status # "running"
  <2>1. Complete(m).at = "ended" /\ [m EXCEPT !.at = "ended"].at = "ended"
    BY DEF Complete, MeetingType
  <2> QED
    BY <1>1, <2>1 DEF LoopHead, Resumes
<1>2. CASE Len(m.scores) # Batch /\ m.status = "running"
  <2>1. Ready(m.provider, c) # "refresh"
    BY DEF Ready, GptReady, ClaudeReady
  <2>2. LoopHead(m, c) \in {[m EXCEPT !.at = "chart"], Score(m, "failed")}
    BY <1>2, <2>1 DEF LoopHead, BeginStock
  <2>3. [m EXCEPT !.at = "chart"].at = "chart" /\ Score(m, "failed").at = "persist"
    BY <1>2, ScoreFields DEF MeetingType
  <2> QED
    BY <2>2, <2>3 DEF Resumes
<1> QED
  BY <1>1, <1>2

LEMMA MarkStep == IInv /\ Next /\ MarkGoes => MarkTaken
<1> SUFFICES ASSUME IInv, Next, MarkGoes PROVE MarkTaken
  OBVIOUS
<1>1. /\ MeetingsOK /\ FilesOK /\ config \in Config /\ config.gpt.error /\ ~config'.gpt.error
      /\ DOMAIN call = Callers \cup Settings
  BY DEF IInv, FilesOK, TokensOK, CallsOK, MarkGoes
<1>2. ASSUME config'.gpt = config.gpt PROVE FALSE
  BY <1>1, <1>2
<1>3. ASSUME UNCHANGED config PROVE FALSE
  BY <1>1, <1>3
<1>4. ASSUME NEW s \in Sessions, AuthAnswered(s) PROVE MarkTaken
  <2> DEFINE m == meeting[s]
             n == IF m.at = "auth" THEN LoopHead(m, config') ELSE [m EXCEPT !.at = "chart"]
  <2>1. RefreshSucceeds(s) /\ Becomes(s, n, config')
    BY <1>3, <1>4 DEF AuthAnswered, RefreshFails
  <2>2. s \in Callers \cup Settings /\ m \in MeetingType
    BY <1>1, AiScoringAssumption DEF MeetingsOK, Sound
  <2>3. config'.claude.token \notin aging /\ UNCHANGED aging
    BY <1>1, <2>1, <2>2, RefreshFields
  <2>4. n.at \notin Resumes
    <3>1. CASE m.at = "auth"
      <4>1. config'.claude.token \notin aging
        BY <2>3
      <4>2. LoopHead(m, config').at \notin Resumes
        BY <2>2, <3>1, <4>1, LoopHeadAwaits
      <4> QED
        BY <3>1, <4>2
    <3>2. CASE m.at # "auth"
      BY <2>2, <3>2 DEF MeetingType, Resumes
    <3> QED
      BY <3>1, <3>2
  <2> HIDE DEF n
  <2>5. call'[s] = Idle
    BY <1>1, <2>1, <2>2, <2>4 DEF Becomes
  <2> QED
    BY <1>1, <2>1, <2>2, <2>5, RefreshTakes DEF Idle
<1>5. ASSUME NEW s \in Sessions, ClosedSettles(s) PROVE FALSE
  <2>1. config' \in {config, [config EXCEPT !.gpt.error = TRUE]}
    BY <1>5 DEF ClosedSettles, MarkGptExpired
  <2>2. [config EXCEPT !.gpt.error = TRUE].gpt.error
    BY <1>1 DEF Config
  <2> QED
    BY <1>1, <2>1, <2>2
<1>6. ASSUME NEW p \in Pages, StartAnswered(p) PROVE MarkTaken
  <2>1. RefreshSucceeds(p) /\ StartOrJoin(p, "claude", config')
    BY <1>3, <1>6 DEF StartAnswered, RefreshFails
  <2>2. p \in Callers \cup Settings
    BY AiScoringAssumption
  <2>3. call'[p] = Idle
    <3>1. CASE Running # {}
      BY <1>1, <2>1, <2>2, <3>1 DEF StartOrJoin
    <3>2. CASE Running = {}
      <4> DEFINE s == CHOOSE t \in Fresh : TRUE
      <4>1. s \in Sessions /\ \E x : call' = [call EXCEPT ![p] = Idle, ![s] = x]
        BY <2>1, <3>2 DEF StartOrJoin, StartNew, Fresh
      <4>2. s # p
        BY <4>1, AiScoringAssumption
      <4> HIDE DEF s
      <4> QED
        BY <1>1, <2>2, <4>1, <4>2
    <3> QED
      BY <3>1, <3>2
  <2> QED
    BY <1>1, <2>1, <2>2, <2>3, RefreshTakes DEF Idle
<1>7. ASSUME NEW s \in Sessions,
             ChartRead(s) \/ Persisted(s) \/ RunningSettles(s) \/ AgentCloses(s) \/ OrphanEnds(s)
             \/ CancelArrives(s) \/ Forget(s)
      PROVE  FALSE
  BY <1>3, <1>7 DEF ChartRead, Persisted, RunningSettles, AgentCloses, OrphanEnds, CancelArrives, Forget
<1>8. ASSUME NEW p \in Pages,
             (\E provider \in Providers : StartMeeting(p, provider)) \/ Reload(p) \/ OpenStream(p)
             \/ Poll(p) \/ StreamLost(p) \/ AbortScoring(p)
      PROVE  FALSE
  BY <1>3, <1>8 DEF StartMeeting, Reload, OpenStream, Poll, StreamLost, AbortScoring
<1>9. ASSUME Edit PROVE MarkTaken
  <2>1. ASSUME NEW provider \in {"claude", "gpt"}, SaveSubscription(provider) PROVE FALSE
    <3>1. provider = "claude"
      BY <1>1, <2>1 DEF SaveSubscription, GptLoggedIn
    <3>2. config' = [config EXCEPT !.claude.mode = "subscription"]
      BY <2>1, <3>1 DEF SaveSubscription
    <3> QED
      BY <1>1, <1>2, <3>2 DEF Config
  <2>2. ASSUME ImportGptAuth PROVE authFile' # authFile
    <3>1. authFile' = authFile + 1 /\ authFile < MaxImports
      BY <2>2 DEF ImportGptAuth
    <3> QED
      BY <3>1
  <2>3. ASSUME \/ \E u \in Settings : CheckCliAuth(u) \/ SubmitOAuthCode(u) \/ SubmitKey(u)
               \/ StartOAuthLogin \/ TokenAges
        PROVE  FALSE
    BY <1>3, <2>3 DEF CheckCliAuth, SubmitOAuthCode, SubmitKey, StartOAuthLogin, TokenAges
  <2> QED
    BY <1>9, <2>1, <2>2, <2>3 DEF Edit, MarkTaken
<1>10. ASSUME Answer PROVE MarkTaken
  <2>1. ASSUME NEW u \in Settings, CheckEnds(u) PROVE MarkTaken
    <3>1. RefreshSucceeds(u)
      BY <1>3, <2>1 DEF CheckEnds, RefreshFails
    <3>2. call'[u] = Idle
      BY <1>1, <2>1 DEF CheckEnds
    <3> QED
      BY <1>1, <3>1, <3>2, RefreshTakes DEF Idle
  <2>2. ASSUME NEW u \in Settings, CodeAccepted(u) PROVE FALSE
    <3>1. PICK claude : config' = [config EXCEPT !.claude = claude]
      BY <2>2 DEF CodeAccepted, LoginWrites
    <3> QED
      BY <1>1, <1>2, <3>1 DEF Config
  <2>3. ASSUME NEW u \in Settings, CodeRefused(u) PROVE FALSE
    BY <1>3, <2>3 DEF CodeRefused
  <2>4. ASSUME NEW u \in Settings, KeyVerified(u) PROVE MarkTaken
    <3>1. CASE \E claude : config' = [config EXCEPT !.claude = claude]
      BY <1>1, <1>2, <3>1 DEF Config
    <3>2. CASE config' = [config EXCEPT !.gpt = [mode |-> "api_key", key |-> TRUE, error |-> FALSE]]
      <4>1. [mode |-> "api_key", key |-> TRUE, error |-> FALSE].mode = "api_key"
        OBVIOUS
      <4>2. PICK gpt : gpt.mode = "api_key" /\ config' = [config EXCEPT !.gpt = gpt]
        BY <3>2, <4>1
      <4>3. config'.gpt.mode = "api_key"
        BY <1>1, <4>2 DEF Config
      <4> QED
        BY <4>3 DEF MarkTaken
    <3>3. CASE config' = config
      BY <1>3, <3>3
    <3> QED
      BY <2>4, <3>1, <3>2, <3>3 DEF KeyVerified
  <2> QED
    BY <1>10, <2>1, <2>2, <2>3, <2>4 DEF Answer
<1> QED
  BY <1>4, <1>5, <1>6, <1>7, <1>8, <1>9, <1>10
     DEF Next, Meetings, SessionStep, PageStep, ConfigNext

-----------------------------------------------------------------------------
THEOREM Invariance == Spec => []IInv
<1>1. IInv /\ [Next]_vars => IInv'
  BY MeetingsStep, FilesStep DEF IInv
<1> QED
  BY InitInv, <1>1, PTL DEF Spec

(* A user has at most one running session, for any number of sessions and pages and however the   *)
(* requests of two pages interleave with the answers they wait for.                               *)
(* (startSession, startBackgroundSession)                                                         *)
THEOREM OneSession == Spec => []OneRunningSession
<1>1. IInv => OneRunningSession
  BY DEF IInv, MeetingsOK
<1> QED
  BY Invariance, <1>1, PTL

(* No agent of an aborted session runs or starts, whichever step it was in and whatever failed    *)
(* before.  (spawnClaude, spawnGpt, cancelSession)                                                *)
THEOREM AbortIsFinal == Spec => []AbortStopsAgents
<1>1. IInv => AbortStopsAgents
  BY DEF IInv, MeetingsOK, Sound, AbortStopsAgents
<1> QED
  BY Invariance, <1>1, PTL

(* A page that shows a meeting as scored has every score, for a batch of any size.                *)
(* (streamSession, runSessionInBackground)                                                        *)
THEOREM ScoresAreComplete == Spec => []ScoredPageIsComplete
<1>1. IInv => ScoredPageIsComplete
  <2> SUFFICES ASSUME IInv, NEW p \in Pages, page[p].step = "scored"
               PROVE  /\ page[p].sent = Batch
                      /\ meeting[page[p].on].status = "forgotten" \/ Len(meeting[page[p].on].scores) = Batch
    BY DEF ScoredPageIsComplete
  <2>1. PageOK(p) /\ Sound(meeting[page[p].on])
    BY DEF IInv, MeetingsOK, PageOK
  <2> QED
    BY <2>1 DEF PageOK, Sound
<1> QED
  BY Invariance, <1>1, PTL

(* The mark of an expired GPT subscription goes only with a new auth.json, a key, or a refresh    *)
(* that had read the configuration before the mark, for any number of waiting operations.         *)
(* (refreshOAuthToken, submitOAuthCode, markGptSubscriptionExpired)                               *)
THEOREM MarkIsKept == Spec => ExpiryMarkKept
<1>1. IInv /\ [Next]_vars => [MarkGoes => MarkTaken]_configVars
  BY MarkStep DEF vars, configVars
<1> QED
  BY Invariance, <1>1, PTL DEF Spec, ExpiryMarkKept, MarkTaken
=============================================================================
