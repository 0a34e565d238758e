---------------------------- MODULE AgentConfig ----------------------------
(***************************************************************************)
(* The credentials of the AI agents: config.json with its claude and gpt   *)
(* part, the credential file of the Claude CLI and the auth.json of Codex. *)
(* The service reads and writes the files at once, but three operations    *)
(* wait for an answer between: refreshing the OAuth token, exchanging a    *)
(* login code for a token and verifying an API key.                        *)
(*                                                                         *)
(* Tokens, logins and imported auth files are numbered in the order they   *)
(* come into being.                                                        *)
(***************************************************************************)
EXTENDS Naturals, FiniteSets

CONSTANTS
    Callers,    \* who may wait for a token refresh: meetings, their starters ...
    Settings,   \* ... and the settings page
    MaxTokens,  \* bound: OAuth tokens issued, logins started
    MaxImports, \* bound: auth.json files imported
    MaxEdits    \* bound: operations of the settings page, and tokens that age

ASSUME AgentConfigAssumption ==
    /\ MaxTokens \in Nat \ {0}
    /\ MaxImports \in Nat \ {0}
    /\ MaxEdits \in Nat
    /\ Callers \cap Settings = {}

VARIABLES
    config,   \* config.json
    cred,     \* token in ~/.claude/.credentials.json
    authFile, \* number of the imported auth.json, 0: none
    pkce,     \* number of the login whose verifier is in memory, 0: none
    logins,   \* logins started
    tokens,   \* tokens issued
    aging,    \* tokens expired or about to
    call,     \* operations waiting for an answer
    edits     \* operations of the settings page so far

configVars == <<config, cred, authFile, pkce, logins, tokens, aging, call, edits>>

Modes == {"none", "api_key", "subscription"}

Config == [claude: [mode: Modes, key: BOOLEAN, token: 0 .. MaxTokens],
           gpt: [mode: Modes, key: BOOLEAN, error: BOOLEAN]]

Idle == [op |-> "idle"]

Calls == {Idle}
    \cup [op: {"refresh"}, read: Config]
    \cup [op: {"code"}, login: 1 .. MaxTokens, verifier: 1 .. MaxTokens]
    \cup [op: {"key"}, provider: {"claude", "gpt"}]

ConfigInit ==
    /\ config \in {[claude |-> [mode |-> "subscription", key |-> FALSE, token |-> 1],
                    gpt |-> [mode |-> "subscription", key |-> FALSE, error |-> FALSE]],
                   [claude |-> [mode |-> "api_key", key |-> TRUE, token |-> 0],
                    gpt |-> [mode |-> "api_key", key |-> TRUE, error |-> FALSE]]}
    /\ cred = config.claude.token
    /\ authFile = 1
    /\ pkce = 1
    /\ logins = 1
    /\ tokens = config.claude.token
    /\ aging \in SUBSET (1 .. tokens)
    /\ call = [c \in Callers \cup Settings |-> Idle]
    /\ edits = 0

(***************************************************************************)
(* Readiness                                                               *)
(***************************************************************************)

(* ensureValidOAuthToken, for a configuration c: ready, not ready, or a refresh must be awaited. *)
ClaudeReady(c) ==
    IF c.claude.mode # "subscription" THEN IF c.claude.key THEN "yes" ELSE "no"
    ELSE IF c.claude.token = 0 THEN "no"
    ELSE IF c.claude.token \in aging THEN "refresh" ELSE "yes"

(* checkGptCliAuth: the subscription counts as logged in unless it is marked as broken. *)
GptLoggedIn(c) == ~c.gpt.error /\ authFile # 0

GptReady(c) ==
    IF (IF c.gpt.mode = "subscription" THEN GptLoggedIn(c) ELSE c.gpt.key) THEN "yes" ELSE "no"

(* ensureProviderReady. *)
Ready(provider, c) == IF provider = "gpt" THEN GptReady(c) ELSE ClaudeReady(c)

(***************************************************************************)
(* Refreshing a token.  The whole configuration is read before the request *)
(* and written back, with the new token, after the answer.                 *)
(***************************************************************************)

Refresh(c) == [op |-> "refresh", read |-> c]

RefreshWrites(c, token) == [call[c].read EXCEPT !.claude.token = token]

RefreshSucceeds(c) ==
    /\ call[c].op = "refresh"
    /\ tokens < MaxTokens
    /\ tokens' = tokens + 1
    /\ config' = RefreshWrites(c, tokens')
    /\ cred' = tokens'
    /\ UNCHANGED <<authFile, pkce, logins, aging>>

RefreshFails(c) ==
    /\ call[c].op = "refresh"
    /\ UNCHANGED <<config, cred, authFile, pkce, logins, tokens, aging>>

(* checkCliAuth: looking at the login status refreshes a token that has expired. *)
CheckCliAuth(u) ==
    /\ call[u] = Idle
    /\ config.claude.mode = "subscription"
    /\ config.claude.token \in aging
    /\ call' = [call EXCEPT ![u] = Refresh(config)]
    /\ UNCHANGED <<config, cred, authFile, pkce, logins, tokens, aging>>

CheckEnds(u) ==
    /\ RefreshSucceeds(u) \/ RefreshFails(u)
    /\ call' = [call EXCEPT ![u] = Idle]

(***************************************************************************)
(* Logging in                                                              *)
(***************************************************************************)

(* A second login replaces the verifier of the first. *)
StartOAuthLogin ==
    /\ logins < MaxTokens
    /\ logins' = logins + 1
    /\ pkce' = logins'
    /\ UNCHANGED <<config, cred, authFile, tokens, aging, call>>

SubmitOAuthCode(u) ==
    \E login \in 1 .. logins :
        /\ call[u] = Idle
        /\ pkce # 0
        /\ call' = [call EXCEPT ![u] = [op |-> "code", login |-> login, verifier |-> pkce]]
        /\ UNCHANGED <<config, cred, authFile, pkce, logins, tokens, aging>>

(* The configuration is read again after the answer; the verifier is dropped, even a newer one. *)
LoginWrites(token) ==
    [config EXCEPT !.claude = [mode |-> "subscription", key |-> FALSE, token |-> token]]

CodeAccepted(u) ==
    /\ call[u].op = "code"
    /\ call[u].login = call[u].verifier
    /\ tokens < MaxTokens
    /\ tokens' = tokens + 1
    /\ config' = LoginWrites(tokens')
    /\ cred' = tokens'
    /\ pkce' = 0
    /\ call' = [call EXCEPT ![u] = Idle]
    /\ UNCHANGED <<authFile, logins, aging>>

CodeRefused(u) ==
    /\ call[u].op = "code"
    /\ call' = [call EXCEPT ![u] = Idle]
    /\ UNCHANGED <<config, cred, authFile, pkce, logins, tokens, aging>>

(***************************************************************************)
(* Saving the configuration                                                *)
(***************************************************************************)

(* Mutant: the subscription is saved without a look at the login. *)
SaveUnchecked(provider) ==
    /\ config' = IF provider = "gpt"
                 THEN [config EXCEPT !.gpt = [mode |-> "subscription", key |-> FALSE, error |-> FALSE]]
                 ELSE [config EXCEPT !.claude.mode = "subscription"]
    /\ UNCHANGED <<cred, authFile, pkce, logins, tokens, aging, call>>

(* Saving the GPT subscription asks for a login that works. *)
SaveSubscription(provider) ==
    /\ provider = "gpt" => GptLoggedIn(config)
    /\ config' = IF provider = "gpt"
                 THEN [config EXCEPT !.gpt = [mode |-> "subscription", key |-> FALSE, error |-> FALSE]]
                 ELSE [config EXCEPT !.claude.mode = "subscription"]
    /\ UNCHANGED <<cred, authFile, pkce, logins, tokens, aging, call>>

SubmitKey(u) ==
    \E provider \in {"claude", "gpt"} :
        /\ call[u] = Idle
        /\ call' = [call EXCEPT ![u] = [op |-> "key", provider |-> provider]]
        /\ UNCHANGED <<config, cred, authFile, pkce, logins, tokens, aging>>

(* The verified key replaces the provider's part; an invalid one changes nothing. *)
KeyVerified(u) ==
    /\ call[u].op = "key"
    /\ call' = [call EXCEPT ![u] = Idle]
    /\ \/ config' = config
       \/ config' = IF call[u].provider = "gpt"
                    THEN [config EXCEPT !.gpt = [mode |-> "api_key", key |-> TRUE, error |-> FALSE]]
                    ELSE [config EXCEPT !.claude = [mode |-> "api_key", key |-> TRUE, token |-> 0]]
    /\ UNCHANGED <<cred, authFile, pkce, logins, tokens, aging>>

(* importGptAuthJson writes the file and clears the error mark. *)
ImportGptAuth ==
    /\ authFile < MaxImports
    /\ authFile' = authFile + 1
    /\ config' = [config EXCEPT !.gpt.error = FALSE]
    /\ UNCHANGED <<cred, pkce, logins, tokens, aging, call>>

(* markGptSubscriptionExpired. *)
MarkGptExpired(c) ==
    IF c.gpt.mode = "subscription" THEN [c EXCEPT !.gpt.error = TRUE] ELSE c

TokenAges ==
    /\ config.claude.token # 0
    /\ aging' = aging \cup {config.claude.token}
    /\ UNCHANGED <<config, cred, authFile, pkce, logins, tokens, call>>

(* What the settings page starts, and the passing of time. *)
Edit ==
    \/ \E u \in Settings : CheckCliAuth(u) \/ SubmitOAuthCode(u) \/ SubmitKey(u)
    \/ \E provider \in {"claude", "gpt"} : SaveSubscription(provider)
    \/ StartOAuthLogin
    \/ ImportGptAuth
    \/ TokenAges

Answer == \E u \in Settings : CheckEnds(u) \/ CodeAccepted(u) \/ CodeRefused(u) \/ KeyVerified(u)

ConfigNext ==
    \/ edits < MaxEdits /\ edits' = edits + 1 /\ Edit
    \/ Answer /\ UNCHANGED edits

(* The mark that the GPT subscription has expired goes only when a new auth.json or a key is     *)
(* saved, or when a token refresh that read the configuration before the mark writes it back.    *)
(* (refreshOAuthToken, submitOAuthCode, markGptSubscriptionExpired)                               *)
MarkGoes == config.gpt.error /\ ~config'.gpt.error

ExpiryMarkKept ==
    [][MarkGoes =>
          \/ authFile' # authFile
          \/ config'.gpt.mode = "api_key"
          \/ \E c \in DOMAIN call :
                /\ call[c].op = "refresh" /\ call'[c] # call[c]
                /\ ~call[c].read.gpt.error]_configVars

=============================================================================
