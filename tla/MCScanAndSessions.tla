--------------------------- MODULE MCScanAndSessions ---------------------------
(* What a scan selects, and what becomes of it among the sessions.  The two share no state: a        *)
(* behaviour is one of the studies of BacktestService, or one of the sessions.                       *)
(*                                                                                                   *)
(* The sessions: one sector that two stocks share and one cluster that two share, a stock that is    *)
(* too dear for the smaller cash, and room for two sessions.                                         *)
EXTENDS MCBacktestService, SessionRegistry, TLC

VARIABLE study      \* "market" or "sessions"

CONSTANTS a, b, c
MCSector == a :> "x" @@ b :> "x" @@ c :> NoSector
MCCluster == a :> NoSector @@ b :> "k" @@ c :> "k"
MCPrice == a :> 1 @@ b :> 2 @@ c :> 3
MCVolatility == a :> 1 @@ b :> 4 @@ c :> 2
MCRegimes == {[on |-> TRUE, slots |-> 150, amount |-> 150, clusters |-> TRUE],
              [on |-> TRUE, slots |-> 20, amount |-> 50, clusters |-> TRUE]}

(* A row is named by an id that is only compared, so of two rows that are swapped one is enough; with  *)
(* two that are stopped only a start is left, which one shows as well.                                *)
EitherRow == MCPrice[row[1].stock] <= MCPrice[row[2].stock] /\ \E i \in Taken : row[i].status # "stopped"

marketVars == <<vars, simulationVars>>

(* The study that is not looked at stands at one of its initial states. *)
NoRegistry == row = [i \in Ids |-> NoRow] /\ cmd = [w \in Writers |-> NoCommand] /\ scan = NoScan /\ commands = 0

StudyInit ==
    \/ study = "market" /\ MCInit /\ NoRegistry
    \/ study = "sessions" /\ MCInit /\ setting = Simulation /\ cfg = Plain /\ regimeFile.label = "none"
       /\ RegistryInit /\ EitherRow

(* The page gives its command once the scan has begun: FindStale changes no row, so that a command   *)
(* under way before it is as good as one right after it, and one that has ended left rows like those  *)
(* at the start.                                                                                      *)
StudyNext ==
    \/ study = "market" /\ MCNext /\ UNCHANGED <<registryVars, study>>
    \/ study = "sessions" /\ RegistryNext /\ (scan.at = "off" => commands' = commands)
       /\ UNCHANGED <<marketVars, study>>

StudySpec == StudyInit /\ [][StudyNext]_<<marketVars, registryVars, study>>
================================================================================
