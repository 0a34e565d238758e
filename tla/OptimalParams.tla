---------------------------- MODULE OptimalParams ----------------------------
(***************************************************************************)
(* The take-profit and stop-loss a scan works with: a grid search chooses  *)
(* a pair and saves it in a file, readers see it through a cache of one    *)
(* minute.  Nothing orders the searches, the weekly one and those a user   *)
(* starts, or keeps a reader from the file while it is written.            *)
(*                                                                         *)
(* A saved value is the number of its search; 0 is the default, which a    *)
(* reader gets when the file is missing, which is 0, or cannot be parsed,  *)
(* which is Torn.  File operations take milliseconds, so time passes       *)
(* between them only.                                                      *)
(***************************************************************************)
EXTENDS Integers, Sequences, FiniteSets, FiniteSetsExt

CONSTANTS
    Searchers,    \* who runs grid searches: the weekly job, a user
    Readers,      \* who asks for the pair
    Ttl,          \* CACHE_TTL_MS in ticks
    PointSets,    \* outcomes of a grid search: sets of points [tp, sl, sampled, median, profitable, mdd]
    MaxSaves      \* bound: searches that save

ASSUME OptimalParamsAssumption ==
    /\ Ttl \in Nat \ {0} /\ MaxSaves \in Nat
    /\ \A points \in PointSets : points # {}

VARIABLES
    file,         \* what data/optimal_params.json holds
    cached,       \* cached and cachedAt: [value, age], with value 0 for null
    searching,    \* searcher -> [pc, value]
    reading,      \* reader -> [pc, value]
    saved,        \* number -> its pair and the time since its save returned, [pair, age]
    superseded    \* pairs <<v, k>>: the save of v had returned when the one of k began

paramsVars == <<file, cached, searching, reading, saved, superseded>>

Torn == -1
Idle == [pc |-> "idle", value |-> 0]

(* 2.0 and -2.0 percent. *)
DefaultPair == [tp |-> 20, sl |-> -20]

ParamsInit ==
    /\ file = 0
    /\ cached = [value |-> 0, age |-> 0]
    /\ searching = [s \in Searchers |-> Idle]
    /\ reading = [r \in Readers |-> Idle]
    /\ saved = <<>>
    /\ superseded = {}

PairOf(value) == IF value = 0 THEN DefaultPair ELSE saved[value].pair

-----------------------------------------------------------------------------
(* Grid search. *)

(* medianReturn * profitableProp - avgMaxDrawdown * 0.3; a point that no stock passed has score 0. *)
Score(point) ==
    IF point.sampled = 0 THEN 0
    ELSE (10 * point.median * point.profitable) \div point.sampled - 3 * point.mdd

Best(points) == CHOOSE point \in points : \A other \in points : Score(other) <= Score(point)

(* gridSearchOptimalTpSl up to the save. *)
Search(s, points) ==
    LET number == Len(saved) + 1
    IN  /\ searching[s] = Idle
        /\ Len(saved) < MaxSaves
        /\ searching' = [searching EXCEPT ![s] = [pc |-> "open", value |-> number]]
        /\ saved' = Append(saved, [pair |-> [tp |-> Best(points).tp, sl |-> Best(points).sl], age |-> -1])
        /\ UNCHANGED <<file, cached, reading, superseded>>

(* writeFile opens the file and truncates it, *)
OpenFile(s) ==
    /\ searching[s].pc = "open"
    /\ searching' = [searching EXCEPT ![s].pc = "write"]
    /\ superseded' = superseded \cup {<<v, searching[s].value>> :
                                       v \in {k \in DOMAIN saved : saved[k].age >= 0}}
    /\ file' = Torn
    /\ UNCHANGED <<cached, reading, saved>>

(* and then writes it: over what another search has written meanwhile, whose end may remain. *)
WriteFile(s) ==
    /\ searching[s].pc = "write"
    /\ searching' = [searching EXCEPT ![s].pc = "cache"]
    /\ file' \in {searching[s].value} \cup (IF file = Torn THEN {} ELSE {Torn})
    /\ UNCHANGED <<cached, reading, saved, superseded>>

CacheSaved(s) ==
    /\ searching[s].pc = "cache"
    /\ cached' = [value |-> searching[s].value, age |-> 0]
    /\ saved' = [saved EXCEPT ![searching[s].value].age = 0]
    /\ searching' = [searching EXCEPT ![s] = Idle]
    /\ UNCHANGED <<file, reading, superseded>>

-----------------------------------------------------------------------------
(* Readers. *)

Parsed == IF file = Torn THEN 0 ELSE file

(* Mutant: a hit renews the time of the cache. *)
CacheHitRenewing(r) ==
    /\ cached.value # 0 /\ cached.age < Ttl
    /\ reading' = [reading EXCEPT ![r] = [pc |-> "answered", value |-> cached.value]]
    /\ cached' = [cached EXCEPT !.age = 0]

(* read: what is cached and young enough is answered; null is never cached. *)
CacheHit(r) ==
    /\ cached.value # 0 /\ cached.age < Ttl
    /\ reading' = [reading EXCEPT ![r] = [pc |-> "answered", value |-> cached.value]]
    /\ UNCHANGED cached

CacheMiss(r) ==
    /\ cached.value = 0 \/ cached.age >= Ttl
    /\ reading' = [reading EXCEPT ![r] = [pc |-> "file", value |-> 0]]
    /\ UNCHANGED cached

Ask(r) ==
    /\ reading[r].pc = "idle"
    /\ CacheHit(r) \/ CacheMiss(r)
    /\ UNCHANGED <<file, searching, saved, superseded>>

ReadFile(r) ==
    /\ reading[r].pc = "file"
    /\ reading' = [reading EXCEPT ![r] = [pc |-> "parsed", value |-> Parsed]]
    /\ UNCHANGED <<file, cached, searching, saved, superseded>>

CacheRead(r) ==
    /\ reading[r].pc = "parsed"
    /\ cached' = [value |-> reading[r].value, age |-> 0]
    /\ reading' = [reading EXCEPT ![r].pc = "answered"]
    /\ UNCHANGED <<file, searching, saved, superseded>>

Answered(r) == reading[r].pc = "answered"

Release(r) == reading' = [reading EXCEPT ![r] = Idle]

-----------------------------------------------------------------------------
Older(age) == IF age < 0 \/ age = Ttl THEN age ELSE age + 1

ParamsTick ==
    /\ \A s \in Searchers : searching[s].pc \in {"idle", "open"}
    /\ \A r \in Readers : reading[r].pc \in {"idle", "answered"}
    /\ cached' = [cached EXCEPT !.age = Older(@)]
    /\ saved' = [k \in DOMAIN saved |-> [saved[k] EXCEPT !.age = Older(@)]]
    /\ UNCHANGED <<file, searching, reading, superseded>>

ParamsNext ==
    \/ \E s \in Searchers, points \in PointSets : Search(s, points)
    \/ \E s \in Searchers : OpenFile(s) \/ WriteFile(s) \/ CacheSaved(s)
    \/ \E r \in Readers : Ask(r) \/ ReadFile(r) \/ CacheRead(r)
    \/ ParamsTick

-----------------------------------------------------------------------------
(* The 60-second cache of optimal-params.service: a pair can be answered from the cache for a minute *)
(* after it was replaced, because a reader that met the save puts the old pair back, but no longer:   *)
(* once a later save has returned a minute ago nobody is answered the pair of an earlier one.         *)
FreshWithinTtl ==
    \A k \in DOMAIN saved :
        saved[k].age = Ttl /\ cached.age < Ttl => <<cached.value, k>> \notin superseded
=============================================================================
