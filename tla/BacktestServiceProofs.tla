----------------------- MODULE BacktestServiceProofs -----------------------
(***************************************************************************)
(* Theorems about BacktestService for any stocks, prices, searches,        *)
(* readers, settings and configurations.  Of MarketScan: how long a        *)
(* replaced pair is answered, what the bands of the market regime are good *)
(* for, that the windows of the walk-forward check are sound for any       *)
(* number of candles, that the best variants and stocks are chosen, and    *)
(* that clusters are what correlations connect.  Of Backtest: that sales   *)
(* are at prices of the day, that the books balance, and that the live     *)
(* engine sells the same.                                                  *)
(***************************************************************************)
EXTENDS BacktestService, SequenceTheorems, FiniteSetTheorems, WellFoundedInduction, TLAPS

(***************************************************************************)
(* The pair.  The strengthening says that what the file holds is never     *)
(* superseded, that a reader which has parsed it is overtaken only by a    *)
(* save of this very moment, and that the cache is at least as old as any  *)
(* save that superseded its value.                                         *)
(***************************************************************************)
Numbers == 1 .. Len(saved)
IsTask(x) == x = [pc |-> x.pc, value |-> x.value]
IsSaved(x) == x = [pair |-> x.pair, age |-> x.age] /\ x.age \in -1 .. Ttl

SavedOK ==
    /\ saved \in Seq({saved[k] : k \in Numbers}) /\ Len(saved) \in Nat
    /\ \A k \in Numbers : IsSaved(saved[k])

TasksOK ==
    /\ searching = [s \in Searchers |-> searching[s]] /\ \A s \in Searchers : IsTask(searching[s])
    /\ reading = [r \in Readers |-> reading[r]] /\ \A r \in Readers : IsTask(reading[r])
    /\ cached = [value |-> cached.value, age |-> cached.age] /\ cached.age \in 0 .. Ttl

Busy(s) == searching[s].pc \in {"open", "write", "cache"}

SearchesOK ==
    /\ \A s \in Searchers : Busy(s) => searching[s].value \in Numbers /\ saved[searching[s].value].age = -1
    /\ \A s, t \in Searchers : Busy(s) /\ Busy(t) /\ s # t => searching[s].value # searching[t].value

SupersededOK ==
    \A v, k : <<v, k>> \in superseded => v \in Numbers /\ k \in Numbers /\ saved[v].age >= 0

FileIsLast == \A k : <<file, k>> \notin superseded

ParsedIsRecent ==
    \A r \in Readers : reading[r].pc = "parsed" =>
        \A k : <<reading[r].value, k>> \in superseded => saved[k].age <= 0

CacheIsOlder ==
    \A k : <<cached.value, k>> \in superseded => saved[k].age <= cached.age

PairInv ==
    /\ SavedOK /\ TasksOK /\ SearchesOK /\ SupersededOK
    /\ FileIsLast /\ ParsedIsRecent /\ CacheIsOlder

-----------------------------------------------------------------------------
LEMMA PairInit == Init => PairInv
<1> SUFFICES ASSUME Init PROVE PairInv
  OBVIOUS
<1>1. saved = <<>> /\ superseded = {}
  BY DEF Init, ParamsInit
<1>2. SavedOK
  BY <1>1 DEF SavedOK, Numbers
<1>3. TasksOK /\ \A s \in Searchers : ~Busy(s)
  <2>1. IsTask(Idle) /\ Idle.pc = "idle"
    BY DEF IsTask, Idle
  <2>2. /\ searching = [s \in Searchers |-> Idle] /\ reading = [r \in Readers |-> Idle]
        /\ cached = [value |-> 0, age |-> 0]
    BY DEF Init, ParamsInit
  <2> HIDE DEF Idle
  <2>3. cached.age \in 0 .. Ttl
    BY <2>2, OptimalParamsAssumption
  <2> QED
    BY <2>1, <2>2, <2>3 DEF TasksOK, Busy
<1> QED
  BY <1>1, <1>2, <1>3
     DEF PairInv, SearchesOK, SupersededOK, FileIsLast, ParsedIsRecent, CacheIsOlder

(* Release, and every step that has nothing to do with the pair. *)
LEMMA PairStays ==
  ASSUME PairInv, UNCHANGED <<file, cached, searching, saved, superseded>>,
         reading' = reading \/ \E r \in Readers : Release(r)
  PROVE  PairInv'
<1>1. SavedOK' /\ SearchesOK' /\ SupersededOK' /\ FileIsLast' /\ CacheIsOlder'
  BY DEF PairInv, SavedOK, SearchesOK, SupersededOK, FileIsLast, CacheIsOlder, Numbers, Busy
<1>2. CASE reading' = reading
  BY <1>1, <1>2 DEF PairInv, TasksOK, ParsedIsRecent
<1>3. ASSUME NEW r \in Readers, Release(r) PROVE TasksOK' /\ ParsedIsRecent'
  <2>1. IsTask(Idle) /\ Idle.pc = "idle"
    BY DEF IsTask, Idle
  <2>2. /\ reading' = [q \in Readers |-> reading'[q]]
        /\ \A q \in Readers : reading'[q] = IF q = r THEN Idle ELSE reading[q]
    BY <1>3 DEF Release, PairInv, TasksOK
  <2>3. TasksOK'
    BY <2>1, <2>2 DEF PairInv, TasksOK
  <2>4. ParsedIsRecent'
    BY <2>1, <2>2 DEF PairInv, ParsedIsRecent
  <2> QED
    BY <2>3, <2>4
<1> QED
  BY <1>1, <1>2, <1>3 DEF PairInv

(* A step of one search that saves nothing new and lets no time pass. *)
LEMMA TaskMoves ==
  ASSUME PairInv, NEW s \in Searchers, NEW x, IsTask(x), searching' = [searching EXCEPT ![s] = x]
  PROVE  /\ searching' = [t \in Searchers |-> searching'[t]]
         /\ \A t \in Searchers : searching'[t] = IF t = s THEN x ELSE searching[t]
         /\ \A t \in Searchers : IsTask(searching'[t])
  BY DEF PairInv, TasksOK

LEMMA SeqOfItsElements ==
  ASSUME NEW S, NEW q \in Seq(S)
  PROVE  q \in Seq({q[k] : k \in 1 .. Len(q)})
<1> DEFINE U == {q[k] : k \in 1 .. Len(q)}
<1>1. Len(q) \in Nat /\ q = [k \in 1 .. Len(q) |-> q[k]]
  OBVIOUS
<1>2. \A k \in 1 .. Len(q) : q[k] \in U
  OBVIOUS
<1> HIDE DEF U
<1>3. q \in [1 .. Len(q) -> U]
  BY <1>1, <1>2
<1>4. q \in Seq(U)
  BY <1>1, <1>3, SeqDef
<1> QED
  BY <1>4 DEF U

LEMMA SearchPair ==
  ASSUME PairInv, NEW s \in Searchers, NEW points \in PointSets, Search(s, points)
  PROVE  PairInv'
<1> DEFINE n == Len(saved) + 1
           x == [pc |-> "open", value |-> n]
           p == [tp |-> Best(points).tp, sl |-> Best(points).sl]
           new == [pair |-> p, age |-> -1]
           S == {saved[k] : k \in Numbers}
           T == S \cup {new}
<1>1. /\ searching[s] = Idle /\ searching' = [searching EXCEPT ![s] = x] /\ saved' = Append(saved, new)
      /\ UNCHANGED <<file, cached, reading, superseded>>
  BY DEF Search
<1>2. IsTask(x) /\ x.pc = "open" /\ x.value = n
  BY DEF IsTask
<1>3. IsSaved(new) /\ new.age = -1
  <2>1. new = [pair |-> new.pair, age |-> new.age] /\ new.age = -1
    OBVIOUS
  <2> HIDE DEF new
  <2> QED
    BY <2>1, OptimalParamsAssumption DEF IsSaved
<1> HIDE DEF x, new
<1>4. /\ Len(saved') = n /\ n \in Nat /\ saved' \in Seq(T)
      /\ \A k \in Numbers : saved'[k] = saved[k]
      /\ saved'[n] = new /\ Numbers' = Numbers \cup {n} /\ n \notin Numbers
  <2>1. saved \in Seq(S) /\ Len(saved) \in Nat
    BY DEF PairInv, SavedOK
  <2> HIDE DEF S
  <2>2. saved \in Seq(T)
    BY <2>1
  <2> HIDE DEF T
  <2>3. new \in T
    BY DEF T
  <2>4. Len(saved') = n /\ saved' \in Seq(T) /\ saved'[n] = new /\ \A k \in 1 .. Len(saved) : saved'[k] = saved[k]
    BY <1>1, <2>1, <2>2, <2>3, AppendProperties
  <2> QED
    BY <2>1, <2>4 DEF Numbers
<1>5. SavedOK'
  <2>1. saved' \in Seq({saved'[k] : k \in Numbers'})
    BY <1>4, SeqOfItsElements DEF Numbers
  <2> QED
    BY <1>3, <1>4, <2>1 DEF PairInv, SavedOK
<1>6. /\ searching' = [t \in Searchers |-> searching'[t]]
      /\ \A t \in Searchers : searching'[t] = IF t = s THEN x ELSE searching[t]
      /\ \A t \in Searchers : IsTask(searching'[t])
  BY <1>1, <1>2, TaskMoves
<1>7. TasksOK'
  BY <1>1, <1>6 DEF PairInv, TasksOK
<1>8. SearchesOK'
  BY <1>2, <1>3, <1>4, <1>6 DEF PairInv, SearchesOK, Busy
<1>9. SupersededOK' /\ FileIsLast' /\ ParsedIsRecent' /\ CacheIsOlder'
  BY <1>1, <1>4 DEF PairInv, SupersededOK, FileIsLast, ParsedIsRecent, CacheIsOlder
<1> QED
  BY <1>5, <1>7, <1>8, <1>9 DEF PairInv

LEMMA OpenPair ==
  ASSUME PairInv, NEW s \in Searchers, OpenFile(s)
  PROVE  PairInv'
<1> DEFINE n == searching[s].value
           y == searching[s]
           x == [y EXCEPT !.pc = "write"]
<1>1. /\ searching' = [searching EXCEPT ![s] = x] /\ file' = Torn /\ y.pc = "open"
      /\ UNCHANGED <<cached, reading, saved>>
      /\ superseded' = superseded \cup {<<v, n>> : v \in {k \in DOMAIN saved : saved[k].age >= 0}}
  BY DEF OpenFile
<1>2. IsTask(x) /\ x.pc = "write" /\ x.value = n
  <2>1. y = [pc |-> y.pc, value |-> y.value]
    BY DEF PairInv, TasksOK, IsTask
  <2>2. x = [pc |-> "write", value |-> y.value]
    BY <2>1
  <2> HIDE DEF x, y
  <2>3. IsTask(x) /\ x.pc = "write" /\ x.value = y.value
    BY <2>2 DEF IsTask
  <2> QED
    BY <2>3 DEF y
<1>3. n \in Numbers /\ saved[n].age = -1 /\ DOMAIN saved = Numbers /\ Numbers' = Numbers /\ Numbers \subseteq Nat
  <2>1. DOMAIN saved = 1 .. Len(saved)
    BY DEF PairInv, SavedOK
  <2> QED
    BY <1>1, <2>1 DEF PairInv, SearchesOK, Busy, Numbers
<1>4. /\ searching' = [t \in Searchers |-> searching'[t]]
      /\ \A t \in Searchers : searching'[t] = IF t = s THEN x ELSE searching[t]
      /\ \A t \in Searchers : IsTask(searching'[t])
  BY <1>1, <1>2, TaskMoves
<1>5. \A v, k : <<v, k>> \in superseded' <=> \/ <<v, k>> \in superseded
                                             \/ k = n /\ v \in Numbers /\ saved[v].age >= 0
  BY <1>1, <1>3
<1> HIDE DEF n, x, y
<1>6. SavedOK' /\ TasksOK'
  BY <1>1, <1>4 DEF PairInv, SavedOK, TasksOK, Numbers
<1>7. SearchesOK'
  BY <1>1, <1>2, <1>3, <1>4 DEF PairInv, SearchesOK, Busy, n, y
<1>8. SupersededOK'
  BY <1>1, <1>3, <1>5 DEF PairInv, SupersededOK
<1>9. FileIsLast'
  BY <1>1, <1>3, <1>8 DEF SupersededOK, FileIsLast, Torn
<1>10. ParsedIsRecent'
  BY <1>1, <1>3, <1>5 DEF PairInv, ParsedIsRecent
<1>11. CacheIsOlder'
  BY <1>1, <1>3, <1>5 DEF PairInv, CacheIsOlder, TasksOK
<1> QED
  BY <1>6, <1>7, <1>8, <1>9, <1>10, <1>11 DEF PairInv

LEMMA WritePair ==
  ASSUME PairInv, NEW s \in Searchers, WriteFile(s)
  PROVE  PairInv'
<1> DEFINE n == searching[s].value
           y == searching[s]
           x == [y EXCEPT !.pc = "cache"]
<1>1. /\ searching' = [searching EXCEPT ![s] = x] /\ y.pc = "write"
      /\ UNCHANGED <<cached, reading, saved, superseded>>
      /\ file' \in {n, Torn}
  BY DEF WriteFile
<1>2. IsTask(x) /\ x.pc = "cache" /\ x.value = n
  <2>1. y = [pc |-> y.pc, value |-> y.value]
    BY DEF PairInv, TasksOK, IsTask
  <2>2. x = [pc |-> "cache", value |-> y.value]
    BY <2>1
  <2> HIDE DEF x, y
  <2>3. IsTask(x) /\ x.pc = "cache" /\ x.value = y.value
    BY <2>2 DEF IsTask
  <2> QED
    BY <2>3 DEF y
<1>3. n \in Numbers /\ saved[n].age = -1 /\ Numbers' = Numbers /\ Numbers \subseteq Nat
  BY <1>1 DEF PairInv, SearchesOK, Busy, Numbers, SavedOK
<1>4. /\ searching' = [t \in Searchers |-> searching'[t]]
      /\ \A t \in Searchers : searching'[t] = IF t = s THEN x ELSE searching[t]
      /\ \A t \in Searchers : IsTask(searching'[t])
  BY <1>1, <1>2, TaskMoves
<1> HIDE DEF n, x, y
<1>5. SavedOK' /\ TasksOK'
  BY <1>1, <1>4 DEF PairInv, SavedOK, TasksOK, Numbers
<1>6. SearchesOK'
  BY <1>1, <1>2, <1>3, <1>4 DEF PairInv, SearchesOK, Busy, n, y
<1>7. FileIsLast'
  BY <1>1, <1>3 DEF PairInv, SupersededOK, FileIsLast, Torn
<1>8. SupersededOK' /\ ParsedIsRecent' /\ CacheIsOlder'
  BY <1>1, <1>3 DEF PairInv, SupersededOK, ParsedIsRecent, CacheIsOlder
<1> QED
  BY <1>5, <1>6, <1>7, <1>8 DEF PairInv

LEMMA SavePair ==
  ASSUME PairInv, NEW s \in Searchers, CacheSaved(s)
  PROVE  PairInv'
<1> DEFINE n == searching[s].value
           y == saved[n]
           x == [y EXCEPT !.age = 0]
           c == [value |-> n, age |-> 0]
<1>1. /\ searching' = [searching EXCEPT ![s] = Idle] /\ searching[s].pc = "cache"
      /\ cached' = c /\ saved' = [saved EXCEPT ![n] = x]
      /\ UNCHANGED <<file, reading, superseded>>
  BY DEF CacheSaved
<1>2. /\ n \in Numbers /\ saved[n].age = -1 /\ Len(saved) \in Nat /\ Numbers \subseteq Nat
      /\ saved \in Seq({saved[k] : k \in Numbers}) /\ IsSaved(y)
  BY <1>1 DEF PairInv, SavedOK, SearchesOK, Busy, Numbers
<1>3. IsSaved(x) /\ x.age = 0
  <2>1. y = [pair |-> y.pair, age |-> y.age]
    BY <1>2 DEF IsSaved
  <2>2. x = [pair |-> y.pair, age |-> 0]
    BY <2>1
  <2> HIDE DEF x, y
  <2> QED
    BY <2>2, OptimalParamsAssumption DEF IsSaved
<1>4. c = [value |-> c.value, age |-> c.age] /\ c.value = n /\ c.age = 0 /\ c.age \in 0 .. Ttl
  BY OptimalParamsAssumption
<1>5. IsTask(Idle) /\ Idle.pc = "idle"
  BY DEF IsTask, Idle
<1> HIDE DEF x, y, c, n
<1>6. /\ Len(saved') = Len(saved) /\ Numbers' = Numbers
      /\ saved' \in Seq({saved'[k] : k \in Numbers'})
      /\ \A k \in Numbers : saved'[k] = IF k = n THEN x ELSE saved[k]
  <2> DEFINE S == {saved[k] : k \in Numbers}
             T == S \cup {x}
  <2>1. saved \in Seq(S)
    BY <1>2
  <2> HIDE DEF S
  <2>2. saved \in Seq(T) /\ x \in T /\ n \in 1 .. Len(saved)
    BY <1>2, <2>1 DEF Numbers
  <2> HIDE DEF T
  <2>3. /\ Len(saved') = Len(saved) /\ saved' \in Seq(T)
        /\ \A k \in 1 .. Len(saved) : saved'[k] = IF k = n THEN x ELSE saved[k]
    BY <1>1, <2>2, ExceptSeq
  <2>4. saved' \in Seq({saved'[k] : k \in 1 .. Len(saved')})
    BY <2>3, SeqOfItsElements
  <2> QED
    BY <2>3, <2>4 DEF Numbers
<1>7. SavedOK'
  BY <1>2, <1>3, <1>6 DEF PairInv, SavedOK
<1>8. /\ searching' = [t \in Searchers |-> searching'[t]]
      /\ \A t \in Searchers : searching'[t] = IF t = s THEN Idle ELSE searching[t]
      /\ \A t \in Searchers : IsTask(searching'[t])
  BY <1>1, <1>5, TaskMoves
<1>9. TasksOK'
  BY <1>1, <1>4, <1>8 DEF PairInv, TasksOK
<1>10. SearchesOK'
  BY <1>1, <1>2, <1>5, <1>6, <1>8 DEF PairInv, SearchesOK, Busy, n
<1>11. SupersededOK' /\ FileIsLast' /\ ParsedIsRecent'
  BY <1>1, <1>2, <1>3, <1>6 DEF PairInv, SupersededOK, FileIsLast, ParsedIsRecent
<1>12. CacheIsOlder'
  BY <1>1, <1>2, <1>4 DEF PairInv, SupersededOK, CacheIsOlder
<1> QED
  BY <1>7, <1>9, <1>10, <1>11, <1>12 DEF PairInv

(* A step of one reader. *)
LEMMA ReaderMoves ==
  ASSUME PairInv, NEW r \in Readers, NEW x, IsTask(x), reading' = [reading EXCEPT ![r] = x]
  PROVE  /\ reading' = [q \in Readers |-> reading'[q]]
         /\ \A q \in Readers : reading'[q] = IF q = r THEN x ELSE reading[q]
         /\ \A q \in Readers : IsTask(reading'[q])
  BY DEF PairInv, TasksOK

LEMMA AskPair ==
  ASSUME PairInv, NEW r \in Readers, Ask(r) \/ ReadFile(r)
  PROVE  PairInv'
<1>1. UNCHANGED <<file, cached, searching, saved, superseded>>
  BY DEF Ask, ReadFile, CacheHit, CacheMiss
<1>2. PICK pc \in {"answered", "file", "parsed"}, v \in {cached.value, 0, Parsed} :
        /\ reading' = [reading EXCEPT ![r] = [pc |-> pc, value |-> v]]
        /\ pc = "parsed" => v = Parsed
  BY DEF Ask, ReadFile, CacheHit, CacheMiss
<1> DEFINE x == [pc |-> pc, value |-> v]
<1>3. IsTask(x) /\ x.pc = pc /\ x.value = v /\ reading' = [reading EXCEPT ![r] = x]
  BY <1>2 DEF IsTask
<1> HIDE DEF x
<1>4. /\ reading' = [q \in Readers |-> reading'[q]]
      /\ \A q \in Readers : reading'[q] = IF q = r THEN x ELSE reading[q]
      /\ \A q \in Readers : IsTask(reading'[q])
  BY <1>3, ReaderMoves
<1>5. \A k : <<Parsed, k>> \notin superseded
  BY DEF Parsed, PairInv, FileIsLast, SupersededOK, SavedOK, Numbers
<1>6. TasksOK' /\ ParsedIsRecent'
  BY <1>1, <1>2, <1>3, <1>4, <1>5 DEF PairInv, TasksOK, ParsedIsRecent
<1>7. SavedOK' /\ SearchesOK' /\ SupersededOK' /\ FileIsLast' /\ CacheIsOlder'
  BY <1>1 DEF PairInv, SavedOK, SearchesOK, SupersededOK, FileIsLast, CacheIsOlder, Numbers, Busy
<1> QED
  BY <1>6, <1>7 DEF PairInv

LEMMA CacheReadPair ==
  ASSUME PairInv, NEW r \in Readers, CacheRead(r)
  PROVE  PairInv'
<1> DEFINE y == reading[r]
           x == [y EXCEPT !.pc = "answered"]
           c == [value |-> y.value, age |-> 0]
<1>1. /\ UNCHANGED <<file, searching, saved, superseded>> /\ y.pc = "parsed"
      /\ reading' = [reading EXCEPT ![r] = x] /\ cached' = c
  BY DEF CacheRead
<1>2. IsTask(x) /\ x.pc = "answered"
  <2>1. y = [pc |-> y.pc, value |-> y.value]
    BY DEF PairInv, TasksOK, IsTask
  <2>2. x = [pc |-> "answered", value |-> y.value]
    BY <2>1
  <2> HIDE DEF x, y
  <2> QED
    BY <2>2 DEF IsTask
<1>3. c = [value |-> c.value, age |-> c.age] /\ c.value = y.value /\ c.age = 0 /\ c.age \in 0 .. Ttl
  BY OptimalParamsAssumption
<1> HIDE DEF x, y, c
<1>4. /\ reading' = [q \in Readers |-> reading'[q]]
      /\ \A q \in Readers : reading'[q] = IF q = r THEN x ELSE reading[q]
      /\ \A q \in Readers : IsTask(reading'[q])
  BY <1>1, <1>2, ReaderMoves
<1>5. TasksOK' /\ ParsedIsRecent'
  BY <1>1, <1>2, <1>3, <1>4 DEF PairInv, TasksOK, ParsedIsRecent
<1>6. CacheIsOlder'
  BY <1>1, <1>3 DEF PairInv, ParsedIsRecent, CacheIsOlder, y
<1>7. SavedOK' /\ SearchesOK' /\ SupersededOK' /\ FileIsLast'
  BY <1>1 DEF PairInv, SavedOK, SearchesOK, SupersededOK, FileIsLast, Numbers, Busy
<1> QED
  BY <1>5, <1>6, <1>7 DEF PairInv

(* Time passes while nobody is between two operations on the file. *)
LEMMA OlderKeepsOrder ==
  ASSUME NEW a \in -1 .. Ttl, NEW b \in 0 .. Ttl
  PROVE  /\ Older(a) \in -1 .. Ttl /\ (a = -1 <=> Older(a) = -1) /\ Older(b) \in 0 .. Ttl
         /\ a <= b => Older(a) <= Older(b)
  BY OptimalParamsAssumption DEF Older

LEMMA TickPair ==
  ASSUME PairInv, ParamsTick
  PROVE  PairInv'
<1> DEFINE c == [cached EXCEPT !.age = Older(cached.age)]
           e(k) == [saved[k] EXCEPT !.age = Older(saved[k].age)]
<1>1. /\ UNCHANGED <<file, searching, reading, superseded>> /\ cached' = c
      /\ saved' = [k \in DOMAIN saved |-> e(k)]
      /\ \A r \in Readers : reading[r].pc # "parsed"
  BY DEF ParamsTick
<1>2. c = [value |-> cached.value, age |-> Older(cached.age)]
  <2> DEFINE a == Older(cached.age)
  <2>1. cached = [value |-> cached.value, age |-> cached.age]
    BY DEF PairInv, TasksOK
  <2>2. c = [cached EXCEPT !.age = a]
    OBVIOUS
  <2> HIDE DEF a, c
  <2>3. c = [value |-> cached.value, age |-> a]
    BY <2>1, <2>2
  <2> QED
    BY <2>3 DEF a
<1>3. c.value = cached.value /\ c.age = Older(cached.age) /\ c = [value |-> c.value, age |-> c.age]
  BY <1>2
<1>4. \A k \in Numbers : e(k) = [pair |-> e(k).pair, age |-> e(k).age] /\ e(k).age = Older(saved[k].age)
  <2> SUFFICES ASSUME NEW k \in Numbers
               PROVE  e(k) = [pair |-> e(k).pair, age |-> e(k).age] /\ e(k).age = Older(saved[k].age)
    OBVIOUS
  <2> DEFINE a == Older(saved[k].age)
             y == saved[k]
  <2>1. y = [pair |-> y.pair, age |-> y.age]
    BY DEF PairInv, SavedOK, IsSaved
  <2>2. e(k) = [y EXCEPT !.age = a]
    OBVIOUS
  <2> HIDE DEF a, y, e
  <2>3. e(k) = [pair |-> y.pair, age |-> a]
    BY <2>1, <2>2
  <2>4. e(k) = [pair |-> e(k).pair, age |-> e(k).age] /\ e(k).age = a
    BY <2>3
  <2> QED
    BY <2>4 DEF a
<1> HIDE DEF c, e
<1>5. /\ Len(saved') = Len(saved) /\ Numbers' = Numbers /\ saved' \in Seq({saved'[k] : k \in Numbers'})
      /\ \A k \in Numbers : saved'[k] = e(k)
  <2> DEFINE n == Len(saved)
             T == {e(k) : k \in 1 .. n}
  <2>1. n \in Nat /\ DOMAIN saved = 1 .. n
    BY DEF PairInv, SavedOK
  <2>2. \A k \in 1 .. n : e(k) \in T
    OBVIOUS
  <2> HIDE DEF T, n
  <2>3. saved' = [k \in 1 .. n |-> e(k)] /\ saved' \in [1 .. n -> T]
    BY <1>1, <2>1, <2>2
  <2>4. saved' \in Seq(T) /\ Len(saved') = n
    BY <2>1, <2>3, SeqDef
  <2>5. saved' \in Seq({saved'[k] : k \in 1 .. Len(saved')})
    BY <2>4, SeqOfItsElements
  <2> QED
    BY <2>1, <2>3, <2>4, <2>5 DEF Numbers, n
<1>6. \A k \in Numbers : saved[k].age \in -1 .. Ttl
  BY DEF PairInv, SavedOK, IsSaved
<1>7. \A k \in Numbers : /\ saved'[k].age = Older(saved[k].age) /\ saved'[k].age \in -1 .. Ttl
                         /\ saved'[k].age = -1 <=> saved[k].age = -1
  BY <1>4, <1>5, <1>6, OlderKeepsOrder, OptimalParamsAssumption
<1>8. cached.age \in 0 .. Ttl /\ cached'.age = Older(cached.age) /\ cached'.value = cached.value
  BY <1>1, <1>3 DEF PairInv, TasksOK
<1>9. SavedOK'
  BY <1>4, <1>5, <1>7 DEF PairInv, SavedOK, IsSaved
<1>10. TasksOK'
  BY <1>1, <1>3, <1>8, OlderKeepsOrder, OptimalParamsAssumption DEF PairInv, TasksOK
<1>11. SearchesOK'
  BY <1>1, <1>5, <1>7 DEF PairInv, SearchesOK, Busy
<1>12. SupersededOK' /\ FileIsLast' /\ ParsedIsRecent'
  <2>1. \A k \in Numbers : saved[k].age >= 0 => saved'[k].age >= 0
    BY <1>6, <1>7, OptimalParamsAssumption
  <2>2. SupersededOK'
    BY <1>1, <1>5, <2>1 DEF PairInv, SupersededOK
  <2> QED
    BY <1>1, <2>2 DEF PairInv, FileIsLast, ParsedIsRecent
<1>13. CacheIsOlder'
  <2> SUFFICES ASSUME NEW k, <<cached.value, k>> \in superseded PROVE saved'[k].age <= cached'.age
    BY <1>1, <1>8 DEF CacheIsOlder
  <2>1. k \in Numbers /\ saved[k].age <= cached.age
    BY DEF PairInv, SupersededOK, CacheIsOlder
  <2> QED
    BY <1>6, <1>7, <1>8, <2>1, OlderKeepsOrder
<1> QED
  BY <1>9, <1>10, <1>11, <1>12, <1>13 DEF PairInv

LEMMA PairStep == PairInv /\ [Next]_vars => PairInv'
<1> SUFFICES ASSUME PairInv, [Next]_vars PROVE PairInv'
  OBVIOUS
<1>1. CASE ParamsNext
  BY <1>1, SearchPair, OpenPair, WritePair, SavePair, AskPair, CacheReadPair, TickPair DEF ParamsNext
<1>2. CASE StartScan \/ \E r \in Readers : ShowPair(r)
  <2>1. /\ UNCHANGED <<file, cached, searching, saved, superseded>>
        /\ \E r \in Readers : Release(r)
    BY <1>2, MarketScanAssumption DEF StartScan, ShowPair
  <2> QED
    BY <2>1, PairStays
<1>3. ASSUME UNCHANGED paramsVars PROVE PairInv'
  <2>1. UNCHANGED <<file, cached, searching, saved, superseded>> /\ reading' = reading
    BY <1>3 DEF paramsVars
  <2> QED
    BY <2>1, PairStays
<1>4. \/ ParamsNext \/ StartScan \/ \E r \in Readers : ShowPair(r)
      \/ UNCHANGED paramsVars
  BY DEF Next, vars, ScanStock, ChooseTop, AddRegime, AddClusters, Respond, NextDay
<1> QED
  BY <1>1, <1>2, <1>3, <1>4

(* What optimal-params.service answers from its cache: once a later save has returned as long ago as *)
(* CACHE_TTL_MS, nobody is answered the pair of an earlier one, whatever searches and readers overlap *)
(* (write and read).                                                                                  *)
THEOREM PairIsFresh == Spec => []FreshWithinTtl
<1>1. PairInv => FreshWithinTtl
  BY OptimalParamsAssumption DEF PairInv, FreshWithinTtl, CacheIsOlder, TasksOK
<1> QED
  BY <1>1, PairInit, PairStep, PTL DEF Spec

(***************************************************************************)
(* The market regime.  The strengthening says why the label changed last:  *)
(* the score of that scan, seen from the label before it, gives the label  *)
(* of now.                                                                 *)
(***************************************************************************)
RegimeOK ==
    /\ regimeFile \in [score : Int, label : Labels \cup {"none"}, age : Int]
    /\ changed \in [from : Labels \cup {"none"}, score : Int]
    /\ changed.from # "none" =>
         changed.from # regimeFile.label /\ regimeFile.label = Resolve(changed.score, changed.from)

LEMMA ResolveIsLabel ==
  ASSUME NEW score, NEW prev
  PROVE  Resolve(score, prev) \in Labels /\ Resolve(score, prev) # "none"
  BY DEF Resolve, Labels

(* The bands: there and back again takes ten points. *)
LEMMA BandsAreApart ==
  ASSUME NEW a \in Labels, NEW b \in Labels, a # b, NEW c \in Int, NEW s \in Int,
         Resolve(c, a) = b, Resolve(s, b) = a
  PROVE  s - c >= 10 \/ c - s >= 10
  BY DEF Resolve, Labels, CrisisEnter, CrisisExit, AttackEnter, AttackExit

LEMMA SmoothedIsInt ==
  ASSUME NEW breadth \in Breadths, NEW prev \in Int
  PROVE  Smoothed(RawScore(breadth), prev) \in Int
<1>1. RawScore(breadth) \in Int
  BY MarketScanAssumption DEF RawScore
<1> DEFINE score == IF prev = -1 THEN RawScore(breadth) ELSE (RawScore(breadth) + 2 * prev) \div 3
<1>2. score \in Int
  BY <1>1
<1> HIDE DEF score
<1>3. score % Grain \in Int
  BY <1>2 DEF Grain
<1>4. Smoothed(RawScore(breadth), prev) = score - (score % Grain)
  BY DEF Smoothed, score
<1> QED
  BY <1>2, <1>3, <1>4

LEMMA AddRegimeIs ==
  ASSUME NEW breadth \in Breadths, AddRegime(breadth)
  PROVE  \/ UNCHANGED <<regimeFile, changed>>
         \/ LET regime == Regime(breadth, regimeFile)
            IN  /\ regimeFile' = [score |-> regime.score, label |-> regime.label, age |-> 0]
                /\ changed' = IF regime.label = regimeFile.label \/ regimeFile.label = "none" THEN changed
                              ELSE [from |-> regimeFile.label, score |-> regime.score]
<1> USE DEF AddRegime
<1>1. CASE setting.regime /\ breadth.stocks >= MinBreadth
  BY <1>1, Zenon
<1>2. CASE ~(setting.regime /\ breadth.stocks >= MinBreadth)
  BY <1>2, Zenon
<1> QED
  BY <1>1, <1>2

LEMMA AddRegimeStep ==
  ASSUME RegimeOK, NEW breadth \in Breadths, AddRegime(breadth)
  PROVE  RegimeOK' /\ (GoesBack => \/ regimeFile'.score - changed.score >= 10
                                   \/ changed.score - regimeFile'.score >= 10)
<1> DEFINE regime == Regime(breadth, regimeFile)
           s == Smoothed(RawScore(breadth), regimeFile.score)
           l == Resolve(s, regimeFile.label)
<1>1. s \in Int /\ l \in Labels /\ l # "none"
  BY SmoothedIsInt, ResolveIsLabel DEF RegimeOK
<1>2. regime.score = s /\ (regime.label = l \/ (regime.label = regimeFile.label /\ regimeFile.label # "none"))
  <2>1. regime = [score |-> s, label |-> IF KeepsLabel(l, regimeFile) THEN regimeFile.label ELSE l]
    BY DEF Regime
  <2> HIDE DEF regime, s, l
  <2>2. regime.score = s /\ regime.label = IF KeepsLabel(l, regimeFile) THEN regimeFile.label ELSE l
    BY <2>1
  <2>3. KeepsLabel(l, regimeFile) => regimeFile.label # "none"
    BY DEF KeepsLabel
  <2> QED
    BY <2>2, <2>3, Zenon
<1>3. CASE UNCHANGED <<regimeFile, changed>>
  BY <1>3 DEF RegimeOK, GoesBack
<1>4. CASE /\ regimeFile' = [score |-> regime.score, label |-> regime.label, age |-> 0]
           /\ changed' = IF regime.label = regimeFile.label \/ regimeFile.label = "none" THEN changed
                         ELSE [from |-> regimeFile.label, score |-> regime.score]
  <2> HIDE DEF regime, s
  <2>1. regimeFile'.label = regime.label /\ regimeFile'.score = s
    BY <1>2, <1>4
  <2>2. CASE regime.label = regimeFile.label
    BY <1>1, <1>2, <1>4, <2>1, <2>2 DEF RegimeOK, GoesBack
  <2>3. CASE regime.label # regimeFile.label /\ regimeFile.label = "none"
    BY <1>1, <1>2, <1>4, <2>1, <2>3, ResolveIsLabel DEF RegimeOK, GoesBack
  <2>4. CASE regime.label # regimeFile.label /\ regimeFile.label # "none"
    <3>1. regime.label = l /\ changed' = [from |-> regimeFile.label, score |-> s]
      BY <1>2, <1>4, <2>4
    <3>2. RegimeOK'
      BY <1>1, <1>4, <2>1, <2>4, <3>1 DEF RegimeOK
    <3>3. ASSUME GoesBack PROVE s - changed.score >= 10 \/ changed.score - s >= 10
      <4>1. changed.from = l /\ changed.from \in Labels /\ regimeFile.label \in Labels
        BY <1>1, <2>1, <2>4, <3>1, <3>3 DEF GoesBack, RegimeOK
      <4>2. Resolve(changed.score, l) = regimeFile.label /\ l # regimeFile.label /\ changed.score \in Int
        BY <1>1, <4>1 DEF RegimeOK
      <4>3. Resolve(s, regimeFile.label) = l
        OBVIOUS
      <4> HIDE DEF l
      <4> QED
        BY <1>1, <4>1, <4>2, <4>3, BandsAreApart
    <3> QED
      BY <2>1, <3>2, <3>3
  <2> QED
    BY <2>2, <2>3, <2>4
<1> QED
  BY <1>3, <1>4, AddRegimeIs

LEMMA RegimeStep ==
  RegimeOK /\ [Next]_vars =>
    RegimeOK' /\ (GoesBack => \/ regimeFile'.score - changed.score >= 10
                              \/ changed.score - regimeFile'.score >= 10)
<1> SUFFICES ASSUME RegimeOK, [Next]_vars
             PROVE  RegimeOK' /\ (GoesBack => \/ regimeFile'.score - changed.score >= 10
                                              \/ changed.score - regimeFile'.score >= 10)
  OBVIOUS
<1>1. ASSUME NEW breadth \in Breadths, AddRegime(breadth)
      PROVE  RegimeOK' /\ (GoesBack => \/ regimeFile'.score - changed.score >= 10
                                       \/ changed.score - regimeFile'.score >= 10)
  BY <1>1, AddRegimeStep
<1>2. CASE NextDay
  <2>1. regimeFile'.label = regimeFile.label /\ changed' = changed
        /\ regimeFile' \in [score : Int, label : Labels \cup {"none"}, age : Int]
    BY <1>2 DEF NextDay, RegimeOK, MinHoldDays
  <2> QED
    BY <2>1 DEF RegimeOK, GoesBack
<1>3. CASE UNCHANGED <<regimeFile, changed>>
  BY <1>3 DEF RegimeOK, GoesBack
<1>4. \/ \E breadth \in Breadths : AddRegime(breadth)
      \/ NextDay \/ UNCHANGED <<regimeFile, changed>>
  BY DEF Next, vars, scanVars, ShowPair, StartScan, ScanStock, ChooseTop, AddClusters, Respond
<1> QED
  BY <1>1, <1>2, <1>3, <1>4

(* What the bands of computeMarketRegime are for: however the scores come, the label never goes back  *)
(* to what it was before its last change unless the smoothed score has moved by ten points since      *)
(* (resolveLabel).                                                                                    *)
THEOREM RegimeIsCalm == Spec => NoFlipFlop
<1>1. Init => RegimeOK
  BY DEF Init, RegimeOK
<1>2. RegimeOK /\ [Next]_vars =>
        [GoesBack => \/ regimeFile'.score - changed.score >= 10
                     \/ changed.score - regimeFile'.score >= 10]_vars
  BY RegimeStep
<1> QED
  BY <1>1, <1>2, RegimeStep, PTL DEF Spec, NoFlipFlop

(***************************************************************************)
(* The windows.                                                            *)
(***************************************************************************)
LEMMA RoundedUp ==
  ASSUME NEW m \in Nat, NEW c \in 2 .. 3
  PROVE  LET l == (m + c - 1) \div c
         IN  l \in Nat /\ c * l >= m /\ (m >= c => (c - 1) * l <= m)
<1>1. CASE c = 2
  BY <1>1
<1>2. CASE c = 3
  BY <1>2
<1> QED
  BY <1>1, <1>2

LEMMA EnoughForAll ==
  ASSUME NEW n \in Nat, FoldCount(n) >= MinValidFolds
  PROVE  /\ FoldCount(n) \in 2 .. 3
         /\ n - MinInSample \in Nat /\ n - MinInSample >= FoldCount(n) * MinOos
<1> DEFINE m == n - MinInSample
           possible == m \div MinOos
<1>1. m \in Int /\ MinOos \in Nat \ {0} /\ MaxFolds \in 1 .. 3
  BY WalkForwardAssumption
<1> HIDE DEF m
<1>2. possible \in Int /\ m >= possible * MinOos
  BY <1>1
<1> HIDE DEF possible
<1>3. FoldCount(n) = IF possible < MaxFolds THEN possible ELSE MaxFolds
  BY DEF FoldCount, m, possible
<1>4. FoldCount(n) \in 2 .. 3 /\ FoldCount(n) <= possible
  BY <1>1, <1>2, <1>3 DEF MinValidFolds
<1>5. possible * MinOos >= FoldCount(n) * MinOos
  BY <1>1, <1>2, <1>4
<1>6. FoldCount(n) * MinOos \in Nat /\ possible * MinOos \in Int
  BY <1>1, <1>2, <1>4
<1> QED
  BY <1>1, <1>2, <1>4, <1>5, <1>6 DEF m

(* The rolling windows: at least two, all of the length of the first but for the last one. *)
LEMMA RollingIs ==
  ASSUME NEW n \in Nat, FoldCount(n) >= MinValidFolds
  PROVE  /\ FoldCount(n) \in 2 .. 3 /\ OosLength(n) \in Nat /\ OosLength(n) >= MinOos
         /\ MinInSample + FoldCount(n) * OosLength(n) >= n
         /\ MinInSample + (FoldCount(n) - 1) * OosLength(n) <= n
<1> DEFINE m == n - MinInSample
           c == FoldCount(n)
           l == OosLength(n)
<1>1. /\ c \in 2 .. 3 /\ m \in Nat /\ m >= c * MinOos
      /\ MinOos \in Nat \ {0} /\ MinInSample \in Nat
  BY EnoughForAll, WalkForwardAssumption
<1>2. l = (m + c - 1) \div c
  BY DEF OosLength
<1> HIDE DEF c, l
<1>3. m >= c
  BY <1>1
<1>4. l \in Nat /\ c * l >= m /\ (c - 1) * l <= m
  BY <1>1, <1>2, <1>3, RoundedUp
<1>5. l >= MinOos
  <2>1. CASE c = 2
    BY <1>1, <1>4, <2>1
  <2>2. CASE c = 3
    BY <1>1, <1>4, <2>2
  <2> QED
    BY <1>1, <2>1, <2>2
<1>6. c * l \in Nat /\ (c - 1) * l \in Nat
  BY <1>1, <1>4
<1> QED
  BY <1>1, <1>4, <1>5, <1>6 DEF m, c, l

(* buildWalkForwardFolds for any number of candles, however its parameters are chosen. *)
THEOREM WindowsAreSound ==
  ASSUME NEW n \in Nat, NEW rolling
  PROVE  SoundFolds(n, rolling)
<1> DEFINE folds == WalkForwardFolds(n, rolling)
<1>1. folds = {LegacyFold(n)} \/ (folds = RollingFolds(n) /\ FoldCount(n) >= MinValidFolds)
  BY DEF WalkForwardFolds
<1> HIDE DEF folds
<1>2. CASE folds = {LegacyFold(n)}
  <2>1. /\ LegacyFold(n).oosStart = (2 * n) \div 3 /\ LegacyFold(n).oosEnd = n
    BY DEF LegacyFold, Fold
  <2>2. (2 * n) \div 3 \in 0 .. n /\ n - n < MinOos
    BY WalkForwardAssumption
  <2>3. InBounds(n, LegacyFold(n)) /\ n - LegacyFold(n).oosEnd < MinOos
    BY <2>1, <2>2 DEF InBounds
  <2> QED
    BY <1>2, <2>3 DEF SoundFolds, folds
<1>3. CASE folds = RollingFolds(n) /\ FoldCount(n) >= MinValidFolds
  <2> DEFINE c == FoldCount(n)
             l == OosLength(n)
             a == MinInSample
             start(i) == a + i * l
             end(i) == IF start(i) + l < n THEN start(i) + l ELSE n
  <2>1. /\ c \in 2 .. 3 /\ l \in Nat /\ l >= MinOos /\ a + c * l >= n /\ a + (c - 1) * l <= n
        /\ MinOos \in Nat \ {0} /\ a \in Nat
    BY <1>3, RollingIs, WalkForwardAssumption
  <2>2. \A i \in 0 .. c - 1 : /\ RollingFold(n, i).oosStart = start(i)
                              /\ RollingFold(n, i).oosEnd = end(i)
    BY DEF RollingFold, Fold
  <2> HIDE DEF c, l, a
  <2>3. \A i \in 0 .. c - 1 : i \in 0 .. 2 /\ start(i) \in Nat /\ start(i) >= a /\ end(i) \in Nat /\ end(i) <= n
    BY <2>1
  <2>4. \A i, j \in 0 .. c - 1 : i < j => end(i) <= start(j)
    BY <2>1
  <2>5. \A i \in 0 .. c - 2 : end(i) - start(i) >= MinOos
    BY <2>1
  <2>6. end(c - 1) = n /\ start(c - 1) = end(c - 2) /\ c - 1 \in 0 .. c - 1 /\ c - 2 \in 0 .. c - 2
    BY <2>1
  <2> HIDE DEF start, end
  <2>7. \A fold \in folds : \E i \in 0 .. c - 1 :
          fold = RollingFold(n, i) /\ fold.oosStart = start(i) /\ fold.oosEnd = end(i)
          /\ end(i) - start(i) >= MinOos
    BY <1>3, <2>2 DEF RollingFolds, c
  <2>8. \A i \in 0 .. c - 1 : end(i) - start(i) >= MinOos =>
          RollingFold(n, i) \in folds /\ RollingFold(n, i).oosEnd = end(i)
    BY <1>3, <2>2 DEF RollingFolds, c
  <2>9. ASSUME NEW fold \in folds PROVE InBounds(n, fold) /\ LongEnough(fold)
    BY <2>1, <2>3, <2>7 DEF InBounds, LongEnough, a
  <2>10. ASSUME NEW f \in folds, NEW g \in folds, f # g PROVE Apart(f, g)
    <3>1. PICK i \in 0 .. c - 1 : f = RollingFold(n, i) /\ f.oosStart = start(i) /\ f.oosEnd = end(i)
      BY <2>7
    <3>2. PICK j \in 0 .. c - 1 : g = RollingFold(n, j) /\ g.oosStart = start(j) /\ g.oosEnd = end(j)
      BY <2>7
    <3>3. i < j \/ j < i
      BY <2>1, <2>10, <3>1, <3>2
    <3> QED
      BY <2>4, <3>1, <3>2, <3>3 DEF Apart
  <2>11. \E fold \in folds : n - fold.oosEnd < MinOos
    <3>1. CASE end(c - 1) - start(c - 1) >= MinOos
      BY <2>1, <2>6, <2>8, <3>1
    <3>2. CASE ~(end(c - 1) - start(c - 1) >= MinOos)
      <4>1. n - end(c - 2) < MinOos /\ end(c - 2) - start(c - 2) >= MinOos /\ c - 2 \in 0 .. c - 1
        BY <2>1, <2>3, <2>5, <2>6, <3>2
      <4> QED
        BY <2>8, <4>1
    <3> QED
      BY <3>1, <3>2
  <2> QED
    BY <2>9, <2>10, <2>11 DEF SoundFolds, folds
<1> QED
  BY <1>1, <1>2, <1>3

-----------------------------------------------------------------------------
(* Numbers, and functions that are defined along them. *)

LEMMA LeastNumber ==
  ASSUME NEW T, T \subseteq Nat, T # {}
  PROVE  \E m \in T : \A k \in T : m <= k
<1>1. PICK m \in T : \A k \in T : <<k, m>> \notin OpToRel(<, Nat)
  BY NatLessThanWellFounded, WFMin
<1>2. ASSUME NEW k \in T
      PROVE  m <= k
  <2>1. <<k, m>> \in Nat \X Nat
    OBVIOUS
  <2>2. ~(k < m)
    BY <1>1, <2>1 DEF OpToRel
  <2> QED
    BY <2>2
<1> QED
  BY <1>1, <1>2

(* Induction, over a set that holds the numbers for which something is to be shown. *)
LEMMA Induct ==
  ASSUME NEW T, 0 \in T, \A n \in Nat : n \in T => n + 1 \in T
  PROVE  \A n \in Nat : n \in T
<1> SUFFICES ASSUME Nat \ T # {} PROVE FALSE
  OBVIOUS
<1>1. PICK m \in Nat \ T : \A k \in Nat \ T : m <= k
  BY LeastNumber
<1>2. m # 0 /\ m - 1 \in Nat
  BY <1>1
<1>3. m - 1 \in T
  BY <1>1, <1>2
<1> QED
  BY <1>1, <1>2, <1>3

(* A recursive function over the places of a list exists: the step is a function G. *)
Iterates(f, b, N, G) == f[0] = b /\ \A n \in 1 .. N : f[n] = G[<<f[n - 1], n>>]

LEMMA Recursion ==
  ASSUME NEW X, NEW b \in X, NEW N \in Nat, NEW G \in [X \X (1 .. N) -> X]
  PROVE  \E f \in [0 .. N -> X] : Iterates(f, b, N, G)
<1> DEFINE Upto(m) == \E f \in [0 .. m -> X] : /\ f[0] = b
                                               /\ \A n \in 1 .. m : f[n] = G[<<f[n - 1], n>>]
           T == {m \in Nat : m <= N => Upto(m)}
<1>1. 0 \in T
  <2> DEFINE f == [n \in 0 .. 0 |-> b]
  <2>1. f \in [0 .. 0 -> X] /\ f[0] = b /\ \A n \in 1 .. 0 : f[n] = G[<<f[n - 1], n>>]
    OBVIOUS
  <2>2. Upto(0)
    <3> HIDE DEF f
    <3> QED
      BY <2>1
  <2> QED
    BY <2>2
<1>2. ASSUME NEW m \in Nat, m \in T
      PROVE  m + 1 \in T
  <2> SUFFICES ASSUME m + 1 <= N
               PROVE  Upto(m + 1)
    OBVIOUS
  <2>1. PICK f \in [0 .. m -> X] : f[0] = b /\ \A n \in 1 .. m : f[n] = G[<<f[n - 1], n>>]
    BY <1>2
  <2> DEFINE e == [n \in 0 .. m + 1 |-> IF n = m + 1 THEN G[<<f[m], n>>] ELSE f[n]]
  <2>2. m \in 0 .. m /\ f[m] \in X /\ m + 1 \in 1 .. N
    BY <2>1
  <2>3. e \in [0 .. m + 1 -> X]
    BY <2>1, <2>2
  <2>4. e[0] = b
    BY <2>1
  <2>5. ASSUME NEW n \in 1 .. m + 1
        PROVE  e[n] = G[<<e[n - 1], n>>]
    <3>1. n - 1 \in 0 .. m /\ n \in 0 .. m + 1 /\ n - 1 \in 0 .. m + 1
      OBVIOUS
    <3>2. e[n - 1] = f[n - 1]
      BY <3>1
    <3>3. CASE n = m + 1
      BY <3>1, <3>2, <3>3
    <3>4. CASE n \in 1 .. m
      BY <3>1, <3>2, <3>4, <2>1
    <3> QED
      BY <3>3, <3>4
  <2> HIDE DEF e
  <2> QED
    BY <2>3, <2>4, <2>5
<1>3. N \in T
  <2> HIDE DEF T
  <2> QED
    BY <1>1, <1>2, Induct
<1> QED
  BY <1>3 DEF Iterates

-----------------------------------------------------------------------------
(* Sorting.  A strict total order, as a set of pairs. *)
TotalOrder(S, R) ==
    /\ \A x, y \in S : x # y => <<x, y>> \in R \/ <<y, x>> \in R
    /\ \A x, y, z \in S : <<x, y>> \in R /\ <<y, z>> \in R => <<x, z>> \in R
    /\ \A x \in S : <<x, x>> \notin R

Ahead(S, R, x) == {y \in S : <<y, x>> \in R}

(* Ranks are the numbers below the size of the set, each once, and in the order. *)
LEMMA Ranks ==
  ASSUME NEW S, IsFiniteSet(S), NEW R, TotalOrder(S, R)
  PROVE  /\ Cardinality(S) \in Nat
         /\ \A x \in S : Cardinality(Ahead(S, R, x)) \in 0 .. Cardinality(S) - 1
         /\ \A x, y \in S : <<x, y>> \in R <=> Cardinality(Ahead(S, R, x)) < Cardinality(Ahead(S, R, y))
         /\ \A n \in 0 .. Cardinality(S) - 1 : \E x \in S : Cardinality(Ahead(S, R, x)) = n
<1> DEFINE N == Cardinality(S)
           rank(x) == Cardinality(Ahead(S, R, x))
<1>1. N \in Nat
  BY FS_CardinalityType
<1>2. ASSUME NEW x \in S
      PROVE  rank(x) \in 0 .. N - 1
  <2>1. Ahead(S, R, x) \in SUBSET S /\ x \notin Ahead(S, R, x)
    BY DEF Ahead, TotalOrder
  <2>2. IsFiniteSet(Ahead(S, R, x)) /\ rank(x) <= N /\ rank(x) # N
    BY <2>1, FS_Subset
  <2>3. rank(x) \in Nat
    BY <2>2, FS_CardinalityType
  <2> QED
    BY <1>1, <2>2, <2>3
<1>3. ASSUME NEW x \in S, NEW y \in S, <<x, y>> \in R
      PROVE  rank(x) < rank(y)
  <2>1. Ahead(S, R, x) \in SUBSET Ahead(S, R, y) /\ x \in Ahead(S, R, y) /\ x \notin Ahead(S, R, x)
    BY <1>3 DEF Ahead, TotalOrder
  <2>2. Ahead(S, R, y) \in SUBSET S
    BY DEF Ahead
  <2>3. IsFiniteSet(Ahead(S, R, y))
    BY <2>2, FS_Subset
  <2>4. rank(x) <= rank(y) /\ rank(x) # rank(y)
    BY <2>1, <2>3, FS_Subset
  <2>5. rank(x) \in Int /\ rank(y) \in Int
    BY <1>1, <1>2
  <2> QED
    BY <2>4, <2>5
<1>4. ASSUME NEW x \in S, NEW y \in S
      PROVE  <<x, y>> \in R <=> rank(x) < rank(y)
  <2>1. rank(x) \in Int /\ rank(y) \in Int
    BY <1>1, <1>2
  <2>2. <<x, y>> \in R => rank(x) < rank(y)
    BY <1>3
  <2>3. <<y, x>> \in R => rank(y) < rank(x)
    BY <1>3
  <2>4. x = y => rank(x) = rank(y)
    OBVIOUS
  <2>5. x = y \/ <<x, y>> \in R \/ <<y, x>> \in R
    BY DEF TotalOrder
  <2> HIDE DEF rank
  <2> QED
    BY <2>1, <2>2, <2>3, <2>4, <2>5
<1>5. ASSUME NEW n \in 0 .. N - 1
      PROVE  \E x \in S : rank(x) = n
  <2> DEFINE f == [x \in S |-> rank(x)]
             T == 0 .. N - 1
  <2>1. f \in [S -> T]
    BY <1>2
  <2>2. \A x, y \in S : f[x] = f[y] => x = y
    <3> SUFFICES ASSUME NEW x \in S, NEW y \in S, rank(x) = rank(y)
                 PROVE  x = y
      OBVIOUS
    <3>1. rank(x) \in Int /\ rank(y) \in Int
      BY <1>1, <1>2
    <3>2. ~(rank(x) < rank(y)) /\ ~(rank(y) < rank(x))
      BY <3>1
    <3>3. <<x, y>> \notin R /\ <<y, x>> \notin R
      BY <1>4, <3>2
    <3> QED
      BY <3>3 DEF TotalOrder
  <2>3. IsFiniteSet(T) /\ Cardinality(T) = N
    BY <1>1, FS_Interval
  <2> HIDE DEF f
  <2>4. f \in Injection(S, T)
    BY <2>1, <2>2 DEF Injection, IsInjective
  <2>5. f \in Surjection(S, T)
    <3> HIDE DEF T, N
    <3> QED
      BY <2>3, <2>4, FS_Injection DEF N
  <2>6. PICK x \in S : f[x] = n
    BY <2>5 DEF Surjection
  <2> QED
    BY <2>6 DEF f
<1> QED
  BY <1>1, <1>2, <1>4, <1>5

Sorts(q, S, R) ==
    /\ q \in [1 .. Cardinality(S) -> S]
    /\ \A x \in S : \E n \in 1 .. Cardinality(S) : q[n] = x
    /\ \A i, j \in 1 .. Cardinality(S) : i < j => <<q[i], q[j]>> \in R

(* Taking the elements by rank sorts the set. *)
LEMMA RanksSort ==
  ASSUME NEW S, IsFiniteSet(S), NEW R, TotalOrder(S, R),
         NEW q, q \in [1 .. Cardinality(S) -> S],
         \A n \in 1 .. Cardinality(S) : Cardinality(Ahead(S, R, q[n])) = n - 1
  PROVE  Sorts(q, S, R)
<1> DEFINE N == Cardinality(S)
<1>1. N \in Nat
  BY Ranks
<1>2. ASSUME NEW i \in 1 .. N, NEW j \in 1 .. N, i < j
      PROVE  <<q[i], q[j]>> \in R
  <2>1. q[i] \in S /\ q[j] \in S
    OBVIOUS
  <2>2. Cardinality(Ahead(S, R, q[i])) = i - 1 /\ Cardinality(Ahead(S, R, q[j])) = j - 1
    OBVIOUS
  <2>3. i - 1 < j - 1
    BY <1>1, <1>2
  <2> QED
    BY <2>1, <2>2, <2>3, Ranks
<1>3. ASSUME NEW x \in S
      PROVE  \E n \in 1 .. N : q[n] = x
  <2> DEFINE n == Cardinality(Ahead(S, R, x)) + 1
  <2>1. Cardinality(Ahead(S, R, x)) \in 0 .. N - 1
    BY Ranks
  <2>2. n \in 1 .. N /\ n - 1 = Cardinality(Ahead(S, R, x))
    BY <1>1, <2>1
  <2>3. q[n] \in S /\ Cardinality(Ahead(S, R, q[n])) = n - 1
    BY <2>2
  <2>4. ~(n - 1 < n - 1)
    BY <1>1, <2>2
  <2>5. <<q[n], x>> \notin R /\ <<x, q[n]>> \notin R
    BY <2>2, <2>3, <2>4, Ranks
  <2>6. q[n] = x
    BY <2>3, <2>5 DEF TotalOrder
  <2> QED
    BY <2>2, <2>6
<1> QED
  BY <1>2, <1>3 DEF Sorts

(* The least and the greatest of finitely many numbers. *)
LEMMA Extremes ==
  ASSUME NEW S, IsFiniteSet(S), S \subseteq Int, S # {}
  PROVE  /\ \E m \in S : \A k \in S : m <= k
         /\ \E m \in S : \A k \in S : k <= m
<1> DEFINE R == {p \in S \X S : p[1] < p[2]}
           N == Cardinality(S)
<1>1. TotalOrder(S, R)
  <2>1. \A x, y \in S : <<x, y>> \in R <=> x < y
    OBVIOUS
  <2> HIDE DEF R
  <2> QED
    BY <2>1 DEF TotalOrder
<1>2. \A x, y \in S : <<x, y>> \in R <=> x < y
  OBVIOUS
<1> HIDE DEF R
<1>3. N \in Nat /\ N # 0
  BY FS_CardinalityType, FS_EmptySet
<1>4. 0 \in 0 .. N - 1 /\ N - 1 \in 0 .. N - 1
  BY <1>3
<1>5. PICK x \in S : Cardinality(Ahead(S, R, x)) = 0
  BY <1>1, <1>4, Ranks
<1>6. PICK z \in S : Cardinality(Ahead(S, R, z)) = N - 1
  BY <1>1, <1>4, Ranks
<1>7. ASSUME NEW k \in S
      PROVE  x <= k /\ k <= z
  <2>1. Cardinality(Ahead(S, R, k)) \in 0 .. N - 1
    BY <1>1, Ranks
  <2>2. ~(Cardinality(Ahead(S, R, k)) < 0) /\ ~(N - 1 < Cardinality(Ahead(S, R, k)))
    BY <1>3, <2>1
  <2>3. <<k, x>> \notin R /\ <<z, k>> \notin R
    BY <1>1, <1>5, <1>6, <2>2, Ranks
  <2> QED
    BY <1>2, <2>3
<1> QED
  BY <1>7

LEMMA MinIs ==
  ASSUME NEW S, NEW m \in S, S \subseteq Int, \A k \in S : m <= k
  PROVE  Min(S) = m
<1>1. \A x \in S : (\A y \in S : x <= y) => x = m
  <2> SUFFICES ASSUME NEW x \in S, \A y \in S : x <= y PROVE x = m
    OBVIOUS
  <2>1. x <= m /\ m <= x /\ x \in Int /\ m \in Int
    OBVIOUS
  <2> QED
    BY <2>1
<1> QED
  BY <1>1 DEF Min

LEMMA MaxIs ==
  ASSUME NEW S, NEW m \in S, S \subseteq Int, \A k \in S : k <= m
  PROVE  Max(S) = m
<1>1. \A x \in S : (\A y \in S : y <= x) => x = m
  <2> SUFFICES ASSUME NEW x \in S, \A y \in S : y <= x PROVE x = m
    OBVIOUS
  <2>1. x <= m /\ m <= x /\ x \in Int /\ m \in Int
    OBVIOUS
  <2> QED
    BY <2>1
<1> QED
  BY <1>1 DEF Max

(* A sorted set is a sequence of its elements. *)
LEMMA SortedIsSeq ==
  ASSUME NEW S, IsFiniteSet(S), NEW R, NEW q, Sorts(q, S, R)
  PROVE  q \in Seq(S) /\ Len(q) = Cardinality(S) /\ Len(q) \in Nat /\ DOMAIN q = 1 .. Len(q)
<1>1. Cardinality(S) \in Nat
  BY FS_CardinalityType
<1>2. q \in [1 .. Cardinality(S) -> S]
  BY DEF Sorts
<1> HIDE DEF Sorts
<1> QED
  BY <1>1, <1>2, IsASeq

-----------------------------------------------------------------------------
(***************************************************************************)
(* The clusters.  The roots that the union-find ends with are the same for *)
(* two codes exactly if no set that is closed under correlated pairs       *)
(* separates them, and the code that Reach finds is the least such set.    *)
(***************************************************************************)
(* A parent function of the union-find: no parent has a larger code. *)
Parents(codes) == {f \in [codes -> codes] : \A c \in codes : f[c] <= c}

FollowsParents(root, f) == \A c \in DOMAIN f : root[c] = IF f[c] = c THEN c ELSE root[f[c]]

(* Parents are smaller, so that the root of a code is found along them. *)
LEMMA RootExists ==
  ASSUME NEW codes, IsFiniteSet(codes), codes \subseteq Nat, NEW f \in Parents(codes)
  PROVE  \E root \in [codes -> codes] : FollowsParents(root, f)
<1> DEFINE Below(n) == {c \in codes : c < n}
           T == {n \in Nat : \E root \in [Below(n) -> codes] :
                    \A c \in Below(n) : root[c] = IF f[c] = c THEN c ELSE root[f[c]]}
<1>1. 0 \in T
  <2>1. Below(0) = {}
    <3>1. \A c \in codes : c \in Nat /\ ~(c < 0)
      OBVIOUS
    <3> QED
      BY <3>1
  <2> DEFINE root == [c \in Below(0) |-> c]
  <2>2. root \in [Below(0) -> codes] /\ \A c \in Below(0) : root[c] = IF f[c] = c THEN c ELSE root[f[c]]
    BY <2>1
  <2> HIDE DEF root, Below
  <2> QED
    BY <2>2
<1>2. ASSUME NEW n \in Nat, n \in T
      PROVE  n + 1 \in T
  <2>1. PICK root \in [Below(n) -> codes] :
              \A c \in Below(n) : root[c] = IF f[c] = c THEN c ELSE root[f[c]]
    BY <1>2
  <2> DEFINE more == [c \in Below(n + 1) |-> IF c < n THEN root[c] ELSE IF f[c] = c THEN c ELSE root[f[c]]]
  <2>2. ASSUME NEW c \in Below(n + 1)
        PROVE  /\ c \in codes /\ c \in Nat /\ f[c] \in codes /\ f[c] \in Nat /\ f[c] <= c
               /\ c < n \/ c = n
               /\ f[c] # c => f[c] \in Below(n)
    <3>1. c \in codes /\ c \in Nat /\ f[c] \in codes /\ f[c] \in Nat /\ f[c] <= c /\ c < n + 1
      BY DEF Parents
    <3> QED
      BY <3>1
  <2>3. ASSUME NEW c \in Below(n + 1)
        PROVE  more[c] \in codes /\ more[c] = IF f[c] = c THEN c ELSE more[f[c]]
    <3>1. CASE c < n
      <4>1. c \in Below(n) /\ more[c] = root[c]
        BY <2>2, <3>1
      <4>2. f[c] # c => f[c] \in Below(n + 1) /\ f[c] < n /\ more[f[c]] = root[f[c]]
        BY <2>2, <3>1
      <4>3. root[c] = (IF f[c] = c THEN c ELSE root[f[c]]) /\ root[c] \in codes
        BY <2>1, <4>1
      <4> HIDE DEF more
      <4> QED
        BY <4>1, <4>2, <4>3
    <3>2. CASE ~(c < n)
      <4>1. more[c] = IF f[c] = c THEN c ELSE root[f[c]]
        BY <3>2
      <4>2. f[c] # c => f[c] \in Below(n) /\ f[c] \in Below(n + 1) /\ f[c] < n /\ more[f[c]] = root[f[c]]
        BY <2>2
      <4>3. f[c] # c => root[f[c]] \in codes
        BY <2>1, <4>2
      <4> HIDE DEF more
      <4> QED
        BY <2>2, <4>1, <4>2, <4>3
    <3> QED
      BY <3>1, <3>2
  <2>4. more \in [Below(n + 1) -> codes]
    BY <2>3
  <2> HIDE DEF more, Below
  <2> QED
    BY <2>3, <2>4
<1>3. \E n \in Nat : \A c \in codes : c < n
  <2>1. CASE codes = {}
    BY <2>1
  <2>2. CASE codes # {}
    <3>0. codes \subseteq Int
      OBVIOUS
    <3>1. PICK m \in codes : \A k \in codes : k <= m
      <4> HIDE DEF T, Below
      <4> QED
        BY <2>2, <3>0, Extremes
    <3>2. m + 1 \in Nat /\ \A c \in codes : c < m + 1
      BY <3>1
    <3> QED
      BY <3>2
  <2> QED
    BY <2>1, <2>2
<1>4. PICK n \in Nat : \A c \in codes : c < n
  BY <1>3
<1>5. n \in T
  <2> HIDE DEF T
  <2> QED
    BY <1>1, <1>2, Induct
<1>6. Below(n) = codes
  BY <1>4
<1>7. PICK root \in [codes -> codes] : \A c \in codes : root[c] = IF f[c] = c THEN c ELSE root[f[c]]
  <2> HIDE DEF Below
  <2> QED
    BY <1>5, <1>6
<1>8. DOMAIN f = codes
  BY DEF Parents
<1> QED
  BY <1>7, <1>8 DEF FollowsParents

(* The root that find computes. *)
LEMMA RootIs ==
  ASSUME NEW codes, IsFiniteSet(codes), codes \subseteq Nat, NEW f \in Parents(codes), NEW c \in codes
  PROVE  /\ Root(f, c) \in codes
         /\ Root(f, c) = IF f[c] = c THEN c ELSE Root(f, f[c])
<1>1. DOMAIN f = codes /\ f[c] \in codes
  BY DEF Parents
<1>2. PICK r : r = [x \in codes |-> IF f[x] = x THEN x ELSE r[f[x]]]
  <2>0. PICK r \in [codes -> codes] : FollowsParents(r, f)
    BY RootExists
  <2>1. \A x \in codes : r[x] = IF f[x] = x THEN x ELSE r[f[x]]
    BY <1>1, <2>0 DEF FollowsParents
  <2>2. r = [x \in codes |-> r[x]]
    BY <2>0
  <2>3. r = [x \in codes |-> IF f[x] = x THEN x ELSE r[f[x]]]
    BY <2>1, <2>2
  <2> QED
    BY <2>3
<1> DEFINE root[x \in DOMAIN f] == IF f[x] = x THEN x ELSE root[f[x]]
<1>3. root = CHOOSE g : g = [x \in DOMAIN f |-> IF f[x] = x THEN x ELSE g[f[x]]]
  BY DEF root
<1>4. Root(f, c) = root[c] /\ Root(f, f[c]) = root[f[c]]
  BY DEF Root, root
<1> HIDE DEF root
<1>5. root = [x \in codes |-> IF f[x] = x THEN x ELSE root[f[x]]]
  BY <1>1, <1>2, <1>3
<1>6. \A x \in codes : root[x] = IF f[x] = x THEN x ELSE root[f[x]]
  BY <1>5
<1>7. \A x \in codes : root[x] \in codes
  <2> DEFINE Bad == {x \in codes : root[x] \notin codes}
  <2> SUFFICES ASSUME Bad # {} PROVE FALSE
    OBVIOUS
  <2>1. Bad \subseteq Nat
    OBVIOUS
  <2>2. PICK m \in Bad : \A k \in Bad : m <= k
    <3> HIDE DEF Bad
    <3> QED
      BY <2>1, LeastNumber
  <2>3. m \in codes /\ m \in Nat /\ f[m] \in codes /\ f[m] \in Nat /\ f[m] <= m
    BY DEF Parents
  <2>4. f[m] # m => f[m] \notin Bad
    BY <2>2, <2>3
  <2> QED
    BY <1>6, <2>3, <2>4
<1> QED
  BY <1>4, <1>6, <1>7

(* A root is its own parent, and has no larger code than what it is the root of. *)
LEMMA RootIsRoot ==
  ASSUME NEW codes, IsFiniteSet(codes), codes \subseteq Nat, NEW f \in Parents(codes), NEW c \in codes
  PROVE  f[Root(f, c)] = Root(f, c)
<1> DEFINE Bad == {x \in codes : f[Root(f, x)] # Root(f, x)}
<1> SUFFICES ASSUME Bad # {} PROVE FALSE
  OBVIOUS
<1>1. Bad \subseteq Nat
  OBVIOUS
<1>2. PICK m \in Bad : \A k \in Bad : m <= k
  <2> HIDE DEF Bad
  <2> QED
    BY <1>1, LeastNumber
<1>3. m \in codes /\ m \in Nat /\ f[m] \in codes /\ f[m] \in Nat /\ f[m] <= m
  BY DEF Parents
<1>4. Root(f, m) = IF f[m] = m THEN m ELSE Root(f, f[m])
  BY <1>3, RootIs
<1>5. f[m] # m => f[m] \notin Bad
  BY <1>2, <1>3
<1> QED
  BY <1>3, <1>4, <1>5

Attached(g, f, low, high) == \A c \in DOMAIN f : g[c] = IF c = high THEN low ELSE f[c]
RootsMove(g, f, low, high) == \A c \in DOMAIN f : Root(g, c) = IF Root(f, c) = high THEN low ELSE Root(f, c)

(* A root under another root takes its codes along. *)
LEMMA Attach ==
  ASSUME NEW codes, IsFiniteSet(codes), codes \subseteq Nat, NEW f \in Parents(codes),
         NEW low \in codes, NEW high \in codes, low < high, f[low] = low, f[high] = high,
         NEW g \in [codes -> codes], Attached(g, f, low, high)
  PROVE  g \in Parents(codes) /\ RootsMove(g, f, low, high)
<1>1. \A c \in codes : c \in Nat /\ f[c] \in codes /\ f[c] \in Nat /\ f[c] <= c
  BY DEF Parents
<1>0. DOMAIN f = codes
  BY DEF Parents
<1>2. \A c \in codes : g[c] = IF c = high THEN low ELSE f[c]
  BY <1>0 DEF Attached
<1>3. g \in Parents(codes)
  <2>2. low <= high
    BY <1>1
  <2>3. \A c \in codes : g[c] <= c
    BY <1>1, <1>2, <2>2
  <2> QED
    BY <2>3 DEF Parents
<1>4. low # high
  BY <1>1
<1>5. Root(g, low) = low /\ Root(f, low) = low /\ Root(f, high) = high
  <2>1. Root(g, low) = IF g[low] = low THEN low ELSE Root(g, g[low])
    BY <1>3, RootIs
  <2>2. Root(f, low) = IF f[low] = low THEN low ELSE Root(f, f[low])
    BY RootIs
  <2>3. Root(f, high) = IF f[high] = high THEN high ELSE Root(f, f[high])
    BY RootIs
  <2> QED
    BY <1>2, <1>4, <2>1, <2>2, <2>3
<1> DEFINE Bad == {c \in codes : Root(g, c) # IF Root(f, c) = high THEN low ELSE Root(f, c)}
<1>6. Bad = {}
  <2> SUFFICES ASSUME Bad # {} PROVE FALSE
    OBVIOUS
  <2>1. Bad \subseteq Nat
    OBVIOUS
  <2>2. PICK m \in Bad : \A k \in Bad : m <= k
    <3> HIDE DEF Bad
    <3> QED
      BY <2>1, LeastNumber
  <2>3. m \in codes /\ m \in Nat /\ f[m] \in codes /\ f[m] \in Nat /\ f[m] <= m
    BY <1>1
  <2>4. Root(f, m) = IF f[m] = m THEN m ELSE Root(f, f[m])
    BY <2>3, RootIs
  <2>5. Root(g, m) = IF g[m] = m THEN m ELSE Root(g, g[m])
    BY <1>3, <2>3, RootIs
  <2>6. CASE m = high
    <3>1. g[m] = low
      BY <1>2, <2>6
    <3>2. Root(g, m) = low /\ Root(f, m) = high
      BY <1>4, <1>5, <2>5, <2>6, <3>1
    <3> QED
      BY <3>2
  <2>7. CASE m # high
    <3>1. g[m] = f[m]
      BY <1>2, <2>3, <2>7
    <3>2. f[m] # m => f[m] \notin Bad
      <4>1. f[m] # m => ~(m <= f[m])
        BY <2>3
      <4> HIDE DEF Bad
      <4> QED
        BY <2>2, <4>1
    <3>3. f[m] # m => Root(g, f[m]) = IF Root(f, f[m]) = high THEN low ELSE Root(f, f[m])
      BY <2>3, <3>2
    <3>4. Root(g, m) = IF Root(f, m) = high THEN low ELSE Root(f, m)
      BY <2>4, <2>5, <2>7, <3>1, <3>3
    <3> QED
      BY <3>4
  <2> QED
    BY <2>6, <2>7
<1> QED
  BY <1>0, <1>3, <1>6 DEF RootsMove

(* union joins the codes of two roots and leaves all others alone. *)
LEMMA UnionJoins ==
  ASSUME NEW codes, IsFiniteSet(codes), codes \subseteq Nat, NEW f \in Parents(codes),
         NEW a \in codes, NEW b \in codes
  PROVE  /\ Union(f, a, b) \in Parents(codes)
         /\ Root(Union(f, a, b), a) = Root(Union(f, a, b), b)
         /\ \A c, d \in codes : Root(f, c) = Root(f, d) => Root(Union(f, a, b), c) = Root(Union(f, a, b), d)
         /\ \A X : (Root(f, a) \in X <=> Root(f, b) \in X) =>
                \A c \in codes : Root(Union(f, a, b), c) \in X <=> Root(f, c) \in X
<1> DEFINE g == Union(f, a, b)
           ra == Root(f, a)
           rb == Root(f, b)
<1>1. ra \in codes /\ rb \in codes /\ f[ra] = ra /\ f[rb] = rb
  BY RootIs, RootIsRoot
<1>2. CASE ra = rb
  <2>1. g = f
    BY <1>2 DEF Union
  <2> QED
    BY <1>2, <2>1
<1>3. ASSUME NEW low \in codes, NEW high \in codes, low < high, {low, high} = {ra, rb}
      PROVE  /\ g \in Parents(codes)
             /\ \A c \in codes : Root(g, c) = IF Root(f, c) = high THEN low ELSE Root(f, c)
  <2>1. low \in Int /\ high \in Int /\ low <= low /\ low <= high /\ high <= high
    BY <1>3
  <2>2. Min({ra, rb}) = low
    <3>1. {low, high} \subseteq Int /\ \A k \in {low, high} : low <= k
      BY <2>1
    <3>2. Min({low, high}) = low
      BY <3>1, MinIs
    <3> QED
      BY <1>3, <3>2
  <2>3. Max({ra, rb}) = high
    <3>1. {low, high} \subseteq Int /\ \A k \in {low, high} : k <= high
      BY <2>1
    <3>2. Max({low, high}) = high
      BY <3>1, MaxIs
    <3> QED
      BY <1>3, <3>2
  <2>4. f[low] = low /\ f[high] = high /\ ra # rb
    BY <1>1, <1>3, <2>1
  <2>5. g = [f EXCEPT ![high] = low]
    BY <2>2, <2>3, <2>4 DEF Union
  <2>6. low < high
    BY <1>3
  <2>7. g \in [codes -> codes] /\ \A c \in codes : g[c] = IF c = high THEN low ELSE f[c]
    BY <2>5 DEF Parents
  <2>0. DOMAIN f = codes
    BY DEF Parents
  <2>8. Attached(g, f, low, high)
    BY <2>0, <2>7 DEF Attached
  <2> HIDE DEF g
  <2>9. g \in Parents(codes) /\ RootsMove(g, f, low, high)
    BY <2>4, <2>6, <2>7, <2>8, Attach
  <2> QED
    BY <2>0, <2>9 DEF RootsMove
<1>4. ASSUME NEW low \in codes, NEW high \in codes, low < high, {low, high} = {ra, rb}
      PROVE  /\ Root(g, a) = Root(g, b)
             /\ \A c, d \in codes : Root(f, c) = Root(f, d) => Root(g, c) = Root(g, d)
             /\ \A X : (ra \in X <=> rb \in X) => \A c \in codes : Root(g, c) \in X <=> Root(f, c) \in X
  <2>1. \A c \in codes : Root(g, c) = IF Root(f, c) = high THEN low ELSE Root(f, c)
    BY <1>3, <1>4
  <2>3. low # high
    <3>1. low \in Int /\ high \in Int
      OBVIOUS
    <3> QED
      BY <1>4, <3>1
  <2>2. (ra = high /\ rb = low) \/ (ra = low /\ rb = high)
    <3> HIDE DEF ra, rb
    <3> QED
      BY <1>4, <2>3
  <2> HIDE DEF g
  <2>4. Root(g, a) = Root(g, b)
    BY <2>1, <2>2, <2>3
  <2>5. \A c, d \in codes : Root(f, c) = Root(f, d) => Root(g, c) = Root(g, d)
    BY <2>1
  <2>6. \A X : (ra \in X <=> rb \in X) => \A c \in codes : Root(g, c) \in X <=> Root(f, c) \in X
    BY <2>1, <2>2
  <2> QED
    BY <2>4, <2>5, <2>6
<1>5. CASE ra # rb
  <2>1. ra < rb \/ rb < ra
    <3>1. \A c \in codes : c \in Int
      OBVIOUS
    <3> HIDE DEF ra, rb
    <3>2. ra \in Int /\ rb \in Int
      BY <1>1, <3>1
    <3> QED
      BY <3>2, <1>5
  <2> HIDE DEF g
  <2>2. CASE ra < rb
    <3> QED
      BY <1>1, <1>3, <1>4, <2>2 DEF g
  <2>3. CASE rb < ra
    <3>1. {rb, ra} = {ra, rb}
      OBVIOUS
    <3> QED
      BY <1>1, <1>3, <1>4, <2>3, <3>1 DEF g
  <2> QED
    BY <2>1, <2>2, <2>3
<1> QED
  BY <1>2, <1>5

(* The two loops meet every pair once. *)
LEMMA PairsAre ==
  ASSUME NEW codes, IsFiniteSet(codes), codes \subseteq Nat
  PROVE  /\ Pairs(codes) \in Seq({p \in codes \X codes : p[1] < p[2]})
         /\ \A p \in codes \X codes : p[1] < p[2] => \E n \in 1 .. Len(Pairs(codes)) : Pairs(codes)[n] = p
<1> DEFINE S == {p \in codes \X codes : p[1] < p[2]}
           Before(p, q) == p[1] < q[1] \/ (p[1] = q[1] /\ p[2] < q[2])
           R == {e \in S \X S : Before(e[1], e[2])}
           q == Pairs(codes)
           N == Cardinality(S)
<1>1. IsFiniteSet(S)
  <2>1. IsFiniteSet(codes \X codes)
    BY FS_Product
  <2>2. S \in SUBSET (codes \X codes)
    OBVIOUS
  <2> HIDE DEF S
  <2> QED
    BY <2>1, <2>2, FS_Subset
<1>2. \A p \in S : p[1] \in Nat /\ p[2] \in Nat /\ p = <<p[1], p[2]>>
  <2>1. \A p \in codes \X codes : p[1] \in codes /\ p[2] \in codes /\ p = <<p[1], p[2]>>
    OBVIOUS
  <2> QED
    BY <2>1
<1>3. \A x, y \in S : <<x, y>> \in R <=> Before(x, y)
  <2> HIDE DEF S, Before
  <2> QED
    OBVIOUS
<1>4. TotalOrder(S, R)
  <2>1. \A x, y \in S : x # y => Before(x, y) \/ Before(y, x)
    <3> SUFFICES ASSUME NEW x \in S, NEW y \in S, x # y
                 PROVE  Before(x, y) \/ Before(y, x)
      OBVIOUS
    <3>1. x[1] # y[1] \/ x[2] # y[2]
      <4> HIDE DEF S
      <4> QED
        BY <1>2
    <3>2. x[1] \in Nat /\ x[2] \in Nat /\ y[1] \in Nat /\ y[2] \in Nat
      BY <1>2
    <3> HIDE DEF S
    <3> QED
      BY <3>1, <3>2
  <2>2. \A x, y, z \in S : Before(x, y) /\ Before(y, z) => Before(x, z)
    <3> HIDE DEF S
    <3> QED
      BY <1>2
  <2>3. \A x \in S : ~Before(x, x)
    <3> HIDE DEF S
    <3> QED
      BY <1>2
  <2> HIDE DEF S, R, Before
  <2> QED
    BY <1>3, <2>1, <2>2, <2>3 DEF TotalOrder
<1>5. \A x \in S : {y \in S : Before(y, x)} = Ahead(S, R, x)
  <2> HIDE DEF S, R, Before
  <2> QED
    BY <1>3 DEF Ahead
<1>6. q = [n \in 1 .. N |-> CHOOSE x \in S : Cardinality({y \in S : Before(y, x)}) = n - 1]
  BY DEF Pairs, Ordered
<1> HIDE DEF q, R, Before
<1>7. ASSUME NEW n \in 1 .. N
      PROVE  q[n] \in S /\ Cardinality(Ahead(S, R, q[n])) = n - 1
  <2>1. n - 1 \in 0 .. N - 1
    <3>1. N \in Nat
      BY <1>1, FS_CardinalityType
    <3> QED
      BY <3>1
  <2> HIDE DEF S, N
  <2>2. \E x \in S : Cardinality(Ahead(S, R, x)) = n - 1
    BY <1>1, <1>4, <2>1, Ranks DEF N
  <2>3. \E x \in S : Cardinality({y \in S : Before(y, x)}) = n - 1
    BY <1>5, <2>2
  <2>4. q[n] = CHOOSE x \in S : Cardinality({y \in S : Before(y, x)}) = n - 1
    BY <1>6
  <2>5. q[n] \in S /\ Cardinality({y \in S : Before(y, q[n])}) = n - 1
    BY <2>3, <2>4
  <2> QED
    BY <1>5, <2>5
<1>8. Sorts(q, S, R)
  <2>1. q \in [1 .. N -> S]
    <3> HIDE DEF S, N
    <3> QED
      BY <1>6, <1>7
  <2> HIDE DEF S
  <2> QED
    BY <1>1, <1>4, <1>7, <2>1, RanksSort DEF N
<1>9. q \in Seq(S) /\ Len(q) = N
  <2> HIDE DEF S
  <2> QED
    BY <1>1, <1>8, SortedIsSeq
<1>10. \A x \in S : \E n \in 1 .. N : q[n] = x
  <2> HIDE DEF S
  <2> QED
    BY <1>8 DEF Sorts
<1> QED
  BY <1>9, <1>10 DEF q

(* Codes are together in the end exactly if no set that holds one and not the other is closed under links. *)
Splits(X, codes, correlated) ==
    \A c, d \in codes : {c, d} \in correlated => (c \in X <=> d \in X)

RootsAreJoined(f, codes, correlated) ==
    /\ f \in Parents(codes)
    /\ \A c, d \in codes : {c, d} \in correlated => Root(f, c) = Root(f, d)
    /\ \A X : Splits(X, codes, correlated) => \A c \in codes : c \in X <=> Root(f, c) \in X

(* After the loops, exactly the codes that no closed set separates have one root. *)
LEMMA JoinedIs ==
  ASSUME NEW codes, IsFiniteSet(codes), codes \subseteq Nat, NEW correlated \in SUBSET PairsOf(codes)
  PROVE  RootsAreJoined(Joined(codes, correlated), codes, correlated)
<1> DEFINE pairs == Pairs(codes)
           N == Len(pairs)
           P == Parents(codes)
           same == [c \in codes |-> c]
           Step(f, n) == IF {pairs[n][1], pairs[n][2]} \in correlated
                           THEN Union(f, pairs[n][1], pairs[n][2]) ELSE f
           G == [e \in P \X (1 .. N) |-> Step(e[1], e[2])]
<1>1. /\ N \in Nat
      /\ \A n \in 1 .. N : pairs[n][1] \in codes /\ pairs[n][2] \in codes /\ pairs[n][1] < pairs[n][2]
      /\ \A c, d \in codes : c < d => \E n \in 1 .. N : pairs[n] = <<c, d>>
  <2> DEFINE S == {p \in codes \X codes : p[1] < p[2]}
  <2>1. pairs \in Seq(S) /\ \A p \in codes \X codes : p[1] < p[2] => \E n \in 1 .. N : pairs[n] = p
    BY PairsAre
  <2>2. \A p \in S : p[1] \in codes /\ p[2] \in codes /\ p[1] < p[2]
    OBVIOUS
  <2>3. N \in Nat /\ \A n \in 1 .. N : pairs[n] \in S
    <3> HIDE DEF S, pairs
    <3> QED
      BY <2>1
  <2>4. \A c, d \in codes : c < d => <<c, d>> \in codes \X codes /\ <<c, d>>[1] < <<c, d>>[2]
    OBVIOUS
  <2> HIDE DEF S, pairs, N
  <2> QED
    BY <2>1, <2>2, <2>3, <2>4
<1> HIDE DEF pairs, N
<1>2. same \in P /\ \A c \in codes : Root(same, c) = c
  <2>1. \A c \in codes : c <= c
    OBVIOUS
  <2>2. same \in P
    BY <2>1 DEF Parents
  <2>3. ASSUME NEW c \in codes
        PROVE  Root(same, c) = c
    <3>1. Root(same, c) = IF same[c] = c THEN c ELSE Root(same, same[c])
      <4> HIDE DEF same
      <4> QED
        BY <2>2, RootIs
    <3> QED
      BY <3>1
  <2> HIDE DEF same
  <2> QED
    BY <2>2, <2>3
<1>3. \A f \in P, n \in 1 .. N : Step(f, n) \in P
  <2> SUFFICES ASSUME NEW f \in P, NEW n \in 1 .. N
               PROVE  Step(f, n) \in P
    OBVIOUS
  <2>1. pairs[n][1] \in codes /\ pairs[n][2] \in codes
    BY <1>1
  <2>2. Union(f, pairs[n][1], pairs[n][2]) \in P
    <3>1. \A a, b \in codes : Union(f, a, b) \in Parents(codes)
      <4> SUFFICES ASSUME NEW a \in codes, NEW b \in codes PROVE Union(f, a, b) \in Parents(codes)
        OBVIOUS
      <4>1. f \in Parents(codes)
        OBVIOUS
      <4> HIDE DEF P
      <4> QED
        BY <4>1, UnionJoins
    <3> QED
      BY <2>1, <3>1
  <2> QED
    BY <2>2
<1>4. G \in [P \X (1 .. N) -> P]
  <2> HIDE DEF Step, P
  <2> QED
    BY <1>3
<1>5. PICK h \in [0 .. N -> P] : Iterates(h, same, N, G)
  <2>1. N \in Nat /\ same \in P
    BY <1>1, <1>2
  <2> HIDE DEF G, P, same
  <2> QED
    BY <2>1, <1>4, Recursion
<1>6. h[0] = same /\ \A n \in 1 .. N : h[n - 1] \in P /\ h[n] = Step(h[n - 1], n)
  <2>1. h[0] = same
    BY <1>5 DEF Iterates
  <2>2. ASSUME NEW n \in 1 .. N
        PROVE  h[n - 1] \in P /\ h[n] = Step(h[n - 1], n)
    <3>1. n - 1 \in 0 .. N
      BY <1>1
    <3> HIDE DEF P, Step, same
    <3>2. h[n - 1] \in P
      BY <1>5, <3>1
    <3>3. <<h[n - 1], n>> \in P \X (1 .. N)
      BY <3>2
    <3>4. h[n] = G[<<h[n - 1], n>>]
      <4> HIDE DEF G
      <4> QED
        BY <1>5 DEF Iterates
    <3> QED
      BY <3>2, <3>3, <3>4
  <2> HIDE DEF P, Step, same
  <2> QED
    BY <2>1, <2>2
<1> DEFINE parent[n \in 0 .. N] == IF n = 0 THEN same ELSE Step(parent[n - 1], n)
<1>7. parent = CHOOSE g : g = [n \in 0 .. N |-> IF n = 0 THEN same ELSE Step(g[n - 1], n)]
  BY DEF parent
<1>8. Joined(codes, correlated) = parent[N]
  BY DEF Joined, parent, pairs, N
<1> HIDE DEF parent
<1>9. h = [n \in 0 .. N |-> IF n = 0 THEN same ELSE Step(h[n - 1], n)]
  <2>1. \A n \in 0 .. N : h[n] = IF n = 0 THEN same ELSE Step(h[n - 1], n)
    <3>1. \A n \in 0 .. N : n # 0 => n \in 1 .. N
      BY <1>1
    <3> HIDE DEF P, Step, same
    <3> QED
      BY <1>6, <3>1
  <2>2. h = [n \in 0 .. N |-> h[n]]
    <3> HIDE DEF P
    <3> QED
      OBVIOUS
  <2> HIDE DEF P, Step, same
  <2> QED
    BY <2>1, <2>2
<1>10. parent = [n \in 0 .. N |-> IF n = 0 THEN same ELSE Step(parent[n - 1], n)]
  <2> HIDE DEF P, Step, same
  <2> QED
    BY <1>7, <1>9
<1> DEFINE Linked(n, c, d) == \E m \in 1 .. n : pairs[m] = <<c, d>> /\ {c, d} \in correlated
           Upto(n) ==
             /\ parent[n] \in P
             /\ \A c, d \in codes : Linked(n, c, d) => Root(parent[n], c) = Root(parent[n], d)
             /\ \A X : Splits(X, codes, correlated) => \A c \in codes : c \in X <=> Root(parent[n], c) \in X
           T == {n \in Nat : n <= N => Upto(n)}
<1>11. 0 \in T
  <2>1. parent[0] = same
    <3> HIDE DEF same, Step
    <3>1. 0 \in 0 .. N
      BY <1>1
    <3> QED
      BY <1>10, <3>1
  <2>2. \A c, d \in codes : ~Linked(0, c, d)
    OBVIOUS
  <2> HIDE DEF same, P, Linked
  <2>3. Upto(0)
    BY <1>2, <2>1, <2>2
  <2> QED
    BY <2>3
<1>12. ASSUME NEW n \in Nat, n \in T
       PROVE  n + 1 \in T
  <2> SUFFICES ASSUME n + 1 <= N PROVE Upto(n + 1)
    OBVIOUS
  <2> DEFINE m == n + 1
             f == parent[n]
             g == parent[m]
             a == pairs[m][1]
             b == pairs[m][2]
  <2>1. m \in 1 .. N /\ m \in 0 .. N /\ m # 0 /\ m - 1 = n /\ n <= N
    BY <1>1
  <2>2. Upto(n)
    BY <1>12, <2>1
  <2>3. g = Step(f, m)
    <3>1. parent[m] = Step(parent[m - 1], m)
      <4> HIDE DEF Step, same, m
      <4> QED
        BY <1>10, <2>1
    <3> QED
      BY <2>1, <3>1
  <2>4. a \in codes /\ b \in codes
    BY <1>1, <2>1
  <2>5. ASSUME NEW c \in codes, NEW d \in codes, Linked(m, c, d)
        PROVE  Linked(n, c, d) \/ (c = a /\ d = b /\ {a, b} \in correlated)
    <3>1. PICK k \in 1 .. m : pairs[k] = <<c, d>> /\ {c, d} \in correlated
      BY <2>5
    <3>2. k \in 1 .. n \/ k = m
      OBVIOUS
    <3>3. CASE k \in 1 .. n
      BY <3>1, <3>3
    <3>4. CASE k = m
      <4>1. a = c /\ b = d
        BY <3>1, <3>4
      <4> HIDE DEF a, b
      <4> QED
        BY <3>1, <4>1
    <3> QED
      BY <3>2, <3>3, <3>4
  <2>6. CASE {a, b} \notin correlated
    <3>1. g = f
      BY <2>3, <2>6
    <3> HIDE DEF Linked, g, f, a, b
    <3> QED
      BY <2>2, <2>5, <2>6, <3>1 DEF g, f
  <2>7. CASE {a, b} \in correlated
    <3>1. g = Union(f, a, b)
      BY <2>3, <2>7
    <3>2. f \in P
      BY <2>2
    <3> HIDE DEF f, a, b, g, Linked
    <3>3. /\ g \in P
          /\ Root(g, a) = Root(g, b)
          /\ \A c, d \in codes : Root(f, c) = Root(f, d) => Root(g, c) = Root(g, d)
          /\ \A X : (Root(f, a) \in X <=> Root(f, b) \in X) =>
                \A c \in codes : Root(g, c) \in X <=> Root(f, c) \in X
      <4>1. f \in Parents(codes)
        BY <3>2
      <4> HIDE DEF P
      <4>2. /\ Union(f, a, b) \in Parents(codes)
            /\ Root(Union(f, a, b), a) = Root(Union(f, a, b), b)
            /\ \A c, d \in codes : Root(f, c) = Root(f, d) => Root(Union(f, a, b), c) = Root(Union(f, a, b), d)
            /\ \A X : (Root(f, a) \in X <=> Root(f, b) \in X) =>
                   \A c \in codes : Root(Union(f, a, b), c) \in X <=> Root(f, c) \in X
        BY <2>4, <4>1, UnionJoins
      <4> QED
        BY <3>1, <4>2 DEF P
    <3>4. ASSUME NEW c \in codes, NEW d \in codes, Linked(m, c, d)
          PROVE  Root(g, c) = Root(g, d)
      <4>1. CASE Linked(n, c, d)
        <5>1. Root(f, c) = Root(f, d)
          BY <2>2, <4>1 DEF f
        <5> QED
          BY <3>3, <5>1
      <4>2. CASE c = a /\ d = b
        BY <3>3, <4>2
      <4> QED
        BY <2>5, <3>4, <4>1, <4>2
    <3>5. ASSUME NEW X, Splits(X, codes, correlated), NEW c \in codes
          PROVE  c \in X <=> Root(g, c) \in X
      <4>1. \A e \in codes : e \in X <=> Root(f, e) \in X
        BY <2>2, <3>5 DEF f
      <4>2. a \in X <=> b \in X
        BY <2>4, <2>7, <3>5 DEF Splits
      <4>3. Root(f, a) \in X <=> Root(f, b) \in X
        BY <2>4, <4>1, <4>2
      <4> QED
        BY <3>3, <4>1, <4>3
    <3> QED
      BY <3>3, <3>4, <3>5 DEF g
  <2> QED
    BY <2>6, <2>7
<1>13. Upto(N)
  <2>1. \A n \in Nat : n \in T
    <3> HIDE DEF T
    <3> QED
      BY <1>11, <1>12, Induct
  <2>2. N <= N
    BY <1>1
  <2> HIDE DEF Upto
  <2> QED
    BY <1>1, <2>1, <2>2
<1>14. ASSUME NEW c \in codes, NEW d \in codes, {c, d} \in correlated
       PROVE  Root(parent[N], c) = Root(parent[N], d)
  <2>1. c # d
    <3>1. PICK p \in codes \X codes : p[1] < p[2] /\ {c, d} = {p[1], p[2]}
      BY <1>14 DEF PairsOf
    <3>2. p[1] \in Nat /\ p[2] \in Nat
      BY <3>1
    <3>3. p[1] # p[2]
      BY <3>1, <3>2
    <3> QED
      BY <3>1, <3>3
  <2>2. c < d \/ d < c
    <3>1. c \in Nat /\ d \in Nat
      OBVIOUS
    <3> QED
      BY <2>1, <3>1
  <2>3. {c, d} = {d, c}
    OBVIOUS
  <2>4. Linked(N, c, d) \/ Linked(N, d, c)
    BY <1>1, <1>14, <2>2, <2>3
  <2> HIDE DEF Linked
  <2> QED
    BY <1>13, <2>4
<1> QED
  <2> HIDE DEF P
  <2>1. parent[N] \in Parents(codes)
    BY <1>13 DEF P
  <2> QED
    BY <1>8, <1>13, <1>14, <2>1 DEF RootsAreJoined

(* Reach finds the least set that is closed under correlated pairs. *)
LEMMA ReachIs ==
  ASSUME NEW codes, IsFiniteSet(codes), NEW correlated, NEW a \in codes
  PROVE  /\ a \in Reach(codes, correlated, a)
         /\ Splits(Reach(codes, correlated, a), codes, correlated)
         /\ \A X : a \in X /\ Splits(X, codes, correlated) => Reach(codes, correlated, a) \subseteq X
<1> DEFINE N == Cardinality(codes)
           P == SUBSET codes
           Around(X) == UNION {Near(codes, correlated, c) : c \in X}
           G == [e \in P \X (1 .. N) |-> e[1] \cup Around(e[1])]
<1>1. N \in Nat
  BY FS_CardinalityType
<1>2. \A X \in P : X \cup Around(X) \in P
  BY DEF Near
<1>3. G \in [P \X (1 .. N) -> P]
  <2> HIDE DEF P, Around
  <2> QED
    BY <1>2
<1>4. {a} \in P
  OBVIOUS
<1>5. PICK h \in [0 .. N -> P] : Iterates(h, {a}, N, G)
  <2> HIDE DEF G, P, N
  <2> QED
    BY <1>1, <1>3, <1>4, Recursion
<1>6. \A n \in 0 .. N : h[n] = IF n = 0 THEN {a} ELSE h[n - 1] \cup Around(h[n - 1])
  <2>1. h[0] = {a}
    BY <1>5 DEF Iterates
  <2>2. ASSUME NEW n \in 1 .. N
        PROVE  h[n] = h[n - 1] \cup Around(h[n - 1])
    <3>1. n - 1 \in 0 .. N
      BY <1>1
    <3> HIDE DEF P, Around, N
    <3>2. <<h[n - 1], n>> \in P \X (1 .. N)
      BY <1>5, <3>1
    <3>3. h[n] = G[<<h[n - 1], n>>]
      <4> HIDE DEF G
      <4> QED
        BY <1>5 DEF Iterates
    <3> QED
      BY <3>2, <3>3
  <2>3. \A n \in 0 .. N : n # 0 => n \in 1 .. N
    BY <1>1
  <2> HIDE DEF P, Around, N
  <2> QED
    BY <2>1, <2>2, <2>3
<1> DEFINE reach[k \in 0 .. N] == IF k = 0 THEN {a} ELSE reach[k - 1] \cup Around(reach[k - 1])
<1>7. reach = CHOOSE g : g = [k \in 0 .. N |-> IF k = 0 THEN {a} ELSE g[k - 1] \cup Around(g[k - 1])]
  BY DEF reach
<1>8. Reach(codes, correlated, a) = reach[N]
  BY DEF Reach, reach
<1> HIDE DEF reach
<1>9. h = [k \in 0 .. N |-> IF k = 0 THEN {a} ELSE h[k - 1] \cup Around(h[k - 1])]
  <2>1. h = [k \in 0 .. N |-> h[k]]
    <3> HIDE DEF P
    <3> QED
      OBVIOUS
  <2> HIDE DEF P, Around, N
  <2> QED
    BY <1>6, <2>1
<1>10. reach = [k \in 0 .. N |-> IF k = 0 THEN {a} ELSE reach[k - 1] \cup Around(reach[k - 1])]
  <2> HIDE DEF P, Around, N
  <2> QED
    BY <1>7, <1>9
<1>11. /\ reach[0] = {a}
       /\ \A k \in Nat : k + 1 <= N => reach[k + 1] = reach[k] \cup Around(reach[k])
  <2>1. 0 \in 0 .. N /\ \A k \in Nat : k + 1 <= N => k + 1 \in 0 .. N /\ k + 1 # 0 /\ (k + 1) - 1 = k
    BY <1>1
  <2> HIDE DEF Around, N
  <2>2. reach[0] = {a}
    BY <1>10, <2>1
  <2>3. ASSUME NEW k \in Nat, k + 1 <= N
        PROVE  reach[k + 1] = reach[k] \cup Around(reach[k])
    <3>1. k + 1 \in 0 .. N /\ k + 1 # 0 /\ (k + 1) - 1 = k
      BY <2>1, <2>3
    <3> DEFINE m == k + 1
    <3> HIDE DEF m
    <3>2. reach[m] = IF m = 0 THEN {a} ELSE reach[m - 1] \cup Around(reach[m - 1])
      BY <1>10, <3>1 DEF m
    <3> QED
      BY <3>1, <3>2 DEF m
  <2> QED
    BY <2>2, <2>3
<1> DEFINE Good(k) ==
             /\ reach[k] \in P /\ a \in reach[k]
             /\ Around(reach[k]) \subseteq reach[k] \/ Cardinality(reach[k]) >= k + 1
             /\ \A X : a \in X /\ Splits(X, codes, correlated) => reach[k] \subseteq X
           T == {k \in Nat : k <= N => Good(k)}
<1>12. 0 \in T
  <2>1. Cardinality({a}) = 1
    BY FS_Singleton
  <2> HIDE DEF Around
  <2>2. Good(0)
    BY <1>11, <2>1
  <2> QED
    BY <2>2
<1>13. ASSUME NEW k \in Nat, k \in T
       PROVE  k + 1 \in T
  <2> SUFFICES ASSUME k + 1 <= N PROVE Good(k + 1)
    OBVIOUS
  <2>1. Good(k)
    BY <1>1, <1>13
  <2>2. reach[k + 1] = reach[k] \cup Around(reach[k])
    BY <1>11
  <2>3. reach[k + 1] \in P /\ a \in reach[k + 1]
    <3> HIDE DEF P, Around, N
    <3> QED
      BY <1>2, <2>1, <2>2
  <2>4. Around(reach[k + 1]) \subseteq reach[k + 1] \/ Cardinality(reach[k + 1]) >= (k + 1) + 1
    <3>1. CASE Around(reach[k]) \subseteq reach[k]
      <4>1. reach[k + 1] = reach[k]
        <5> HIDE DEF Around
        <5> QED
          BY <2>2, <3>1
      <4> HIDE DEF Around
      <4> QED
        BY <3>1, <4>1
    <3>2. CASE ~(Around(reach[k]) \subseteq reach[k])
      <4>1. PICK x : x \in Around(reach[k]) /\ x \notin reach[k]
        <5> HIDE DEF Around
        <5> QED
          BY <3>2
      <4>2. reach[k] \subseteq reach[k + 1] /\ x \in reach[k + 1] /\ reach[k] # reach[k + 1]
        <5> HIDE DEF Around
        <5> QED
          BY <2>2, <4>1
      <4>3. IsFiniteSet(reach[k + 1])
        BY <2>3, FS_Subset
      <4>4. Cardinality(reach[k]) <= Cardinality(reach[k + 1]) /\ Cardinality(reach[k]) # Cardinality(reach[k + 1])
        <5>1. reach[k] \in SUBSET reach[k + 1]
          BY <4>2
        <5> QED
          BY <4>2, <4>3, <5>1, FS_Subset
      <4>5. Cardinality(reach[k]) \in Nat /\ Cardinality(reach[k + 1]) \in Nat
        <5>1. IsFiniteSet(reach[k])
          BY <2>1, FS_Subset
        <5> QED
          BY <4>3, <5>1, FS_CardinalityType
      <4>6. Cardinality(reach[k]) >= k + 1
        BY <2>1, <3>2
      <4> QED
        BY <4>4, <4>5, <4>6
    <3> QED
      BY <3>1, <3>2
  <2>5. ASSUME NEW X, a \in X, Splits(X, codes, correlated)
        PROVE  reach[k + 1] \subseteq X
    <3>1. reach[k] \subseteq X /\ reach[k] \subseteq codes
      BY <2>1, <2>5
    <3>2. Around(reach[k]) \subseteq X
      <4> SUFFICES ASSUME NEW c \in reach[k], NEW x \in Near(codes, correlated, c)
                   PROVE  x \in X
        OBVIOUS
      <4>1. x \in codes /\ {c, x} \in correlated /\ c \in codes /\ c \in X
        BY <3>1 DEF Near
      <4> QED
        BY <2>5, <4>1 DEF Splits
    <3> HIDE DEF Around
    <3> QED
      BY <2>2, <3>1, <3>2
  <2> HIDE DEF P, Around
  <2> QED
    BY <2>3, <2>4, <2>5
<1>14. Good(N)
  <2>1. \A k \in Nat : k \in T
    <3> HIDE DEF T
    <3> QED
      BY <1>12, <1>13, Induct
  <2>2. N <= N
    BY <1>1
  <2> HIDE DEF Good
  <2> QED
    BY <1>1, <2>1, <2>2
<1>15. Around(reach[N]) \subseteq reach[N]
  <2>1. Cardinality(reach[N]) <= N
    <3>1. reach[N] \in SUBSET codes
      BY <1>14
    <3> QED
      BY <3>1, FS_Subset
  <2>2. Cardinality(reach[N]) \in Nat
    <3>1. IsFiniteSet(reach[N])
      BY <1>14, FS_Subset
    <3> QED
      BY <3>1, FS_CardinalityType
  <2> HIDE DEF N, Around
  <2> QED
    BY <1>1, <1>14, <2>1, <2>2
<1>16. Splits(reach[N], codes, correlated)
  <2> SUFFICES ASSUME NEW c \in codes, NEW d \in codes, {c, d} \in correlated
               PROVE  c \in reach[N] <=> d \in reach[N]
    BY DEF Splits
  <2>1. {d, c} = {c, d}
    OBVIOUS
  <2>2. d \in Near(codes, correlated, c) /\ c \in Near(codes, correlated, d)
    BY <2>1 DEF Near
  <2>3. c \in reach[N] => d \in Around(reach[N])
    BY <2>2
  <2>4. d \in reach[N] => c \in Around(reach[N])
    BY <2>2
  <2> HIDE DEF Around
  <2> QED
    BY <1>15, <2>3, <2>4
<1> QED
  <2> HIDE DEF Around, P
  <2> QED
    BY <1>8, <1>14, <1>16

(* The union-find is right: roots are shared along chains of correlated pairs, and nowhere else. *)
LEMMA SameRootIsReach ==
  ASSUME NEW codes, IsFiniteSet(codes), NEW correlated,
         NEW f, RootsAreJoined(f, codes, correlated), NEW a \in codes, NEW b \in codes
  PROVE  Root(f, a) = Root(f, b) <=> b \in Reach(codes, correlated, a)
<1>1. ASSUME Root(f, a) = Root(f, b)
      PROVE  b \in Reach(codes, correlated, a)
  <2> DEFINE X == Reach(codes, correlated, a)
  <2>1. a \in X /\ Splits(X, codes, correlated)
    BY ReachIs
  <2> HIDE DEF X
  <2>2. \A c \in codes : c \in X <=> Root(f, c) \in X
    BY <2>1 DEF RootsAreJoined
  <2> QED
    BY <1>1, <2>1, <2>2 DEF X
<1>2. ASSUME b \in Reach(codes, correlated, a)
      PROVE  Root(f, a) = Root(f, b)
  <2> DEFINE X == {c \in codes : Root(f, c) = Root(f, a)}
  <2>1. a \in X
    OBVIOUS
  <2>2. Splits(X, codes, correlated)
    BY DEF Splits, RootsAreJoined
  <2> HIDE DEF X
  <2>3. b \in X
    BY <1>2, <2>1, <2>2, ReachIs
  <2> QED
    BY <2>3 DEF X
<1> QED
  BY <1>1, <1>2

AreApart(all, codes) ==
    /\ IsFiniteSet(all)
    /\ \A g \in all : g \subseteq codes /\ IsFiniteSet(g) /\ Min(g) \in g
    /\ \A g, h \in all : g # h => g \cap h = {}

(* Groups are disjoint, and each has a smallest code. *)
LEMMA GroupsAreApart ==
  ASSUME NEW codes, IsFiniteSet(codes), codes \subseteq Nat, NEW f
  PROVE  AreApart(Groups(codes, f), codes)
<1> DEFINE Of(d) == {c \in codes : Root(f, c) = Root(f, d)}
           T == Groups(codes, f)
<1>1. T = {Of(d) : d \in codes}
  BY DEF Groups
<1>2. IsFiniteSet(T)
  <2> DEFINE m == [d \in codes |-> Of(d)]
  <2>1. m \in Surjection(codes, T)
    <3> HIDE DEF T, Of
    <3> QED
      BY <1>1 DEF Surjection
  <2> HIDE DEF m, T
  <2> QED
    BY <2>1, FS_Surjection
<1>3. ASSUME NEW d \in codes
      PROVE  Of(d) \subseteq codes /\ IsFiniteSet(Of(d)) /\ Min(Of(d)) \in Of(d)
  <2>1. Of(d) \subseteq codes /\ d \in Of(d)
    OBVIOUS
  <2> HIDE DEF Of
  <2>2. IsFiniteSet(Of(d))
    BY <2>1, FS_Subset
  <2>3. Of(d) \subseteq Int /\ Of(d) # {}
    <3>1. codes \subseteq Int
      OBVIOUS
    <3> QED
      BY <2>1, <3>1
  <2>4. PICK x \in Of(d) : \A k \in Of(d) : x <= k
    BY <2>2, <2>3, Extremes
  <2>5. Min(Of(d)) = x
    BY <2>3, <2>4, MinIs
  <2> QED
    BY <2>1, <2>2, <2>5
<1>4. ASSUME NEW d \in codes, NEW e \in codes, Of(d) # Of(e)
      PROVE  Of(d) \cap Of(e) = {}
  BY <1>4
<1> HIDE DEF Of, T
<1> QED
  BY <1>1, <1>2, <1>3, <1>4 DEF T, AreApart

(* Two codes are in one group exactly if they have one root. *)
LEMMA GroupsShareRoots ==
  ASSUME NEW codes, NEW f, NEW a \in codes, NEW b \in codes
  PROVE  Root(f, a) = Root(f, b) <=> \E g \in Groups(codes, f) : a \in g /\ b \in g
<1> DEFINE Of(d) == {c \in codes : Root(f, c) = Root(f, d)}
<1>1. Groups(codes, f) = {Of(d) : d \in codes}
  BY DEF Groups
<1>2. Root(f, a) = Root(f, b) <=> \E d \in codes : a \in Of(d) /\ b \in Of(d)
  OBVIOUS
<1> HIDE DEF Of
<1> QED
  BY <1>1, <1>2

(* The list of clusters has all groups of at least two codes, by their smallest codes. *)
LEMMA ClustersAre ==
  ASSUME NEW codes, IsFiniteSet(codes), codes \subseteq Nat, NEW correlated
  PROVE  LET all == Groups(codes, Joined(codes, correlated))
             groups == Clusters(codes, correlated)
         IN  /\ groups \in Seq(all) /\ Len(groups) \in Nat
             /\ \A g \in all : Cardinality(g) > 1 => \E k \in 1 .. Len(groups) : groups[k] = g
             /\ \A j, k \in 1 .. Len(groups) : j < k => Min(groups[j]) < Min(groups[k])
<1> DEFINE all == Groups(codes, Joined(codes, correlated))
           S == {g \in all : Cardinality(g) > 1}
           R == {e \in S \X S : Min(e[1]) < Min(e[2])}
           q == Clusters(codes, correlated)
           N == Cardinality(S)
<1>0. AreApart(all, codes)
  BY GroupsAreApart
<1> HIDE DEF all
<1>1. IsFiniteSet(S)
  <2>1. IsFiniteSet(all)
    BY <1>0 DEF AreApart
  <2>2. S \in SUBSET all
    OBVIOUS
  <2> HIDE DEF S
  <2> QED
    BY <2>1, <2>2, FS_Subset
<1>2. /\ \A g \in S : Min(g) \in g /\ Min(g) \in Nat
      /\ \A g, h \in S : g # h => Min(g) # Min(h)
  <2>1. /\ \A g \in all : g \subseteq codes /\ Min(g) \in g
        /\ \A g, h \in all : g # h => g \cap h = {}
    <3> HIDE DEF S, R, q, N
    <3> QED
      BY <1>0 DEF AreApart
  <2>2. S \subseteq all
    OBVIOUS
  <2> HIDE DEF S
  <2>3. \A g \in S : Min(g) \in g /\ Min(g) \in Nat
    BY <2>1, <2>2
  <2>4. ASSUME NEW g \in S, NEW h \in S, g # h
        PROVE  Min(g) # Min(h)
    <3>1. Min(g) \in g /\ Min(h) \in h /\ g \cap h = {}
      BY <2>1, <2>2, <2>4
    <3> QED
      BY <3>1
  <2> QED
    BY <2>3, <2>4
<1>3. \A x, y \in S : <<x, y>> \in R <=> Min(x) < Min(y)
  <2> HIDE DEF S
  <2> QED
    OBVIOUS
<1>4. TotalOrder(S, R)
  <2> DEFINE v(g) == Min(g)
  <2>1. \A g \in S : v(g) \in Nat
    BY <1>2
  <2>2. \A x, y \in S : x # y => v(x) # v(y)
    BY <1>2
  <2>3. \A x, y \in S : <<x, y>> \in R <=> v(x) < v(y)
    BY <1>3
  <2> HIDE DEF S, R, v
  <2> QED
    BY <2>1, <2>2, <2>3 DEF TotalOrder
<1>5. \A x \in S : {y \in S : Min(y) < Min(x)} = Ahead(S, R, x)
  <2> HIDE DEF S, R
  <2> QED
    BY <1>3 DEF Ahead
<1>6. q = [n \in 1 .. N |-> CHOOSE x \in S : Cardinality({y \in S : Min(y) < Min(x)}) = n - 1]
  BY DEF Clusters, Ordered, all
<1> HIDE DEF q, R
<1>7. ASSUME NEW n \in 1 .. N
      PROVE  q[n] \in S /\ Cardinality(Ahead(S, R, q[n])) = n - 1
  <2>1. n - 1 \in 0 .. N - 1
    <3>1. N \in Nat
      BY <1>1, FS_CardinalityType
    <3> QED
      BY <3>1
  <2> HIDE DEF S, N
  <2>2. \E x \in S : Cardinality(Ahead(S, R, x)) = n - 1
    BY <1>1, <1>4, <2>1, Ranks DEF N
  <2>3. \E x \in S : Cardinality({y \in S : Min(y) < Min(x)}) = n - 1
    BY <1>5, <2>2
  <2>4. q[n] = CHOOSE x \in S : Cardinality({y \in S : Min(y) < Min(x)}) = n - 1
    BY <1>6
  <2>5. q[n] \in S /\ Cardinality({y \in S : Min(y) < Min(q[n])}) = n - 1
    BY <2>3, <2>4
  <2> QED
    BY <1>5, <2>5
<1>8. Sorts(q, S, R)
  <2>1. q \in [1 .. N -> S]
    <3> HIDE DEF S, N
    <3> QED
      BY <1>6, <1>7
  <2> HIDE DEF S
  <2> QED
    BY <1>1, <1>4, <1>7, <2>1, RanksSort DEF N
<1>9. q \in Seq(S) /\ Len(q) = N /\ N \in Nat
  <2> HIDE DEF S
  <2> QED
    BY <1>1, <1>8, SortedIsSeq
<1>10. /\ \A x \in S : \E n \in 1 .. N : q[n] = x
       /\ \A i, j \in 1 .. N : i < j => <<q[i], q[j]>> \in R
  <2> HIDE DEF S
  <2> QED
    BY <1>8 DEF Sorts
<1>11. \A n \in 1 .. N : q[n] \in S
  BY <1>7
<1>12. q \in Seq(all)
  <2>1. S \subseteq all
    OBVIOUS
  <2> HIDE DEF S
  <2> QED
    BY <1>9, <2>1, SeqMonotonic
<1>13. \A g \in all : Cardinality(g) > 1 => g \in S
  OBVIOUS
<1> HIDE DEF S, N
<1> QED
  BY <1>3, <1>9, <1>10, <1>11, <1>12, <1>13 DEF q, all

(* Two codes share a cluster exactly if correlated pairs lead from one to the other. *)
LEMMA ClustersConnectCodes ==
  ASSUME NEW codes, IsFiniteSet(codes), codes \subseteq Nat, NEW correlated \in SUBSET PairsOf(codes)
  PROVE  LET groups == Clusters(codes, correlated)
         IN  /\ \A a, b \in codes : a # b =>
                   ((\E k \in DOMAIN groups : {a, b} \subseteq groups[k]) <=> b \in Reach(codes, correlated, a))
             /\ \A j, k \in DOMAIN groups : j < k => Min(groups[j]) < Min(groups[k])
<1> DEFINE f == Joined(codes, correlated)
           all == Groups(codes, f)
           groups == Clusters(codes, correlated)
<1>1. RootsAreJoined(f, codes, correlated)
  BY JoinedIs
<1> HIDE DEF f
<1>2. /\ groups \in Seq(all) /\ Len(groups) \in Nat
      /\ \A g \in all : Cardinality(g) > 1 => \E k \in 1 .. Len(groups) : groups[k] = g
      /\ \A j, k \in 1 .. Len(groups) : j < k => Min(groups[j]) < Min(groups[k])
  BY ClustersAre DEF f
<1> HIDE DEF groups
<1>3. DOMAIN groups = 1 .. Len(groups) /\ \A k \in 1 .. Len(groups) : groups[k] \in all
  <2> HIDE DEF all
  <2> QED
    BY <1>2
<1>4. ASSUME NEW a \in codes, NEW b \in codes, a # b
      PROVE  (\E k \in DOMAIN groups : {a, b} \subseteq groups[k]) <=> b \in Reach(codes, correlated, a)
  <2>1. Root(f, a) = Root(f, b) <=> b \in Reach(codes, correlated, a)
    BY <1>1, SameRootIsReach
  <2>2. Root(f, a) = Root(f, b) <=> \E g \in all : a \in g /\ b \in g
    BY GroupsShareRoots
  <2>3. ASSUME NEW g \in all, a \in g, b \in g
        PROVE  Cardinality(g) > 1
    <3>1. IsFiniteSet(g)
      BY GroupsAreApart DEF AreApart
    <3>2. Cardinality(g) \in Nat /\ Cardinality(g) # 0 /\ Cardinality(g) # 1
      BY <1>4, <2>3, <3>1, FS_CardinalityType, FS_EmptySet, FS_Singleton
    <3> QED
      BY <3>2
  <2> HIDE DEF all
  <2> QED
    BY <1>2, <1>3, <2>1, <2>2, <2>3
<1> QED
  BY <1>2, <1>3, <1>4 DEF groups

-----------------------------------------------------------------------------
(* The choice of the stocks. *)
ResultsAreSound ==
    /\ IsFiniteSet(results)
    /\ \A r \in results : r.code \in Nat /\ r.ret \in Int /\ r.score \in Int
    /\ \A r, s \in results : r.code = s.code => r = s

(* The smaller of two numbers. *)
LEMMA MinOfTwo ==
  ASSUME NEW m \in Int, NEW n \in Int
  PROVE  Min({m, n}) = IF m <= n THEN m ELSE n
<1>1. CASE m <= n
  <2>1. m \in {m, n} /\ {m, n} \subseteq Int /\ \A k \in {m, n} : m <= k
    BY <1>1
  <2>2. Min({m, n}) = m
    BY <2>1, MinIs
  <2> QED
    BY <1>1, <2>2
<1>2. CASE ~(m <= n)
  <2>1. n \in {m, n} /\ {m, n} \subseteq Int /\ \A k \in {m, n} : n <= k
    BY <1>2
  <2>2. Min({m, n}) = n
    BY <2>1, MinIs
  <2> QED
    BY <1>2, <2>2
<1> QED
  BY <1>1, <1>2

(* The first elements of a list. *)
LEMMA FirstOfIs ==
  ASSUME NEW S, NEW q \in Seq(S), NEW n \in Nat
  PROVE  /\ FirstOf(q, n) \in Seq(S)
         /\ Len(FirstOf(q, n)) = IF n <= Len(q) THEN n ELSE Len(q)
         /\ \A i \in 1 .. Len(FirstOf(q, n)) : FirstOf(q, n)[i] = q[i]
<1> DEFINE m == IF n <= Len(q) THEN n ELSE Len(q)
<1>1. Len(q) \in Nat
  OBVIOUS
<1>2. m \in Nat /\ m <= Len(q)
  BY <1>1
<1>3. Min({n, Len(q)}) = m
  BY <1>1, MinOfTwo
<1>4. FirstOf(q, n) = SubSeq(q, 1, m)
  BY <1>3 DEF FirstOf
<1> HIDE DEF m
<1>5. SubSeq(q, 1, m) \in Seq(S) /\ Len(SubSeq(q, 1, m)) = m /\ \A i \in 1 .. m : SubSeq(q, 1, m)[i] = q[i]
  BY <1>1, <1>2
<1> QED
  BY <1>4, <1>5 DEF m

(* Lists by return, and by score. *)
IsList(q, S) ==
    /\ q \in Seq(S) /\ Len(q) \in Nat /\ Len(q) = Cardinality(S)
    /\ \A x \in S : \E n \in 1 .. Len(q) : q[n] = x
    /\ \A i, j \in 1 .. Len(q) : i # j => q[i] # q[j]

(* A sorted set as a list: all of it, nothing twice. *)
LEMMA SortedIsList ==
  ASSUME NEW S, IsFiniteSet(S), NEW R, TotalOrder(S, R), NEW q, Sorts(q, S, R)
  PROVE  IsList(q, S) /\ \A i, j \in 1 .. Len(q) : i < j => <<q[i], q[j]>> \in R
<1>1. q \in Seq(S) /\ Len(q) = Cardinality(S) /\ Len(q) \in Nat
  BY SortedIsSeq
<1>2. /\ \A x \in S : \E n \in 1 .. Len(q) : q[n] = x
      /\ \A i, j \in 1 .. Len(q) : i < j => <<q[i], q[j]>> \in R
  BY <1>1 DEF Sorts
<1>3. ASSUME NEW i \in 1 .. Len(q), NEW j \in 1 .. Len(q), i # j
      PROVE  q[i] # q[j]
  <2>1. i < j \/ j < i
    BY <1>1, <1>3
  <2>2. <<q[i], q[j]>> \in R \/ <<q[j], q[i]>> \in R
    BY <1>2, <2>1
  <2>3. q[i] \in S
    BY <1>1
  <2> QED
    BY <2>2, <2>3 DEF TotalOrder
<1> QED
  BY <1>1, <1>2, <1>3 DEF IsList

(* Both comparisons order the results, because codes are different. *)
LEMMA ByReturnOrders ==
  ASSUME ResultsAreSound
  PROVE  /\ \A x, y \in results : x # y => ByReturnThenCode(x, y) \/ ByReturnThenCode(y, x)
         /\ \A x, y, z \in results : ByReturnThenCode(x, y) /\ ByReturnThenCode(y, z) => ByReturnThenCode(x, z)
         /\ \A x \in results : ~ByReturnThenCode(x, x)
<1>1. \A r \in results : r.code \in Int /\ r.ret \in Int /\ r.score \in Int
  BY DEF ResultsAreSound
<1>2. \A r, s \in results : r # s => r.code # s.code
  BY DEF ResultsAreSound
<1>3. ASSUME NEW x \in results, NEW y \in results, x # y
      PROVE  ByReturnThenCode(x, y) \/ ByReturnThenCode(y, x)
  BY <1>1, <1>2, <1>3 DEF ByReturnThenCode, ByReturn
<1>4. ASSUME NEW x \in results, NEW y \in results, NEW z \in results,
             ByReturnThenCode(x, y), ByReturnThenCode(y, z)
      PROVE  ByReturnThenCode(x, z)
  BY <1>1, <1>4 DEF ByReturnThenCode, ByReturn
<1>5. ASSUME NEW x \in results
      PROVE  ~ByReturnThenCode(x, x)
  BY <1>1 DEF ByReturnThenCode, ByReturn
<1> QED
  BY <1>3, <1>4, <1>5

LEMMA ByScoreOrders ==
  ASSUME ResultsAreSound
  PROVE  /\ \A x, y \in results : x # y => ByScoreThenCode(x, y) \/ ByScoreThenCode(y, x)
         /\ \A x, y, z \in results : ByScoreThenCode(x, y) /\ ByScoreThenCode(y, z) => ByScoreThenCode(x, z)
         /\ \A x \in results : ~ByScoreThenCode(x, x)
<1>1. \A r \in results : r.code \in Int /\ r.ret \in Int /\ r.score \in Int
  BY DEF ResultsAreSound
<1>2. \A r, s \in results : r # s => r.code # s.code
  BY DEF ResultsAreSound
<1>3. ASSUME NEW x \in results, NEW y \in results, x # y
      PROVE  ByScoreThenCode(x, y) \/ ByScoreThenCode(y, x)
  BY <1>1, <1>2, <1>3 DEF ByScoreThenCode, ByScore
<1>4. ASSUME NEW x \in results, NEW y \in results, NEW z \in results,
             ByScoreThenCode(x, y), ByScoreThenCode(y, z)
      PROVE  ByScoreThenCode(x, z)
  BY <1>1, <1>4 DEF ByScoreThenCode, ByScore
<1>5. ASSUME NEW x \in results
      PROVE  ~ByScoreThenCode(x, x)
  BY <1>1 DEF ByScoreThenCode, ByScore
<1> QED
  BY <1>3, <1>4, <1>5

(* The sorted lists of selectTopScanResults. *)
LEMMA OrderedByReturn ==
  ASSUME ResultsAreSound, NEW S \in SUBSET results
  PROVE  /\ IsList(Ordered(S, ByReturnThenCode), S)
         /\ \A i, j \in 1 .. Len(Ordered(S, ByReturnThenCode)) :
               i < j => ByReturnThenCode(Ordered(S, ByReturnThenCode)[i], Ordered(S, ByReturnThenCode)[j])
<1> DEFINE R == {e \in S \X S : ByReturnThenCode(e[1], e[2])}
           q == Ordered(S, ByReturnThenCode)
           N == Cardinality(S)
<1>1. IsFiniteSet(S) /\ N \in Nat
  BY FS_Subset, FS_CardinalityType DEF ResultsAreSound
<1>3. \A x, y \in S : <<x, y>> \in R <=> ByReturnThenCode(x, y)
  OBVIOUS
<1>4. TotalOrder(S, R)
  <2>1. S \subseteq results
    OBVIOUS
  <2> HIDE DEF R
  <2> QED
    BY <1>3, <2>1, ByReturnOrders DEF TotalOrder
<1>5. \A x \in S : {y \in S : ByReturnThenCode(y, x)} = Ahead(S, R, x)
  <2> HIDE DEF R
  <2> QED
    BY <1>3 DEF Ahead
<1>6. q = [n \in 1 .. N |-> CHOOSE x \in S : Cardinality({y \in S : ByReturnThenCode(y, x)}) = n - 1]
  BY DEF Ordered
<1> HIDE DEF q, R
<1>7. ASSUME NEW n \in 1 .. N
      PROVE  q[n] \in S /\ Cardinality(Ahead(S, R, q[n])) = n - 1
  <2>1. n - 1 \in 0 .. N - 1
    BY <1>1
  <2> HIDE DEF N
  <2>2. \E x \in S : Cardinality(Ahead(S, R, x)) = n - 1
    BY <1>1, <1>4, <2>1, Ranks DEF N
  <2>3. \E x \in S : Cardinality({y \in S : ByReturnThenCode(y, x)}) = n - 1
    BY <1>5, <2>2
  <2>4. q[n] = CHOOSE x \in S : Cardinality({y \in S : ByReturnThenCode(y, x)}) = n - 1
    BY <1>6
  <2>5. q[n] \in S /\ Cardinality({y \in S : ByReturnThenCode(y, q[n])}) = n - 1
    BY <2>3, <2>4
  <2> QED
    BY <1>5, <2>5
<1>8. Sorts(q, S, R)
  <2>1. q \in [1 .. N -> S]
    <3> HIDE DEF N
    <3> QED
      BY <1>6, <1>7
  <2> QED
    BY <1>1, <1>4, <1>7, <2>1, RanksSort
<1>9. IsList(q, S) /\ \A i, j \in 1 .. Len(q) : i < j => <<q[i], q[j]>> \in R
  BY <1>1, <1>4, <1>8, SortedIsList
<1>10. \A i \in 1 .. Len(q) : q[i] \in S
  BY <1>9 DEF IsList
<1>11. \A i, j \in 1 .. Len(q) : i < j => ByReturnThenCode(q[i], q[j])
  BY <1>3, <1>9, <1>10
<1> QED
  BY <1>9, <1>11 DEF q

LEMMA OrderedByScore ==
  ASSUME ResultsAreSound
  PROVE  IsList(Ordered(results, ByScoreThenCode), results)
<1> DEFINE S == results
           R == {e \in S \X S : ByScoreThenCode(e[1], e[2])}
           q == Ordered(S, ByScoreThenCode)
           N == Cardinality(S)
<1>1. IsFiniteSet(S) /\ N \in Nat
  BY FS_CardinalityType DEF ResultsAreSound
<1>3. \A x, y \in S : <<x, y>> \in R <=> ByScoreThenCode(x, y)
  OBVIOUS
<1>4. TotalOrder(S, R)
  <2> HIDE DEF R
  <2> QED
    BY <1>3, ByScoreOrders DEF TotalOrder
<1>5. \A x \in S : {y \in S : ByScoreThenCode(y, x)} = Ahead(S, R, x)
  <2> HIDE DEF R
  <2> QED
    BY <1>3 DEF Ahead
<1>6. q = [n \in 1 .. N |-> CHOOSE x \in S : Cardinality({y \in S : ByScoreThenCode(y, x)}) = n - 1]
  BY DEF Ordered
<1> HIDE DEF q, R
<1>7. ASSUME NEW n \in 1 .. N
      PROVE  q[n] \in S /\ Cardinality(Ahead(S, R, q[n])) = n - 1
  <2>1. n - 1 \in 0 .. N - 1
    BY <1>1
  <2> HIDE DEF N
  <2>2. \E x \in S : Cardinality(Ahead(S, R, x)) = n - 1
    BY <1>1, <1>4, <2>1, Ranks DEF N
  <2>3. \E x \in S : Cardinality({y \in S : ByScoreThenCode(y, x)}) = n - 1
    BY <1>5, <2>2
  <2>4. q[n] = CHOOSE x \in S : Cardinality({y \in S : ByScoreThenCode(y, x)}) = n - 1
    BY <1>6
  <2>5. q[n] \in S /\ Cardinality({y \in S : ByScoreThenCode(y, q[n])}) = n - 1
    BY <2>3, <2>4
  <2> QED
    BY <1>5, <2>5
<1>8. Sorts(q, S, R)
  <2>1. q \in [1 .. N -> S]
    <3> HIDE DEF N
    <3> QED
      BY <1>6, <1>7
  <2> QED
    BY <1>1, <1>4, <1>7, <2>1, RanksSort
<1>9. IsList(q, S)
  BY <1>1, <1>4, <1>8, SortedIsList
<1> QED
  BY <1>9 DEF q

(* A stock has less stocks in front of it than there are. *)
LEMMA DepthIs ==
  ASSUME ResultsAreSound, NEW r \in results
  PROVE  Depth(r) \in 0 .. Cardinality(results) - 1
<1> DEFINE S == {o \in results : o.sector = r.sector /\ ByReturnThenCode(o, r)}
<1>1. r \notin S /\ S \in SUBSET results
  BY ByReturnOrders
<1>2. IsFiniteSet(results) /\ Cardinality(results) \in Nat
  BY FS_CardinalityType DEF ResultsAreSound
<1> HIDE DEF S
<1>3. IsFiniteSet(S) /\ Cardinality(S) <= Cardinality(results) /\ Cardinality(S) # Cardinality(results)
  BY <1>1, <1>2, FS_Subset
<1>4. Cardinality(S) \in Nat
  BY <1>3, FS_CardinalityType
<1>5. Depth(r) = Cardinality(S)
  BY DEF Depth, S
<1> QED
  BY <1>2, <1>3, <1>4, <1>5

(* What a list of chosen stocks is after the rounds below d. *)
Picked(list, d, n) ==
    /\ list \in Seq(results) /\ Len(list) \in Nat /\ Len(list) <= n
    /\ \A i, j \in 1 .. Len(list) : i # j => list[i] # list[j]
    /\ \A i \in 1 .. Len(list) : Depth(list[i]) < d
    /\ Len(list) < n => \A r \in results : Depth(r) < d => \E i \in 1 .. Len(list) : list[i] = r
    /\ \A k \in 1 .. Len(list), out \in results :
          Depth(out) < d /\ (\A j \in 1 .. Len(list) : list[j] # out) =>
             Depth(list[k]) < Depth(out) \/ (Depth(list[k]) = Depth(out) /\ ByReturnThenCode(list[k], out))

(* A round appends the stocks of the next depth, as far as there is room. *)
LEMMA NextRound ==
  ASSUME ResultsAreSound, NEW n \in Nat, NEW d \in Nat, NEW list, Picked(list, d, n),
         NEW q, q = Ordered({r \in results : Depth(r) = d}, ByReturnThenCode)
  PROVE  Picked(list \o FirstOf(q, n - Len(list)), d + 1, n)
<1> DEFINE S == {r \in results : Depth(r) = d}
           m == n - Len(list)
           e == FirstOf(q, m)
           new == list \o e
           L == Len(list)
<1>1. S \in SUBSET results
  OBVIOUS
<1>2. IsList(q, S) /\ \A i, j \in 1 .. Len(q) : i < j => ByReturnThenCode(q[i], q[j])
  <2> HIDE DEF S
  <2>1. q = Ordered(S, ByReturnThenCode)
    BY DEF S
  <2> QED
    BY <1>1, <2>1, OrderedByReturn
<1>3. /\ list \in Seq(results) /\ L \in Nat /\ L <= n
      /\ \A i \in 1 .. L : list[i] \in results /\ Depth(list[i]) \in Int /\ Depth(list[i]) < d
  <2>1. list \in Seq(results) /\ L \in Nat /\ L <= n /\ \A i \in 1 .. L : Depth(list[i]) < d
    BY DEF Picked
  <2>2. \A i \in 1 .. L : list[i] \in results
    BY <2>1
  <2>3. \A r \in results : Depth(r) \in Int
    BY DepthIs
  <2> QED
    BY <2>1, <2>2, <2>3
<1>4. m \in Nat
  BY <1>3
<1>5. \A i \in 1 .. Len(q) : q[i] \in results /\ Depth(q[i]) = d
  <2>1. q \in Seq(S) /\ Len(q) \in Nat
    BY <1>2 DEF IsList
  <2>2. \A i \in 1 .. Len(q) : q[i] \in S
    <3> HIDE DEF S
    <3> QED
      BY <2>1
  <2> QED
    BY <2>2
<1>6. q \in Seq(results) /\ Len(q) \in Nat
  <2> HIDE DEF S
  <2> QED
    BY <1>1, <1>2, SeqMonotonic DEF IsList
<1> HIDE DEF m
<1>7. /\ e \in Seq(results) /\ Len(e) = (IF m <= Len(q) THEN m ELSE Len(q)) /\ Len(e) \in Nat
      /\ \A i \in 1 .. Len(e) : e[i] = q[i] /\ i \in 1 .. Len(q)
  <2>1. e \in Seq(results) /\ Len(e) = (IF m <= Len(q) THEN m ELSE Len(q)) /\ \A i \in 1 .. Len(e) : e[i] = q[i]
    BY <1>4, <1>6, FirstOfIs
  <2> HIDE DEF e
  <2> QED
    BY <1>4, <1>6, <2>1
<1> HIDE DEF e, S
<1>8. /\ new \in Seq(results) /\ Len(new) = L + Len(e)
      /\ \A i \in 1 .. L : new[i] = list[i]
      /\ \A i \in 1 .. Len(e) : new[L + i] = e[i]
      /\ \A i \in 1 .. Len(new) : i \in 1 .. L \/ (i - L \in 1 .. Len(e) /\ i = L + (i - L))
  <2>1. /\ new \in Seq(results) /\ Len(new) = L + Len(e)
        /\ \A i \in 1 .. L + Len(e) : new[i] = IF i <= L THEN list[i] ELSE e[i - L]
    <3>1. list \in Seq(results) /\ e \in Seq(results)
      BY <1>3, <1>7
    <3>2. list \o e \in Seq(results)
      BY <3>1
    <3>3. Len(list \o e) = Len(list) + Len(e)
      BY <3>1
    <3>4. \A i \in 1 .. Len(list) + Len(e) :
             (list \o e)[i] = IF i <= Len(list) THEN list[i] ELSE e[i - Len(list)]
      BY <3>1, ConcatProperties
    <3> QED
      BY <3>2, <3>3, <3>4
  <2>2. \A i \in 1 .. L : i \in 1 .. L + Len(e) /\ i <= L
    BY <1>3, <1>7
  <2>3. \A i \in 1 .. Len(e) : L + i \in 1 .. L + Len(e) /\ ~(L + i <= L) /\ (L + i) - L = i
    BY <1>3, <1>7
  <2>4. \A i \in 1 .. Len(new) : i \in 1 .. L \/ (i - L \in 1 .. Len(e) /\ i = L + (i - L))
    <3> HIDE DEF new, L
    <3> QED
      BY <1>3, <1>7, <2>1
  <2> HIDE DEF new, L
  <2> QED
    BY <2>1, <2>2, <2>3, <2>4
<1>9. ASSUME NEW i \in 1 .. Len(e)
      PROVE  /\ new[L + i] = q[i] /\ i \in 1 .. Len(q) /\ L < n /\ i <= m
             /\ new[L + i] \in results /\ Depth(new[L + i]) = d
  <2>1. new[L + i] = q[i] /\ i \in 1 .. Len(q)
    BY <1>7, <1>8
  <2>2. i <= m /\ L < n
    BY <1>3, <1>4, <1>6, <1>7 DEF m
  <2> HIDE DEF new, L
  <2> QED
    BY <1>5, <2>1, <2>2
<1>10. Len(new) \in Nat /\ Len(new) <= n
  <2> HIDE DEF new, L
  <2> QED
    BY <1>3, <1>4, <1>6, <1>7, <1>8 DEF m, L
<1> HIDE DEF new, L
<1>11. \A i \in 1 .. Len(new) : Depth(new[i]) < d + 1 /\ Depth(new[i]) \in Int
  <2> SUFFICES ASSUME NEW i \in 1 .. Len(new)
               PROVE  Depth(new[i]) < d + 1 /\ Depth(new[i]) \in Int
    OBVIOUS
  <2>1. CASE i \in 1 .. L
    BY <1>3, <1>8, <2>1
  <2>2. CASE i - L \in 1 .. Len(e) /\ i = L + (i - L)
    <3>1. Depth(new[i]) = d
      BY <1>9, <2>2
    <3> QED
      BY <3>1
  <2> QED
    BY <1>8, <2>1, <2>2
<1>12. ASSUME NEW i \in 1 .. Len(new), NEW j \in 1 .. Len(new), i # j
       PROVE  new[i] # new[j]
  <2>1. CASE i \in 1 .. L /\ j \in 1 .. L
    BY <1>8, <1>12, <2>1 DEF Picked, L
  <2>2. ASSUME NEW x \in 1 .. L, NEW y \in 1 .. Len(e)
        PROVE  new[x] # new[L + y]
    <3>1. Depth(new[x]) < d /\ Depth(new[L + y]) = d /\ Depth(new[x]) \in Int
      BY <1>3, <1>8, <1>9
    <3>2. Depth(new[x]) # Depth(new[L + y])
      BY <3>1
    <3> QED
      BY <3>2
  <2>3. ASSUME NEW x \in 1 .. Len(e), NEW y \in 1 .. Len(e), x # y
        PROVE  new[L + x] # new[L + y]
    <3>1. new[L + x] = q[x] /\ new[L + y] = q[y] /\ x \in 1 .. Len(q) /\ y \in 1 .. Len(q)
      BY <1>9
    <3>2. q[x] # q[y]
      BY <1>2, <2>3, <3>1 DEF IsList
    <3> QED
      BY <3>1, <3>2
  <2>4. CASE i \in 1 .. L /\ j \notin 1 .. L
    BY <1>8, <2>2, <2>4
  <2>5. CASE i \notin 1 .. L /\ j \in 1 .. L
    BY <1>8, <2>2, <2>5
  <2>6. CASE i \notin 1 .. L /\ j \notin 1 .. L
    <3>1. i - L # j - L
      BY <1>3, <1>10, <1>12 DEF L
    <3> QED
      BY <1>8, <2>3, <2>6, <3>1
  <2> QED
    BY <2>1, <2>4, <2>5, <2>6
<1>13. ASSUME Len(new) < n, NEW r \in results, Depth(r) < d + 1
       PROVE  \E i \in 1 .. Len(new) : new[i] = r
  <2>1. L < n /\ Len(e) = Len(q)
    <3>1. L + Len(e) < n
      BY <1>8, <1>13
    <3> QED
      BY <1>3, <1>4, <1>6, <1>7, <3>1 DEF m, L
  <2>2. Depth(r) \in Int
    BY DepthIs
  <2>3. CASE Depth(r) < d
    <3>1. PICK i \in 1 .. L : list[i] = r
      BY <2>1, <2>3 DEF Picked, L
    <3>2. i \in 1 .. Len(new) /\ new[i] = r
      BY <1>3, <1>7, <1>8, <3>1
    <3> QED
      BY <3>2
  <2>4. CASE Depth(r) = d
    <3>1. r \in S
      BY <2>4 DEF S
    <3>2. PICK i \in 1 .. Len(q) : q[i] = r
      BY <1>2, <3>1 DEF IsList
    <3>3. L + i \in 1 .. Len(new) /\ new[L + i] = r
      <4>1. i \in 1 .. Len(e)
        BY <2>1, <3>2
      <4>2. new[L + i] = q[i]
        BY <1>9, <4>1
      <4>3. L + i \in 1 .. Len(new)
        BY <1>3, <1>7, <1>8, <4>1
      <4> QED
        BY <3>2, <4>2, <4>3
    <3> QED
      BY <3>3
  <2> QED
    BY <1>13, <2>2, <2>3, <2>4
<1>14. ASSUME NEW k \in 1 .. Len(new), NEW out \in results, Depth(out) < d + 1,
              \A j \in 1 .. Len(new) : new[j] # out
       PROVE  \/ Depth(new[k]) < Depth(out)
              \/ Depth(new[k]) = Depth(out) /\ ByReturnThenCode(new[k], out)
  <2>1. Depth(out) \in Int
    BY DepthIs
  <2>2. \A j \in 1 .. L : list[j] # out
    <3>1. \A j \in 1 .. L : j \in 1 .. Len(new)
      BY <1>3, <1>7, <1>8
    <3> QED
      BY <1>8, <1>14, <3>1
  <2>3. \A j \in 1 .. Len(e) : q[j] # out
    <3>1. \A j \in 1 .. Len(e) : L + j \in 1 .. Len(new)
      BY <1>3, <1>7, <1>8
    <3> QED
      BY <1>9, <1>14, <3>1
  <2>4. CASE k \in 1 .. L
    <3>1. new[k] = list[k]
      BY <1>8, <2>4
    <3>2. CASE Depth(out) < d
      BY <2>2, <2>4, <3>1, <3>2 DEF Picked, L
    <3>3. CASE Depth(out) = d
      BY <1>3, <2>4, <3>1, <3>3
    <3> QED
      BY <1>14, <2>1, <3>2, <3>3
  <2>5. CASE k \notin 1 .. L
    <3> DEFINE x == k - L
    <3>1. x \in 1 .. Len(e) /\ k = L + x
      BY <1>8, <2>5
    <3> HIDE DEF x
    <3>2. new[k] = q[x] /\ x \in 1 .. Len(q) /\ L < n /\ x <= m /\ Depth(new[k]) = d
      BY <1>9, <3>1
    <3>3. ~(Depth(out) < d)
      BY <2>2, <3>2 DEF Picked, L
    <3>4. Depth(out) = d
      BY <1>14, <2>1, <3>3
    <3>5. out \in S
      BY <3>4 DEF S
    <3>6. PICK y \in 1 .. Len(q) : q[y] = out
      BY <1>2, <3>5 DEF IsList
    <3>7. x < y
      <4>1. y \notin 1 .. Len(e)
        BY <2>3, <3>6
      <4> QED
        BY <1>6, <1>7, <3>1, <4>1
    <3>8. ByReturnThenCode(q[x], q[y])
      BY <1>2, <3>2, <3>7
    <3> QED
      BY <3>2, <3>4, <3>6, <3>8
  <2> QED
    BY <2>4, <2>5
<1> QED
  BY <1>8, <1>10, <1>11, <1>12, <1>13, <1>14 DEF Picked, new, e, m

(* What is appended fits. *)
LEMMA LengthsAdd ==
  ASSUME NEW S, NEW n \in Nat, NEW list \in Seq(S), Len(list) <= n, NEW q \in Seq(S)
  PROVE  /\ list \o FirstOf(q, n - Len(list)) \in Seq(S)
         /\ Len(list \o FirstOf(q, n - Len(list))) <= n
<1> DEFINE m == n - Len(list)
<1>1. m \in Nat /\ Len(list) \in Nat /\ Len(q) \in Nat
  OBVIOUS
<1>2. Len(list) + m = n
  BY <1>1
<1> HIDE DEF m
<1>3. FirstOf(q, m) \in Seq(S) /\ Len(FirstOf(q, m)) = IF m <= Len(q) THEN m ELSE Len(q)
  BY <1>1, FirstOfIs
<1>4. list \o FirstOf(q, m) \in Seq(S) /\ Len(list \o FirstOf(q, m)) = Len(list) + Len(FirstOf(q, m))
  <2> DEFINE taken == FirstOf(q, m)
  <2>1. taken \in Seq(S)
    BY <1>3
  <2> HIDE DEF taken
  <2>2. list \o taken \in Seq(S) /\ Len(list \o taken) = Len(list) + Len(taken)
    BY <2>1
  <2> QED
    BY <2>2 DEF taken
<1>5. Len(FirstOf(q, m)) \in Nat /\ Len(FirstOf(q, m)) <= m
  BY <1>1, <1>3
<1> QED
  BY <1>1, <1>2, <1>4, <1>5 DEF m

(* The list after all rounds. *)
LEMMA RoundsPick ==
  ASSUME ResultsAreSound, setting.topN \in Nat, setting.options.sectors
  PROVE  Picked(SelectTop, Cardinality(results), setting.topN)
<1> DEFINE N == Cardinality(results)
           n == setting.topN
           round(d) == Ordered({r \in results : Depth(r) = d}, ByReturnThenCode)
           X == {list \in Seq(results) : Len(list) <= n}
           Step(list, d) == list \o FirstOf(round(d - 1), n - Len(list))
           G == [e \in X \X (1 .. N) |-> Step(e[1], e[2])]
<1>1. N \in Nat
  BY FS_CardinalityType DEF ResultsAreSound
<1>2. <<>> \in X
  BY EmptySeq
<1>3. \A d : round(d) \in Seq(results)
  <2> SUFFICES ASSUME NEW d PROVE round(d) \in Seq(results)
    OBVIOUS
  <2> DEFINE S == {r \in results : Depth(r) = d}
  <2>1. S \in SUBSET results
    OBVIOUS
  <2> HIDE DEF S
  <2>2. IsList(Ordered(S, ByReturnThenCode), S)
    BY <2>1, OrderedByReturn
  <2>3. Ordered(S, ByReturnThenCode) \in Seq(results)
    BY <2>1, <2>2, SeqMonotonic DEF IsList
  <2> QED
    BY <2>3 DEF S
<1> HIDE DEF round, n
<1>4. \A list \in X, d \in 1 .. N : Step(list, d) \in X
  <2> SUFFICES ASSUME NEW list \in X, NEW d \in 1 .. N PROVE Step(list, d) \in X
    OBVIOUS
  <2>1. n \in Nat /\ list \in Seq(results) /\ Len(list) <= n /\ round(d - 1) \in Seq(results)
    BY <1>3 DEF n
  <2>2. /\ list \o FirstOf(round(d - 1), n - Len(list)) \in Seq(results)
        /\ Len(list \o FirstOf(round(d - 1), n - Len(list))) <= n
    BY <2>1, LengthsAdd
  <2> QED
    BY <2>2
<1>5. G \in [X \X (1 .. N) -> X]
  <2> HIDE DEF X, Step
  <2> QED
    BY <1>4
<1>6. PICK h \in [0 .. N -> X] : Iterates(h, <<>>, N, G)
  <2> HIDE DEF G, X, N
  <2> QED
    BY <1>1, <1>2, <1>5, Recursion
<1>7. \A d \in 0 .. N : h[d] = IF d = 0 THEN <<>> ELSE Step(h[d - 1], d)
  <2>1. h[0] = <<>>
    BY <1>6 DEF Iterates
  <2>2. ASSUME NEW d \in 1 .. N
        PROVE  h[d] = Step(h[d - 1], d)
    <3>1. d - 1 \in 0 .. N
      BY <1>1
    <3> HIDE DEF X, Step, N
    <3>2. <<h[d - 1], d>> \in X \X (1 .. N)
      BY <1>6, <3>1
    <3>3. h[d] = G[<<h[d - 1], d>>]
      <4> HIDE DEF G
      <4> QED
        BY <1>6 DEF Iterates
    <3> QED
      BY <3>2, <3>3
  <2>3. \A d \in 0 .. N : d # 0 => d \in 1 .. N
    BY <1>1
  <2> HIDE DEF X, Step, N
  <2> QED
    BY <2>1, <2>2, <2>3
<1> DEFINE selected[d \in 0 .. N] == IF d = 0 THEN <<>> ELSE Step(selected[d - 1], d)
<1>8. selected = CHOOSE g : g = [d \in 0 .. N |-> IF d = 0 THEN <<>> ELSE Step(g[d - 1], d)]
  BY DEF selected
<1>9. SelectTop = selected[N]
  BY DEF SelectTop, selected, round, n
<1> HIDE DEF selected
<1>10. h = [d \in 0 .. N |-> IF d = 0 THEN <<>> ELSE Step(h[d - 1], d)]
  <2>1. h = [d \in 0 .. N |-> h[d]]
    <3> HIDE DEF X
    <3> QED
      OBVIOUS
  <2> HIDE DEF X, Step, N
  <2> QED
    BY <1>7, <2>1
<1>11. selected = [d \in 0 .. N |-> IF d = 0 THEN <<>> ELSE Step(selected[d - 1], d)]
  <2> HIDE DEF X, Step, N
  <2> QED
    BY <1>8, <1>10
<1> DEFINE T == {d \in Nat : d <= N => Picked(selected[d], d, n)}
<1>12. 0 \in T
  <2>1. selected[0] = <<>>
    <3>1. 0 \in 0 .. N
      BY <1>1
    <3> HIDE DEF Step, N
    <3> QED
      BY <1>11, <3>1
  <2>2. \A r \in results : ~(Depth(r) < 0)
    <3> SUFFICES ASSUME NEW r \in results PROVE ~(Depth(r) < 0)
      OBVIOUS
    <3>1. Depth(r) \in 0 .. N - 1
      BY DepthIs
    <3> QED
      BY <1>1, <3>1
  <2>3. <<>> \in Seq(results) /\ Len(<<>>) = 0 /\ 0 <= n
    BY DEF n
  <2> DEFINE empty == <<>>
  <2>4. empty \in Seq(results) /\ Len(empty) = 0 /\ 0 \in Nat /\ Len(empty) <= n
    BY <2>3
  <2> HIDE DEF empty
  <2>5. \A i \in 1 .. Len(empty) : FALSE
    BY <2>4
  <2>6. Picked(empty, 0, n)
    BY <2>2, <2>4, <2>5 DEF Picked
  <2> QED
    BY <2>1, <2>6 DEF empty
<1>13. ASSUME NEW d \in Nat, d \in T
       PROVE  d + 1 \in T
  <2> SUFFICES ASSUME d + 1 <= N PROVE Picked(selected[d + 1], d + 1, n)
    OBVIOUS
  <2> DEFINE c == d + 1
  <2>1. c \in 0 .. N /\ c # 0 /\ c - 1 = d /\ d <= N
    BY <1>1
  <2>2. selected[c] = Step(selected[c - 1], c)
    <3> HIDE DEF Step, N, c
    <3> QED
      BY <1>11, <2>1
  <2>3. Picked(selected[d], d, n)
    BY <1>13, <2>1
  <2>4. selected[d + 1] = selected[d] \o FirstOf(round(d), n - Len(selected[d]))
    BY <2>1, <2>2
  <2>5. round(d) = Ordered({r \in results : Depth(r) = d}, ByReturnThenCode)
    BY DEF round
  <2>6. n \in Nat
    BY DEF n
  <2> DEFINE s == selected[d]
             q == round(d)
  <2> HIDE DEF s, q, T
  <2>7. Picked(s, d, n) /\ q = Ordered({r \in results : Depth(r) = d}, ByReturnThenCode)
    BY <2>3, <2>5 DEF s, q
  <2>8. Picked(s \o FirstOf(q, n - Len(s)), d + 1, n)
    BY <2>6, <2>7, NextRound
  <2> QED
    BY <2>4, <2>8 DEF s, q
<1>14. \A d \in Nat : d \in T
  <2> HIDE DEF T
  <2> QED
    BY <1>12, <1>13, Induct
<1>15. N <= N
  BY <1>1
<1> QED
  BY <1>1, <1>9, <1>14, <1>15 DEF n

(* A list without repetition is no longer than the set, and as long if it has all of it. *)
LEMMA InjectiveLength ==
  ASSUME NEW S, IsFiniteSet(S), NEW q \in Seq(S), \A i, j \in 1 .. Len(q) : i # j => q[i] # q[j]
  PROVE  /\ Len(q) <= Cardinality(S)
         /\ (\A x \in S : \E i \in 1 .. Len(q) : q[i] = x) => Len(q) = Cardinality(S)
<1>1. Len(q) \in Nat /\ q \in [1 .. Len(q) -> S]
  OBVIOUS
<1>2. IsFiniteSet(1 .. Len(q)) /\ Cardinality(1 .. Len(q)) = Len(q)
  BY <1>1, FS_Interval
<1>3. q \in Injection(1 .. Len(q), S)
  BY <1>1 DEF Injection, IsInjective
<1>4. Len(q) <= Cardinality(S)
  BY <1>2, <1>3, FS_Injection
<1>5. ASSUME \A x \in S : \E i \in 1 .. Len(q) : q[i] = x
      PROVE  Len(q) = Cardinality(S)
  <2>1. q \in Surjection(1 .. Len(q), S)
    BY <1>1, <1>5 DEF Surjection
  <2> QED
    BY <1>2, <1>3, <2>1, FS_Surjection
<1> QED
  BY <1>4, <1>5

BestFirst(list) ==
    /\ list \in Seq(results)
    /\ Len(list) = Min({setting.topN, Cardinality(results)})
    /\ setting.options.sectors =>
         \A k \in DOMAIN list, out \in results :
             out \notin {list[j] : j \in DOMAIN list} =>
                 \/ Depth(list[k]) < Depth(out)
                 \/ Depth(list[k]) = Depth(out) /\ ByReturnThenCode(list[k], out)

(* selectTopScanResults leaves out nothing that should come before what it takes. *)
LEMMA SelectTopIsBest ==
  ASSUME ResultsAreSound, setting.topN \in Nat
  PROVE  BestFirst(SelectTop)
<1> DEFINE n == setting.topN
           N == Cardinality(results)
           top1 == SelectTop
<1>1. N \in Nat /\ n \in Nat /\ Min({n, N}) = IF n <= N THEN n ELSE N
  <2>1. N \in Nat
    BY FS_CardinalityType DEF ResultsAreSound
  <2> HIDE DEF N
  <2> QED
    BY <2>1, MinOfTwo
<1>2. CASE setting.options.sectors
  <2>1. Picked(top1, N, n)
    BY <1>2, RoundsPick
  <2> HIDE DEF top1, N, n
  <2>2. \A r \in results : Depth(r) < N
    <3> SUFFICES ASSUME NEW r \in results PROVE Depth(r) < N
      OBVIOUS
    <3>1. Depth(r) \in 0 .. N - 1
      BY DepthIs DEF N
    <3> QED
      BY <1>1, <3>1
  <2>3. top1 \in Seq(results) /\ Len(top1) \in Nat /\ Len(top1) <= n /\ DOMAIN top1 = 1 .. Len(top1)
    BY <2>1 DEF Picked
  <2>4. Len(top1) <= N
    BY <2>1, <2>3, InjectiveLength DEF Picked, ResultsAreSound, N
  <2>5. Len(top1) < n => Len(top1) = N
    <3>1. ASSUME Len(top1) < n
          PROVE  \A x \in results : \E i \in 1 .. Len(top1) : top1[i] = x
      BY <2>1, <2>2, <3>1 DEF Picked
    <3>2. ASSUME Len(top1) < n
          PROVE  Len(top1) = Cardinality(results)
      <4>1. \A i, j \in 1 .. Len(top1) : i # j => top1[i] # top1[j]
        BY <2>1 DEF Picked
      <4>2. IsFiniteSet(results)
        BY DEF ResultsAreSound
      <4> QED
        BY <2>3, <3>1, <3>2, <4>1, <4>2, InjectiveLength
    <3> QED
      BY <3>2 DEF N
  <2>6. Len(top1) = Min({n, N})
    <3>1. n \in Nat /\ N \in Nat /\ Len(top1) \in Nat
      BY <1>1, <2>3
    <3>2. Min({n, N}) = IF n <= N THEN n ELSE N
      BY <1>1
    <3>3. Len(top1) <= n /\ Len(top1) <= N /\ (Len(top1) < n => Len(top1) = N)
      BY <2>3, <2>4, <2>5
    <3> QED
      BY <3>1, <3>2, <3>3
  <2>7. ASSUME NEW k \in DOMAIN top1, NEW out \in results, out \notin {top1[j] : j \in DOMAIN top1}
        PROVE  \/ Depth(top1[k]) < Depth(out)
               \/ Depth(top1[k]) = Depth(out) /\ ByReturnThenCode(top1[k], out)
    <3>1. \A j \in 1 .. Len(top1) : top1[j] # out
      BY <2>3, <2>7
    <3>2. k \in 1 .. Len(top1) /\ Depth(out) < N
      BY <2>2, <2>3
    <3> QED
      BY <2>1, <3>1, <3>2 DEF Picked
  <2> QED
    BY <2>3, <2>6, <2>7 DEF BestFirst, top1, n, N
<1>3. CASE ~setting.options.sectors
  <2> DEFINE q == Ordered(results, ByScoreThenCode)
  <2>1. top1 = FirstOf(q, n)
    BY <1>3 DEF SelectTop
  <2>2. q \in Seq(results) /\ Len(q) = N
    BY OrderedByScore DEF IsList
  <2> HIDE DEF q, top1, n, N
  <2>3. top1 \in Seq(results) /\ Len(top1) = IF n <= Len(q) THEN n ELSE Len(q)
    BY <1>1, <2>1, <2>2, FirstOfIs
  <2>4. Len(top1) = Min({n, N})
    BY <1>1, <2>2, <2>3
  <2> QED
    BY <1>3, <2>3, <2>4 DEF BestFirst, top1, n, N
<1> QED
  BY <1>2, <1>3

-----------------------------------------------------------------------------
(* The choice of a variant. *)
Candidate == [variant : Nat \ {0}, ret : Int, score : Int, fresh : BOOLEAN, quality : BOOLEAN]
Options == [watchlist : BOOLEAN, profitable : BOOLEAN, byReturn : BOOLEAN, sectors : BOOLEAN]

(* A candidate is typed, and not the mark for none. *)
LEMMA CandidateIs ==
  ASSUME NEW c \in Candidate
  PROVE  /\ c.ret \in Int /\ c.score \in Int /\ c # None
         /\ c.fresh \in BOOLEAN /\ c.quality \in BOOLEAN
BY DEF Candidate, None

(* The kinds, as isBetterResult and the fallbacks tell them apart. *)
LEMMA KindIs ==
  ASSUME NEW c \in Candidate, setting.options \in Options
  PROVE  /\ Kind(c) \in {0, 1, 2, 3}
         /\ Kind(c) = 3 <=> c.fresh /\ c.quality
         /\ Kind(c) = 2 <=> c.fresh /\ ~c.quality /\ setting.options.profitable
         /\ Kind(c) = 1 <=> ~c.fresh /\ setting.options.watchlist
<1>1. CASE c.fresh /\ c.quality
  <2>1. Kind(c) = 3
    BY <1>1 DEF Kind
  <2> QED
    BY <1>1, <2>1
<1>2. CASE c.fresh /\ ~c.quality /\ setting.options.profitable
  <2>1. Kind(c) = 2
    BY <1>2 DEF Kind
  <2> QED
    BY <1>2, <2>1
<1>3. CASE ~c.fresh /\ setting.options.watchlist
  <2>1. Kind(c) = 1
    BY <1>3 DEF Kind
  <2> QED
    BY <1>3, <2>1
<1>4. CASE /\ ~(c.fresh /\ c.quality)
           /\ ~(c.fresh /\ ~c.quality /\ setting.options.profitable)
           /\ ~(~c.fresh /\ setting.options.watchlist)
  <2>1. Kind(c) = 0
    BY <1>4 DEF Kind
  <2> QED
    BY <1>4, <2>1
<1> QED
  BY <1>1, <1>2, <1>3, <1>4

(* Within a kind, one candidate or the other is better, or they are equal. *)
LEMMA KindsAreOrdered ==
  ASSUME NEW a \in Candidate, NEW b \in Candidate, NEW c \in Candidate,
         Kind(a) = Kind(b), Kind(c) = Kind(b), setting.options \in Options, Kind(b) \in Int
  PROVE  /\ Beats(a, b) /\ ~Beats(c, b) => Beats(a, c)
         /\ Beats(a, b) => ~Beats(b, a)
         /\ ~Beats(a, a)
<1>1. /\ a.ret \in Int /\ a.score \in Int /\ b.ret \in Int /\ b.score \in Int
      /\ c.ret \in Int /\ c.score \in Int
  BY CandidateIs
<1>2. ASSUME NEW x, NEW y, Kind(x) = Kind(y), Kind(x) = Kind(b)
      PROVE  Beats(x, y) <=> IF Kind(b) = 3 THEN ByMetric(x, y) ELSE ByReturn(x, y)
  BY <1>2 DEF Beats
<1> DEFINE Better(x, y) == IF Kind(b) = 3 THEN ByMetric(x, y) ELSE ByReturn(x, y)
<1>3. /\ Beats(a, b) <=> Better(a, b)
      /\ Beats(c, b) <=> Better(c, b)
      /\ Beats(a, c) <=> Better(a, c)
      /\ Beats(b, a) <=> Better(b, a)
      /\ Beats(a, a) <=> Better(a, a)
  BY <1>2
<1>4. CASE Kind(b) = 3 /\ ~setting.options.byReturn
  <2>1. /\ Better(a, b) <=> a.score > b.score
        /\ Better(c, b) <=> c.score > b.score
        /\ Better(a, c) <=> a.score > c.score
        /\ Better(b, a) <=> b.score > a.score
        /\ Better(a, a) <=> a.score > a.score
    BY <1>4 DEF ByMetric, ByScore
  <2> HIDE DEF Better
  <2> QED
    BY <1>1, <1>3, <2>1
<1>5. CASE ~(Kind(b) = 3 /\ ~setting.options.byReturn)
  <2>1. /\ Better(a, b) <=> ByReturn(a, b)
        /\ Better(c, b) <=> ByReturn(c, b)
        /\ Better(a, c) <=> ByReturn(a, c)
        /\ Better(b, a) <=> ByReturn(b, a)
        /\ Better(a, a) <=> ByReturn(a, a)
    BY <1>5 DEF ByMetric
  <2> HIDE DEF Better
  <2> QED
    BY <1>1, <1>3, <2>1 DEF ByReturn
<1> QED
  BY <1>4, <1>5

(* What a slot holds after n candidates: the first of the best of its kind. *)
IsBestAt(q, n, i, k) ==
    /\ k \in 1 .. n /\ Kind(q[k]) = i
    /\ \A j \in 1 .. n : Kind(q[j]) = i => ~Beats(q[j], q[k])
    /\ \A j \in 1 .. k - 1 : Kind(q[j]) = i => Beats(q[k], q[j])

Keeps(q, n, i, slot) ==
    \/ slot = None /\ \A j \in 1 .. n : Kind(q[j]) # i
    \/ \E k \in 1 .. n : slot = q[k] /\ IsBestAt(q, n, i, k)

(* A slot after the next candidate. *)
LEMMA KeepsNext ==
  ASSUME NEW q \in Seq(Candidate), NEW n \in Nat, n + 1 <= Len(q), NEW i \in 1 .. 3, NEW slot, NEW next,
         Keeps(q, n, i, slot), setting.options \in Options,
         next = IF Kind(q[n + 1]) = i /\ (slot = None \/ Beats(q[n + 1], slot)) THEN q[n + 1] ELSE slot
  PROVE  Keeps(q, n + 1, i, next)
<1> DEFINE c == q[n + 1]
           m == n + 1
<1>1. Len(q) \in Nat /\ \A j \in 1 .. m : q[j] \in Candidate
  OBVIOUS
<1>2. m \in Nat /\ m \in 1 .. m /\ n = m - 1 /\ \A j \in 1 .. m : j = m \/ j \in 1 .. n
  OBVIOUS
<1>3. \A j \in 1 .. n : j \in 1 .. m
  OBVIOUS
<1>4. c \in Candidate /\ c # None
  BY <1>1, <1>2, CandidateIs
<1>5. next = IF Kind(c) = i /\ (slot = None \/ Beats(c, slot)) THEN c ELSE slot
  OBVIOUS
<1>6. i \in Int
  OBVIOUS
<1>7. c = q[m]
  OBVIOUS
<1> SUFFICES Keeps(q, m, i, next)
  OBVIOUS
<1> HIDE DEF c, m
<1>8. CASE Kind(c) # i
  <2>1. next = slot
    BY <1>5, <1>8
  <2>2. CASE slot = None /\ \A j \in 1 .. n : Kind(q[j]) # i
    <3>1. \A j \in 1 .. m : Kind(q[j]) # i
      BY <1>2, <1>7, <1>8, <2>2
    <3> QED
      BY <2>1, <2>2, <3>1 DEF Keeps
  <2>3. ASSUME NEW k \in 1 .. n, slot = q[k], IsBestAt(q, n, i, k)
        PROVE  Keeps(q, m, i, next)
    <3>1. k \in 1 .. m /\ Kind(q[k]) = i
      BY <1>3, <2>3 DEF IsBestAt
    <3>2. \A j \in 1 .. m : Kind(q[j]) = i => ~Beats(q[j], q[k])
      BY <1>2, <1>7, <1>8, <2>3 DEF IsBestAt
    <3>3. IsBestAt(q, m, i, k)
      BY <2>3, <3>1, <3>2 DEF IsBestAt
    <3> QED
      BY <2>1, <2>3, <3>1, <3>3 DEF Keeps
  <2> QED
    BY <2>2, <2>3 DEF Keeps
<1>9. CASE Kind(c) = i /\ slot = None
  <2>1. next = c
    BY <1>5, <1>9
  <2>2. \A k \in 1 .. n : slot # q[k]
    BY <1>1, <1>3, <1>9, CandidateIs
  <2>3. \A j \in 1 .. n : Kind(q[j]) # i
    BY <2>2 DEF Keeps
  <2>4. ~Beats(c, c)
    BY <1>4, <1>6, <1>9, KindsAreOrdered
  <2>5. \A j \in 1 .. m : Kind(q[j]) = i => ~Beats(q[j], q[m])
    BY <1>2, <1>7, <2>3, <2>4
  <2>6. \A j \in 1 .. m - 1 : Kind(q[j]) = i => Beats(q[m], q[j])
    BY <1>2, <2>3
  <2>7. IsBestAt(q, m, i, m)
    BY <1>2, <1>7, <1>9, <2>5, <2>6 DEF IsBestAt
  <2> QED
    BY <1>2, <1>7, <2>1, <2>7 DEF Keeps
<1>10. CASE Kind(c) = i /\ slot # None
  <2>1. PICK k \in 1 .. n : slot = q[k] /\ IsBestAt(q, n, i, k)
    BY <1>10 DEF Keeps
  <2>2. /\ k \in 1 .. m /\ q[k] \in Candidate /\ Kind(q[k]) = i
        /\ \A j \in 1 .. n : Kind(q[j]) = i => ~Beats(q[j], q[k])
        /\ \A j \in 1 .. k - 1 : Kind(q[j]) = i => Beats(q[k], q[j])
    BY <1>1, <1>3, <2>1 DEF IsBestAt
  <2>3. CASE ~Beats(c, slot)
    <3>1. next = q[k]
      BY <1>5, <1>10, <2>1, <2>3
    <3>2. \A j \in 1 .. m : Kind(q[j]) = i => ~Beats(q[j], q[k])
      BY <1>2, <1>7, <2>1, <2>2, <2>3
    <3>3. IsBestAt(q, m, i, k)
      BY <2>2, <3>2 DEF IsBestAt
    <3> QED
      BY <2>2, <3>1, <3>3 DEF Keeps
  <2>4. CASE Beats(c, slot)
    <3>1. next = c
      BY <1>5, <1>10, <2>4
    <3>2. ASSUME NEW j \in 1 .. n, Kind(q[j]) = i
          PROVE  Beats(c, q[j]) /\ ~Beats(q[j], c)
      <4>1. q[j] \in Candidate /\ ~Beats(q[j], q[k])
        BY <1>1, <1>3, <2>2, <3>2
      <4>2. Beats(c, q[k])
        BY <2>1, <2>4
      <4>3. Beats(c, q[j])
        BY <1>4, <1>6, <1>10, <2>2, <3>2, <4>1, <4>2, KindsAreOrdered
      <4>4. Beats(c, q[j]) => ~Beats(q[j], c)
        BY <1>4, <1>6, <1>10, <3>2, <4>1, KindsAreOrdered
      <4> QED
        BY <4>3, <4>4
    <3>3. ~Beats(c, c)
      BY <1>4, <1>6, <1>10, KindsAreOrdered
    <3>4. \A j \in 1 .. m : Kind(q[j]) = i => ~Beats(q[j], q[m])
      BY <1>2, <1>7, <3>2, <3>3
    <3>5. \A j \in 1 .. m - 1 : Kind(q[j]) = i => Beats(q[m], q[j])
      BY <1>2, <1>7, <3>2
    <3>6. IsBestAt(q, m, i, m)
      BY <1>2, <1>7, <1>10, <3>4, <3>5 DEF IsBestAt
    <3> QED
      BY <1>2, <1>7, <3>1, <3>6 DEF Keeps
  <2> QED
    BY <2>3, <2>4
<1> QED
  BY <1>8, <1>9, <1>10

Kept == [best : Candidate \cup {None}, poor : Candidate \cup {None}, watch : Candidate \cup {None}]

Replaces(c, i, slot) == Kind(c) = i /\ (slot = None \/ Beats(c, slot))

(* A slot compares a candidate with one of its own kind. *)
Holds(kept) ==
    /\ kept \in Kept
    /\ kept.best # None => Kind(kept.best) = 3
    /\ kept.poor # None => Kind(kept.poor) = 2
    /\ kept.watch # None => Kind(kept.watch) = 1

(* KeepBetter replaces at most the slot of the candidate's kind. *)
LEMMA KeepBetterIs ==
  ASSUME NEW kept, Holds(kept), NEW c \in Candidate, setting.options \in Options
  PROVE  /\ KeepBetter(kept, c) \in Kept
         /\ KeepBetter(kept, c).best = IF Replaces(c, 3, kept.best) THEN c ELSE kept.best
         /\ KeepBetter(kept, c).poor = IF Replaces(c, 2, kept.poor) THEN c ELSE kept.poor
         /\ KeepBetter(kept, c).watch = IF Replaces(c, 1, kept.watch) THEN c ELSE kept.watch
<1> DEFINE A == c.fresh /\ c.quality /\ (kept.best = None \/ ByMetric(c, kept.best))
           B == /\ c.fresh /\ ~c.quality /\ setting.options.profitable
                /\ (kept.poor = None \/ ByReturn(c, kept.poor))
           W == ~c.fresh /\ setting.options.watchlist /\ (kept.watch = None \/ ByReturn(c, kept.watch))
<1>1. /\ Kind(c) = 3 <=> c.fresh /\ c.quality
      /\ Kind(c) = 2 <=> c.fresh /\ ~c.quality /\ setting.options.profitable
      /\ Kind(c) = 1 <=> ~c.fresh /\ setting.options.watchlist
  BY KindIs
<1>2. kept \in Kept /\ [kept EXCEPT !.best = c] \in Kept
      /\ [kept EXCEPT !.poor = c] \in Kept /\ [kept EXCEPT !.watch = c] \in Kept
  BY DEF Holds, Kept
<1>3. /\ [kept EXCEPT !.best = c].best = c /\ [kept EXCEPT !.best = c].poor = kept.poor
      /\ [kept EXCEPT !.best = c].watch = kept.watch
      /\ [kept EXCEPT !.poor = c].best = kept.best /\ [kept EXCEPT !.poor = c].poor = c
      /\ [kept EXCEPT !.poor = c].watch = kept.watch
      /\ [kept EXCEPT !.watch = c].best = kept.best /\ [kept EXCEPT !.watch = c].poor = kept.poor
      /\ [kept EXCEPT !.watch = c].watch = c
  BY DEF Holds, Kept
<1>4. Replaces(c, 3, kept.best) <=> A
  <2>1. ASSUME Kind(c) = 3, kept.best # None PROVE Beats(c, kept.best) <=> ByMetric(c, kept.best)
    BY <2>1 DEF Beats, Holds
  <2> QED
    BY <1>1, <2>1 DEF Replaces
<1>5. Replaces(c, 2, kept.poor) <=> B
  <2>1. ASSUME Kind(c) = 2, kept.poor # None PROVE Beats(c, kept.poor) <=> ByReturn(c, kept.poor)
    BY <2>1 DEF Beats, Holds
  <2> QED
    BY <1>1, <2>1 DEF Replaces
<1>6. Replaces(c, 1, kept.watch) <=> W
  <2>1. ASSUME Kind(c) = 1, kept.watch # None PROVE Beats(c, kept.watch) <=> ByReturn(c, kept.watch)
    BY <2>1 DEF Beats, Holds
  <2> QED
    BY <1>1, <2>1 DEF Replaces
<1>7. CASE A
  <2>1. KeepBetter(kept, c) = [kept EXCEPT !.best = c]
    BY <1>7 DEF KeepBetter
  <2>2. ~B /\ ~W
    BY <1>7
  <2> HIDE DEF A, B, W
  <2> QED
    BY <1>2, <1>3, <1>4, <1>5, <1>6, <1>7, <2>1, <2>2
<1>8. CASE B
  <2>1. KeepBetter(kept, c) = [kept EXCEPT !.poor = c]
    BY <1>8 DEF KeepBetter
  <2>2. ~A /\ ~W
    BY <1>8
  <2> HIDE DEF A, B, W
  <2> QED
    BY <1>2, <1>3, <1>4, <1>5, <1>6, <1>8, <2>1, <2>2
<1>9. CASE W
  <2>1. KeepBetter(kept, c) = [kept EXCEPT !.watch = c]
    BY <1>9 DEF KeepBetter
  <2>2. ~A /\ ~B
    BY <1>9
  <2> HIDE DEF A, B, W
  <2> QED
    BY <1>2, <1>3, <1>4, <1>5, <1>6, <1>9, <2>1, <2>2
<1>10. CASE ~A /\ ~B /\ ~W
  <2>1. KeepBetter(kept, c) = kept
    BY <1>10 DEF KeepBetter
  <2> HIDE DEF A, B, W
  <2> QED
    BY <1>2, <1>4, <1>5, <1>6, <1>10, <2>1
<1> QED
  BY <1>7, <1>8, <1>9, <1>10

(* The slots after n candidates. *)
KeepsAll(q, n, kept) ==
    /\ kept \in Kept
    /\ Keeps(q, n, 3, kept.best) /\ Keeps(q, n, 2, kept.poor) /\ Keeps(q, n, 1, kept.watch)

(* All slots after the next candidate. *)
LEMMA KeepsAllNext ==
  ASSUME NEW q \in Seq(Candidate), NEW n \in Nat, n + 1 <= Len(q), NEW kept, KeepsAll(q, n, kept),
         setting.options \in Options
  PROVE  KeepsAll(q, n + 1, KeepBetter(kept, q[n + 1]))
<1>1. q[n + 1] \in Candidate
  OBVIOUS
<1>2. kept \in Kept /\ Keeps(q, n, 3, kept.best) /\ Keeps(q, n, 2, kept.poor) /\ Keeps(q, n, 1, kept.watch)
  BY DEF KeepsAll
<1>3. ASSUME NEW i, NEW slot, Keeps(q, n, i, slot), slot # None PROVE Kind(slot) = i
  BY <1>3 DEF Keeps, IsBestAt
<1>4. Holds(kept)
  BY <1>2, <1>3 DEF Holds
<1> DEFINE next == KeepBetter(kept, q[n + 1])
<1>5. /\ next \in Kept
      /\ next.best = IF Replaces(q[n + 1], 3, kept.best) THEN q[n + 1] ELSE kept.best
      /\ next.poor = IF Replaces(q[n + 1], 2, kept.poor) THEN q[n + 1] ELSE kept.poor
      /\ next.watch = IF Replaces(q[n + 1], 1, kept.watch) THEN q[n + 1] ELSE kept.watch
  BY <1>1, <1>4, KeepBetterIs
<1> HIDE DEF next
<1>6. ASSUME NEW i \in 1 .. 3, NEW slot, Keeps(q, n, i, slot), NEW new,
             new = IF Replaces(q[n + 1], i, slot) THEN q[n + 1] ELSE slot
      PROVE  Keeps(q, n + 1, i, new)
  BY <1>6, KeepsNext DEF Replaces
<1>7. Keeps(q, n + 1, 3, next.best) /\ Keeps(q, n + 1, 2, next.poor) /\ Keeps(q, n + 1, 1, next.watch)
  BY <1>2, <1>5, <1>6
<1> QED
  BY <1>5, <1>7 DEF KeepsAll, next

(* The places of the best candidates that may be shown. *)
BestPlaces(q) == {k \in DOMAIN q : Kind(q[k]) > 0 /\ \A j \in DOMAIN q : ~Beats(q[j], q[k])}

(* The first of the best of the best kind there is has the smallest of the best places. *)
LEMMA BestOfAKind ==
  ASSUME NEW q \in Seq(Candidate), setting.options \in Options, NEW i \in 1 .. 3, NEW k,
         IsBestAt(q, Len(q), i, k), \A j \in 1 .. Len(q) : Kind(q[j]) <= i
  PROVE  BestPlaces(q) # {} /\ Min(BestPlaces(q)) = k
<1>1. DOMAIN q = 1 .. Len(q) /\ Len(q) \in Nat
  OBVIOUS
<1>2. k \in 1 .. Len(q) /\ Kind(q[k]) = i
  BY DEF IsBestAt
<1>3. \A j \in 1 .. Len(q) : q[j] \in Candidate /\ Kind(q[j]) \in Int
  <2>1. \A j \in 1 .. Len(q) : q[j] \in Candidate
    OBVIOUS
  <2> QED
    BY <2>1, KindIs
<1>4. ASSUME NEW j \in 1 .. Len(q) PROVE ~Beats(q[j], q[k])
  <2>1. CASE Kind(q[j]) = i
    BY <2>1 DEF IsBestAt
  <2>2. CASE Kind(q[j]) # i
    BY <1>2, <1>3, <2>2 DEF Beats
  <2> QED
    BY <2>1, <2>2
<1>5. k \in BestPlaces(q)
  BY <1>1, <1>2, <1>4 DEF BestPlaces
<1>6. ASSUME NEW j \in BestPlaces(q) PROVE k <= j
  <2>1. j \in 1 .. Len(q) /\ ~Beats(q[k], q[j])
    BY <1>1, <1>2 DEF BestPlaces
  <2>2. Kind(q[j]) = i
    <3>1. ~(Kind(q[k]) > Kind(q[j]))
      BY <2>1 DEF Beats
    <3> QED
      BY <1>2, <1>3, <2>1, <3>1
  <2>3. SUFFICES ASSUME j < k PROVE FALSE
    BY <1>2, <2>1
  <2>4. j \in 1 .. k - 1
    BY <1>2, <2>1, <2>3
  <2> QED
    BY <2>1, <2>2, <2>4 DEF IsBestAt
<1>7. BestPlaces(q) \subseteq Int
  BY <1>1 DEF BestPlaces
<1>8. Min(BestPlaces(q)) = k
  BY <1>5, <1>6, <1>7, MinIs
<1> QED
  BY <1>5, <1>8

(* What scanSingleStock chooses is at the first of the best places. *)
LEMMA ChosenIs ==
  ASSUME NEW q \in Seq(Candidate), setting.options \in Options
  PROVE  Chosen(q) = IF BestPlaces(q) = {} THEN None ELSE q[Min(BestPlaces(q))]
<1> DEFINE N == Len(q)
           empty == [best |-> None, poor |-> None, watch |-> None]
           G == [e \in Kept \X (1 .. N) |-> KeepBetter(e[1], q[e[2]])]
<1>1. N \in Nat /\ \A n \in 1 .. N : q[n] \in Candidate
  OBVIOUS
<1>2. empty \in Kept
  BY DEF Kept
<1>3. \A kept \in Kept, c \in Candidate : KeepBetter(kept, c) \in Kept
  <2> SUFFICES ASSUME NEW kept \in Kept, NEW c \in Candidate PROVE KeepBetter(kept, c) \in Kept
    OBVIOUS
  <2>1. /\ kept \in Kept /\ [kept EXCEPT !.best = c] \in Kept
        /\ [kept EXCEPT !.poor = c] \in Kept /\ [kept EXCEPT !.watch = c] \in Kept
    BY DEF Kept
  <2>2. KeepBetter(kept, c) \in {kept, [kept EXCEPT !.best = c], [kept EXCEPT !.poor = c], [kept EXCEPT !.watch = c]}
    BY DEF KeepBetter
  <2> QED
    BY <2>1, <2>2
<1> HIDE DEF N, empty
<1>4. G \in [Kept \X (1 .. N) -> Kept]
  BY <1>1, <1>3
<1>5. PICK h \in [0 .. N -> Kept] : Iterates(h, empty, N, G)
  <2> HIDE DEF G
  <2> QED
    BY <1>1, <1>2, <1>4, Recursion
<1>6. \A n \in 0 .. N : h[n] = IF n = 0 THEN empty ELSE KeepBetter(h[n - 1], q[n])
  <2>1. h[0] = empty
    BY <1>5 DEF Iterates
  <2>2. ASSUME NEW n \in 1 .. N
        PROVE  h[n] = KeepBetter(h[n - 1], q[n])
    <3>1. n - 1 \in 0 .. N
      BY <1>1
    <3>2. <<h[n - 1], n>> \in Kept \X (1 .. N)
      BY <1>5, <3>1
    <3>3. h[n] = G[<<h[n - 1], n>>]
      <4> HIDE DEF G
      <4> QED
        BY <1>5 DEF Iterates
    <3> QED
      BY <3>2, <3>3
  <2>3. \A n \in 0 .. N : n # 0 => n \in 1 .. N
    BY <1>1
  <2> QED
    BY <2>1, <2>2, <2>3
<1> DEFINE kept[n \in 0 .. N] == IF n = 0 THEN empty ELSE KeepBetter(kept[n - 1], q[n])
<1>7. kept = CHOOSE g : g = [n \in 0 .. N |-> IF n = 0 THEN empty ELSE KeepBetter(g[n - 1], q[n])]
  BY DEF kept
<1> DEFINE last == kept[N]
<1>8. Chosen(q) = IF last.best # None THEN last.best ELSE IF last.poor # None THEN last.poor ELSE last.watch
  BY DEF Chosen, kept, N, empty
<1> HIDE DEF kept
<1>9. h = [n \in 0 .. N |-> IF n = 0 THEN empty ELSE KeepBetter(h[n - 1], q[n])]
  <2>1. h = [n \in 0 .. N |-> h[n]]
    OBVIOUS
  <2> QED
    BY <1>6, <2>1
<1>10. kept = [n \in 0 .. N |-> IF n = 0 THEN empty ELSE KeepBetter(kept[n - 1], q[n])]
  BY <1>7, <1>9
<1> DEFINE T == {n \in Nat : n <= N => KeepsAll(q, n, kept[n])}
<1>11. 0 \in T
  <2>1. kept[0] = empty
    BY <1>1, <1>10
  <2>2. empty.best = None /\ empty.poor = None /\ empty.watch = None
    BY DEF empty
  <2>3. \A i : Keeps(q, 0, i, None)
    BY DEF Keeps
  <2> QED
    BY <1>2, <2>1, <2>2, <2>3 DEF KeepsAll
<1>12. ASSUME NEW n \in Nat, n \in T
       PROVE  n + 1 \in T
  <2> SUFFICES ASSUME n + 1 <= N PROVE KeepsAll(q, n + 1, kept[n + 1])
    OBVIOUS
  <2>1. n + 1 \in 0 .. N /\ n + 1 # 0 /\ (n + 1) - 1 = n /\ n <= N
    BY <1>1
  <2>2. kept[n + 1] = KeepBetter(kept[n], q[n + 1])
    BY <1>10, <2>1
  <2>3. KeepsAll(q, n, kept[n])
    BY <1>12, <2>1
  <2>4. n + 1 <= Len(q)
    BY DEF N
  <2> HIDE DEF T
  <2> QED
    BY <2>2, <2>3, <2>4, KeepsAllNext
<1>13. N \in T
  <2> HIDE DEF T
  <2> QED
    BY <1>1, <1>11, <1>12, Induct
<1>14. KeepsAll(q, N, last)
  BY <1>1, <1>13
<1> HIDE DEF last
<1>15. Keeps(q, N, 3, last.best) /\ Keeps(q, N, 2, last.poor) /\ Keeps(q, N, 1, last.watch)
  BY <1>14 DEF KeepsAll
<1>16. \A j \in 1 .. N : Kind(q[j]) \in {0, 1, 2, 3} /\ q[j] # None
  BY <1>1, KindIs, CandidateIs
<1>17. ASSUME NEW i \in 1 .. 3, NEW slot, Keeps(q, N, i, slot), slot # None, \A j \in 1 .. N : Kind(q[j]) <= i
       PROVE  BestPlaces(q) # {} /\ slot = q[Min(BestPlaces(q))]
  <2>1. PICK k \in 1 .. N : slot = q[k] /\ IsBestAt(q, N, i, k)
    BY <1>17 DEF Keeps
  <2> QED
    BY <1>17, <2>1, BestOfAKind DEF N
<1>18. ASSUME NEW i \in 1 .. 3, Keeps(q, N, i, None)
       PROVE  \A j \in 1 .. N : Kind(q[j]) # i
  BY <1>16, <1>18 DEF Keeps
<1>19. CASE last.best # None
  <2>1. \A j \in 1 .. N : Kind(q[j]) <= 3
    BY <1>16
  <2> QED
    BY <1>8, <1>15, <1>17, <1>19, <2>1
<1>20. CASE last.best = None /\ last.poor # None
  <2>1. \A j \in 1 .. N : Kind(q[j]) # 3
    BY <1>15, <1>18, <1>20
  <2>2. \A j \in 1 .. N : Kind(q[j]) <= 2
    BY <1>16, <2>1
  <2> QED
    BY <1>8, <1>15, <1>17, <1>20, <2>2
<1>21. CASE last.best = None /\ last.poor = None /\ last.watch # None
  <2>1. \A j \in 1 .. N : Kind(q[j]) # 3 /\ Kind(q[j]) # 2
    BY <1>15, <1>18, <1>21
  <2>2. \A j \in 1 .. N : Kind(q[j]) <= 1
    BY <1>16, <2>1
  <2> QED
    BY <1>8, <1>15, <1>17, <1>21, <2>2
<1>22. CASE last.best = None /\ last.poor = None /\ last.watch = None
  <2>1. \A j \in 1 .. N : Kind(q[j]) # 3 /\ Kind(q[j]) # 2 /\ Kind(q[j]) # 1
    BY <1>15, <1>18, <1>22
  <2>2. \A j \in 1 .. N : ~(Kind(q[j]) > 0)
    BY <1>16, <2>1
  <2>3. BestPlaces(q) = {}
    BY <2>2 DEF BestPlaces, N
  <2> QED
    BY <1>8, <1>22, <2>3
<1> QED
  BY <1>19, <1>20, <1>21, <1>22

(* What a variant comes to is typed. *)
LEMMA EvaluationIs ==
  ASSUME NEW n, NEW rolling, NEW run \in SimulatedRun
  PROVE  Evaluation(n, rolling, run, TRUE).oos \in Int
<1> DEFINE folds == WalkForwardFolds(n, rolling)
           valid == {fold \in folds : Valid(fold, run)}
           last == CHOOSE fold \in valid : \A other \in valid : other.index <= fold.index
           rolled == [ok |-> TRUE, gain |-> run.folds[last.index].gain, oos |-> Aggregate(valid, run)]
<1>1. LegacyEvaluation(n, run, TRUE).oos \in Int
  <2>1. run.legacy.oos \in Int
    BY DEF SimulatedRun, FoldResult
  <2> DEFINE gained == [ok |-> TRUE, gain |-> run.legacy.gain, oos |-> run.legacy.oos]
  <2>2. LegacyEvaluation(n, run, TRUE) = gained \/ LegacyEvaluation(n, run, TRUE) = NotEvaluated
    BY DEF LegacyEvaluation
  <2>3. gained.oos = run.legacy.oos /\ NotEvaluated.oos = 0
    BY DEF NotEvaluated
  <2> DEFINE legacy == LegacyEvaluation(n, run, TRUE)
  <2>4. legacy = gained \/ legacy = NotEvaluated
    BY <2>2
  <2> HIDE DEF gained, legacy
  <2>5. legacy.oos \in Int
    BY <2>1, <2>3, <2>4
  <2> QED
    BY <2>5 DEF legacy
<1>2. \A g : Aggregate(g, run) \in Int
  <2> SUFFICES ASSUME NEW g PROVE Aggregate(g, run) \in Int
    OBVIOUS
  <2> DEFINE oos(i) == IF \E fold \in g : fold.index = i THEN run.folds[i].oos ELSE 0
  <2>1. \A i \in 0 .. 2 : run.folds[i].oos \in Int
    BY DEF SimulatedRun, FoldResult
  <2>2. \A i \in 0 .. 2 : oos(i) \in Int
    BY <2>1
  <2>3. oos(0) \in Int /\ oos(1) \in Int /\ oos(2) \in Int
    BY <2>2
  <2> HIDE DEF oos
  <2>4. oos(0) + oos(1) + oos(2) \in Int
    BY <2>3
  <2> QED
    BY <2>4 DEF Aggregate, oos
<1>3. rolled.oos \in Int
  BY <1>2
<1>4. Evaluation(n, rolling, run, TRUE) = rolled \/ Evaluation(n, rolling, run, TRUE) = LegacyEvaluation(n, run, TRUE)
  BY DEF Evaluation
<1> HIDE DEF rolled
<1> QED
  BY <1>1, <1>3, <1>4

(* A variant gives one candidate or none. *)
LEMMA CandidateOfIs ==
  ASSUME NEW v \in Nat \ {0}, NEW outcome \in Outcome, NEW n
  PROVE  CandidateOf(v, outcome, n) \in Seq(Candidate)
<1> DEFINE e == Evaluation(n, setting.rolling, outcome.run, TRUE)
           fresh == FreshStrength(outcome.signals) >= MinStrength
           c == [variant |-> v, ret |-> e.oos, score |-> outcome.score, fresh |-> fresh,
                 quality |-> PassesQuality(outcome.quality)]
<1>1. outcome.run \in SimulatedRun /\ outcome.score \in Int
  BY DEF Outcome
<1>2. e.oos \in Int
  BY <1>1, EvaluationIs
<1>3. fresh \in BOOLEAN /\ PassesQuality(outcome.quality) \in BOOLEAN
  BY DEF PassesQuality
<1>4. CandidateOf(v, outcome, n) = <<c>> \/ CandidateOf(v, outcome, n) = <<>>
  BY DEF CandidateOf
<1> HIDE DEF e, fresh
<1>5. c \in Candidate
  BY <1>1, <1>2, <1>3 DEF Candidate
<1> HIDE DEF c
<1>6. <<c>> \in Seq(Candidate) /\ <<>> \in Seq(Candidate)
  BY <1>5, EmptySeq
<1> QED
  BY <1>4, <1>6

(* The candidates of a stock. *)
LEMMA CandidatesAre ==
  ASSUME NEW stock, NEW outcomes \in Seq(Outcome)
  PROVE  Candidates(stock, outcomes) \in Seq(Candidate)
<1> DEFINE N == Len(outcomes)
           X == Seq(Candidate)
           Step(list, v) == list \o CandidateOf(v, outcomes[v], stock.candles)
           G == [e \in X \X (1 .. N) |-> Step(e[1], e[2])]
<1>1. N \in Nat /\ \A v \in 1 .. N : v \in Nat \ {0} /\ outcomes[v] \in Outcome
  OBVIOUS
<1>2. <<>> \in X
  BY EmptySeq
<1>3. \A list \in X, v \in 1 .. N : Step(list, v) \in X
  <2> SUFFICES ASSUME NEW list \in X, NEW v \in 1 .. N PROVE Step(list, v) \in X
    OBVIOUS
  <2> DEFINE more == CandidateOf(v, outcomes[v], stock.candles)
  <2>1. more \in Seq(Candidate)
    BY <1>1, CandidateOfIs
  <2> HIDE DEF more
  <2>2. list \o more \in Seq(Candidate)
    BY <2>1
  <2> QED
    BY <2>2 DEF more
<1>4. G \in [X \X (1 .. N) -> X]
  <2> HIDE DEF X, Step
  <2> QED
    BY <1>3
<1>5. PICK h \in [0 .. N -> X] : Iterates(h, <<>>, N, G)
  <2> HIDE DEF G, X, N
  <2> QED
    BY <1>1, <1>2, <1>4, Recursion
<1>6. \A v \in 0 .. N : h[v] = IF v = 0 THEN <<>> ELSE Step(h[v - 1], v)
  <2>1. h[0] = <<>>
    BY <1>5 DEF Iterates
  <2>2. ASSUME NEW v \in 1 .. N
        PROVE  h[v] = Step(h[v - 1], v)
    <3>1. v - 1 \in 0 .. N
      BY <1>1
    <3> HIDE DEF X, Step, N
    <3>2. <<h[v - 1], v>> \in X \X (1 .. N)
      BY <1>5, <3>1
    <3>3. h[v] = G[<<h[v - 1], v>>]
      <4> HIDE DEF G
      <4> QED
        BY <1>5 DEF Iterates
    <3> QED
      BY <3>2, <3>3
  <2>3. \A v \in 0 .. N : v # 0 => v \in 1 .. N
    BY <1>1
  <2> HIDE DEF X, Step, N
  <2> QED
    BY <2>1, <2>2, <2>3
<1> DEFINE passed[v \in 0 .. N] == IF v = 0 THEN <<>> ELSE Step(passed[v - 1], v)
<1>7. passed = CHOOSE g : g = [v \in 0 .. N |-> IF v = 0 THEN <<>> ELSE Step(g[v - 1], v)]
  BY DEF passed
<1>8. Candidates(stock, outcomes) = <<>> \/ Candidates(stock, outcomes) = passed[N]
  BY DEF Candidates, passed
<1> HIDE DEF passed
<1>9. h = [v \in 0 .. N |-> IF v = 0 THEN <<>> ELSE Step(h[v - 1], v)]
  <2>1. h = [v \in 0 .. N |-> h[v]]
    <3> HIDE DEF X
    <3> QED
      OBVIOUS
  <2> HIDE DEF X, Step, N
  <2> QED
    BY <1>6, <2>1
<1>10. passed = [v \in 0 .. N |-> IF v = 0 THEN <<>> ELSE Step(passed[v - 1], v)]
  <2> HIDE DEF X, Step, N
  <2> QED
    BY <1>7, <1>9
<1> DEFINE T == {v \in Nat : v <= N => passed[v] \in X}
<1>11. 0 \in T
  <2>1. passed[0] = <<>>
    <3>1. 0 \in 0 .. N
      BY <1>1
    <3> HIDE DEF Step, N
    <3> QED
      BY <1>10, <3>1
  <2> HIDE DEF X
  <2> QED
    BY <1>2, <2>1
<1>12. ASSUME NEW v \in Nat, v \in T
       PROVE  v + 1 \in T
  <2> SUFFICES ASSUME v + 1 <= N PROVE passed[v + 1] \in X
    OBVIOUS
  <2>1. v + 1 \in 0 .. N /\ v + 1 \in 1 .. N /\ v + 1 # 0 /\ (v + 1) - 1 = v /\ v <= N
    BY <1>1
  <2>2. passed[v + 1] = Step(passed[v], v + 1)
    <3> HIDE DEF Step, N
    <3> QED
      BY <1>10, <2>1
  <2>3. passed[v] \in X
    BY <1>12, <2>1
  <2> HIDE DEF Step, X, N, T
  <2> QED
    BY <1>3, <2>1, <2>2, <2>3
<1>13. N \in T
  <2> HIDE DEF T
  <2> QED
    BY <1>1, <1>11, <1>12, Induct
<1>14. passed[N] \in X
  BY <1>1, <1>13
<1> QED
  BY <1>2, <1>8, <1>14

(* A chosen variant is one of the candidates. *)
LEMMA ChosenIsCandidate ==
  ASSUME NEW q \in Seq(Candidate), setting.options \in Options, Chosen(q) # None
  PROVE  Chosen(q) \in Candidate
<1> DEFINE B == BestPlaces(q)
<1>1. Chosen(q) = q[Min(B)] /\ B # {}
  BY ChosenIs
<1>2. B \subseteq 1 .. Len(q) /\ Len(q) \in Nat
  BY DEF BestPlaces
<1> HIDE DEF B
<1>3. B \subseteq Nat /\ B \subseteq Int
  BY <1>2
<1>4. PICK m \in B : \A k \in B : m <= k
  BY <1>1, <1>3, LeastNumber
<1>5. Min(B) = m
  BY <1>3, <1>4, MinIs
<1> QED
  BY <1>1, <1>2, <1>4, <1>5

-----------------------------------------------------------------------------
(* The scan. *)

TopIsSound == \E n \in Nat : DOMAIN top = 1 .. n /\ \A k \in 1 .. n : top[k].code \in Nat

(* Every stock is looked at once: a code that is still to come has no result yet. *)
StocksAreNew ==
    phase = "stocks" =>
        /\ todo \subseteq DOMAIN setting.market
        /\ \A r \in results, k \in todo : r.code # setting.market[k].code

ScanInv ==
    /\ setting \in Settings /\ evaluated.candles \in Nat
    /\ ResultsAreSound /\ TopIsSound /\ StocksAreNew
    /\ SelectionIsBest /\ SectorsFirst /\ ClustersConnect

(* What is assumed of a setting. *)
LEMMA SettingIs ==
  ASSUME setting \in Settings
  PROVE  /\ setting.options \in Options /\ setting.topN \in Nat
         /\ setting.held \subseteq Nat /\ IsFiniteSet(setting.held)
         /\ setting.market \in Seq(ListedStocks)
         /\ \A j, k \in DOMAIN setting.market : setting.market[j].code = setting.market[k].code => j = k
BY MarketScanAssumption DEF Options

LEMMA NothingEvaluated ==
  NoEvaluation.candles \in Nat /\ NoEvaluation.candidates = <<>> /\ NoEvaluation.chosen = None
BY DEF NoEvaluation

LEMMA NoResults ==
  IsFiniteSet({}) /\ DOMAIN <<>> = 1 .. 0
BY FS_EmptySet

LEMMA ScanInit == Init => ScanInv
<1> SUFFICES ASSUME Init PROVE ScanInv
  OBVIOUS
<1>1. /\ setting \in Settings /\ phase = "idle" /\ evaluated = NoEvaluation
      /\ results = {} /\ top = <<>> /\ clusters = NoClusters
  BY DEF Init
<1>2. ResultsAreSound
  BY <1>1, NoResults DEF ResultsAreSound
<1>3. TopIsSound
  BY <1>1, NoResults DEF TopIsSound
<1>4. StocksAreNew /\ SectorsFirst /\ ClustersConnect
  BY <1>1 DEF StocksAreNew, SectorsFirst, ClustersConnect
<1>5. SelectionIsBest
  BY <1>1, NothingEvaluated DEF SelectionIsBest
<1> QED
  BY <1>1, <1>2, <1>3, <1>4, <1>5, NothingEvaluated DEF ScanInv

(* Parts that do not depend on what changed. *)
LEMMA ComparisonStays ==
  ASSUME setting' = setting
  PROVE  \A a, b : Kind(a)' = Kind(a) /\ (Beats(a, b)' <=> Beats(a, b))
<1> SUFFICES ASSUME NEW a, NEW b PROVE Kind(a)' = Kind(a) /\ (Beats(a, b)' <=> Beats(a, b))
  OBVIOUS
<1>1. \A c : Kind(c)' = Kind(c)
  BY Zenon DEF Kind
<1>2. ByMetric(a, b)' <=> ByMetric(a, b)
  BY Zenon DEF ByMetric
<1> QED
  BY <1>1, <1>2, Zenon DEF Beats

LEMMA SelectionStays ==
  ASSUME SelectionIsBest, UNCHANGED <<setting, evaluated>>
  PROVE  SelectionIsBest'
<1>1. \A a, b : Kind(a)' = Kind(a) /\ (Beats(a, b)' <=> Beats(a, b))
  BY ComparisonStays
<1> QED
  BY <1>1 DEF SelectionIsBest

LEMMA ClustersStay ==
  ASSUME ClustersConnect, UNCHANGED <<phase, clusters>>
  PROVE  ClustersConnect'
BY DEF ClustersConnect

LEMMA SectorsStay ==
  ASSUME SectorsFirst, UNCHANGED <<setting, phase, results, top>>
  PROVE  SectorsFirst'
BY DEF SectorsFirst, Depth

(* ScanStock: the choice of a variant is right, and the new result has a code of its own. *)
LEMMA ScanStockKeeps ==
  ASSUME ScanInv, NEW outcomes \in Outcomes, ScanStock(outcomes)
  PROVE  ScanInv'
<1> DEFINE stock(p) == setting.market[p]
           q(p) == Candidates(stock(p), outcomes)
           result(p) == [code |-> stock(p).code, sector |-> stock(p).sector,
                         ret |-> Chosen(q(p)).ret, score |-> Chosen(q(p)).score]
<1>1. PICK p \in todo :
        /\ evaluated' = [candles |-> stock(p).candles, candidates |-> q(p), chosen |-> Chosen(q(p))]
        /\ results' = IF Chosen(q(p)) = None THEN results ELSE results \cup {result(p)}
        /\ todo' = todo \ {p}
  BY DEF ScanStock
<1>2. phase = "stocks" /\ UNCHANGED <<setting, phase, top, clusters>>
  BY DEF ScanStock
<1>3. /\ setting \in Settings /\ ResultsAreSound /\ TopIsSound
      /\ todo \subseteq DOMAIN setting.market
      /\ \A r \in results, k \in todo : r.code # setting.market[k].code
  BY <1>2 DEF ScanInv, StocksAreNew
<1>4. stock(p) \in ListedStocks /\ p \in DOMAIN setting.market
  BY <1>3, SettingIs
<1>5. stock(p).code \in Nat /\ stock(p).candles \in Nat
  BY <1>4 DEF ListedStocks
<1>6. q(p) \in Seq(Candidate)
  <2>1. outcomes \in Seq(Outcome)
    BY MarketScanAssumption
  <2> QED
    BY <2>1, CandidatesAre
<1>7. setting.options \in Options
  BY <1>3, SettingIs
<1> DEFINE chosen == Chosen(q(p))
           places == BestPlaces(q(p))
<1>8. chosen = IF places = {} THEN None ELSE q(p)[Min(places)]
  BY <1>6, <1>7, ChosenIs
<1>9. chosen # None => chosen.ret \in Int /\ chosen.score \in Int
  BY <1>6, <1>7, ChosenIsCandidate, CandidateIs
<1>10. SelectionIsBest'
  <2> DEFINE all == q(p)
  <2>1. evaluated'.candidates = all /\ evaluated'.chosen = chosen
    BY <1>1
  <2>2. places = {k \in DOMAIN all : Kind(all[k]) > 0 /\ \A j \in DOMAIN all : ~Beats(all[j], all[k])}
    BY DEF BestPlaces
  <2>3. chosen = IF places = {} THEN None ELSE all[Min(places)]
    BY <1>8
  <2>4. \A a, b : Kind(a)' = Kind(a) /\ (Beats(a, b)' <=> Beats(a, b))
    BY <1>2, ComparisonStays
  <2> HIDE DEF all, chosen, places
  <2> QED
    BY <2>1, <2>2, <2>3, <2>4 DEF SelectionIsBest
<1>11. evaluated'.candles \in Nat
  BY <1>1, <1>5
<1>12. ResultsAreSound' /\ StocksAreNew'
  <2>1. \A k \in todo' : k \in todo /\ k # p /\ setting.market[k].code # stock(p).code
    BY <1>1, <1>3, SettingIs
  <2>2. CASE chosen = None
    <3>1. results' = results
      BY <1>1, <2>2
    <3> QED
      BY <1>2, <1>3, <2>1, <3>1 DEF ResultsAreSound, StocksAreNew
  <2>3. CASE chosen # None
    <3> DEFINE r == result(p)
    <3>1. results' = results \cup {r}
      BY <1>1, <2>3
    <3>2. r.code = stock(p).code /\ r.ret = chosen.ret /\ r.score = chosen.score
      OBVIOUS
    <3> HIDE DEF r, stock, chosen
    <3>3. r.code \in Nat /\ r.ret \in Int /\ r.score \in Int
      BY <1>5, <1>9, <2>3, <3>2
    <3>4. \A s \in results : s.code # r.code
      BY <1>3, <3>2 DEF stock
    <3>5. IsFiniteSet(results')
      BY <1>3, <3>1, FS_AddElement DEF ResultsAreSound
    <3>6. ResultsAreSound'
      BY <1>3, <3>1, <3>3, <3>4, <3>5 DEF ResultsAreSound
    <3>7. StocksAreNew'
      BY <1>2, <1>3, <2>1, <3>1, <3>2 DEF StocksAreNew
    <3> QED
      BY <3>6, <3>7
  <2> QED
    BY <2>2, <2>3
<1>13. TopIsSound' /\ SectorsFirst' /\ ClustersConnect'
  BY <1>2, <1>3 DEF TopIsSound, SectorsFirst, ClustersConnect
<1> QED
  BY <1>2, <1>3, <1>10, <1>11, <1>12, <1>13 DEF ScanInv

(* ChooseTop: the list is the best one. *)
LEMMA ChooseTopKeeps ==
  ASSUME ScanInv, ChooseTop
  PROVE  ScanInv'
<1>1. /\ top' = SelectTop /\ phase' = "top"
      /\ UNCHANGED <<setting, todo, evaluated, results, clusters>>
  BY DEF ChooseTop
<1>2. setting \in Settings /\ evaluated.candles \in Nat /\ ResultsAreSound /\ SelectionIsBest
  BY DEF ScanInv
<1>3. BestFirst(SelectTop)
  BY <1>2, SettingIs, SelectTopIsBest
<1> DEFINE list == SelectTop
<1> HIDE DEF list
<1>4. BestFirst(list) /\ top' = list
  BY <1>1, <1>3 DEF list
<1>5. TopIsSound'
  <2>1. list \in Seq(results)
    BY <1>4 DEF BestFirst
  <2>2. Len(list) \in Nat /\ DOMAIN list = 1 .. Len(list) /\ \A k \in 1 .. Len(list) : list[k] \in results
    BY <2>1
  <2>3. \A k \in 1 .. Len(list) : list[k].code \in Nat
    BY <1>2, <2>2 DEF ResultsAreSound
  <2> QED
    BY <1>4, <2>2, <2>3 DEF TopIsSound
<1>6. SectorsFirst'
  BY <1>1, <1>4 DEF SectorsFirst, BestFirst, Depth
<1>7. ResultsAreSound' /\ StocksAreNew' /\ ClustersConnect'
  BY <1>1, <1>2 DEF ResultsAreSound, StocksAreNew, ClustersConnect
<1>8. SelectionIsBest'
  BY <1>1, <1>2, SelectionStays
<1> QED
  BY <1>1, <1>2, <1>5, <1>6, <1>7, <1>8 DEF ScanInv

(* AddClusters: the clusters connect the codes of the list and of the sessions. *)
LEMMA AddClustersKeeps ==
  ASSUME ScanInv, NEW correlated \in SUBSET PairsOf(Watched), AddClusters(correlated)
  PROVE  ScanInv'
<1>1. /\ clusters' = [codes |-> Watched, correlated |-> correlated,
                      groups |-> IF Cardinality(Watched) < 2 THEN <<>> ELSE Clusters(Watched, correlated)]
      /\ phase' = "clusters"
      /\ UNCHANGED <<setting, todo, evaluated, results, top>>
  BY DEF AddClusters
<1>2. setting \in Settings /\ evaluated.candles \in Nat /\ ResultsAreSound /\ TopIsSound /\ SelectionIsBest
  BY DEF ScanInv
<1> DEFINE codes == Watched
<1>3. IsFiniteSet(codes) /\ codes \subseteq Nat
  <2> DEFINE C == {top[k].code : k \in DOMAIN top}
  <2>1. PICK n \in Nat : DOMAIN top = 1 .. n /\ \A k \in 1 .. n : top[k].code \in Nat
    BY <1>2 DEF TopIsSound
  <2>2. C \subseteq Nat
    BY <2>1
  <2>3. IsFiniteSet(C)
    <3>1. IsFiniteSet(1 .. n)
      BY <2>1, FS_Interval
    <3> DEFINE f == [k \in 1 .. n |-> top[k].code]
    <3>2. f \in Surjection(1 .. n, C)
      BY <2>1 DEF Surjection
    <3> HIDE DEF f, C
    <3> QED
      BY <3>1, <3>2, FS_Surjection
  <2>4. setting.held \subseteq Nat /\ IsFiniteSet(setting.held)
    BY <1>2, SettingIs
  <2>5. codes = C \cup setting.held \/ codes = {}
    BY DEF Watched
  <2> HIDE DEF C, codes
  <2>6. IsFiniteSet(C \cup setting.held)
    BY <2>3, <2>4, FS_Union
  <2> QED
    BY <2>2, <2>4, <2>5, <2>6, FS_EmptySet
<1>4. correlated \in SUBSET PairsOf(codes)
  OBVIOUS
<1> HIDE DEF codes
<1>5. clusters'.codes = codes /\ clusters'.correlated = correlated
      /\ clusters'.groups = IF Cardinality(codes) < 2 THEN <<>> ELSE Clusters(codes, correlated)
  BY <1>1 DEF codes
<1>6. ClustersConnect'
  <2> DEFINE groups == Clusters(codes, correlated)
  <2>1. /\ \A a, b \in codes : a # b =>
             ((\E k \in DOMAIN groups : {a, b} \subseteq groups[k]) <=> b \in Reach(codes, correlated, a))
        /\ \A j, k \in DOMAIN groups : j < k => Min(groups[j]) < Min(groups[k])
    BY <1>3, <1>4, ClustersConnectCodes
  <2>2. Cardinality(codes) \in Nat
    BY <1>3, FS_CardinalityType
  <2>3. Cardinality(codes) > 1 => clusters'.groups = groups
    BY <1>5, <2>2
  <2> HIDE DEF groups
  <2> QED
    BY <1>5, <2>1, <2>3 DEF ClustersConnect
<1>7. ResultsAreSound' /\ TopIsSound' /\ StocksAreNew' /\ SectorsFirst'
  BY <1>1, <1>2 DEF ResultsAreSound, TopIsSound, StocksAreNew, SectorsFirst
<1>8. SelectionIsBest'
  BY <1>1, <1>2, SelectionStays
<1> QED
  BY <1>1, <1>2, <1>6, <1>7, <1>8 DEF ScanInv

LEMMA ScanStep == ScanInv /\ [Next]_vars => ScanInv'
<1> SUFFICES ASSUME ScanInv, [Next]_vars PROVE ScanInv'
  OBVIOUS
<1>1. /\ setting \in Settings /\ evaluated.candles \in Nat /\ ResultsAreSound /\ TopIsSound
      /\ SelectionIsBest
  BY DEF ScanInv
<1>2. CASE StartScan
  <2>1. /\ setting' = setting /\ phase' = "stocks" /\ evaluated' = NoEvaluation
        /\ results' = {} /\ top' = <<>>
        /\ todo' = {k \in DOMAIN setting.market : Eligible(setting.market[k])}
    BY <1>2 DEF StartScan
  <2>2. ResultsAreSound' /\ TopIsSound'
    BY <2>1, NoResults DEF ResultsAreSound, TopIsSound
  <2>3. StocksAreNew' /\ SectorsFirst' /\ ClustersConnect'
    BY <2>1 DEF StocksAreNew, SectorsFirst, ClustersConnect
  <2>4. SelectionIsBest'
    BY <2>1, NothingEvaluated DEF SelectionIsBest
  <2> QED
    BY <1>1, <2>1, <2>2, <2>3, <2>4, NothingEvaluated DEF ScanInv
<1>3. ASSUME NEW outcomes \in Outcomes, ScanStock(outcomes) PROVE ScanInv'
  BY <1>3, ScanStockKeeps
<1>4. CASE ChooseTop
  BY <1>4, ChooseTopKeeps
<1>5. ASSUME NEW breadth \in Breadths, AddRegime(breadth) PROVE ScanInv'
  <2>1. /\ setting' = setting /\ phase' = "regime" /\ evaluated' = NoEvaluation
        /\ results' = {} /\ top' = top
    BY <1>5 DEF AddRegime
  <2>2. ResultsAreSound' /\ TopIsSound'
    BY <1>1, <2>1, NoResults DEF ResultsAreSound, TopIsSound
  <2>3. StocksAreNew' /\ SectorsFirst' /\ ClustersConnect'
    BY <2>1 DEF StocksAreNew, SectorsFirst, ClustersConnect
  <2>4. SelectionIsBest'
    BY <2>1, NothingEvaluated DEF SelectionIsBest
  <2> QED
    BY <1>1, <2>1, <2>2, <2>3, <2>4, NothingEvaluated DEF ScanInv
<1>6. ASSUME NEW correlated \in SUBSET PairsOf(Watched), AddClusters(correlated) PROVE ScanInv'
  BY <1>6, AddClustersKeeps
<1>7. CASE Respond
  <2>1. /\ phase' = "idle" /\ top' = <<>> /\ UNCHANGED <<setting, evaluated, results>>
    BY <1>7 DEF Respond
  <2>2. ResultsAreSound' /\ TopIsSound'
    BY <1>1, <2>1, NoResults DEF ResultsAreSound, TopIsSound
  <2>3. StocksAreNew' /\ SectorsFirst' /\ ClustersConnect'
    BY <2>1 DEF StocksAreNew, SectorsFirst, ClustersConnect
  <2>4. SelectionIsBest'
    BY <1>1, <2>1, SelectionStays
  <2> QED
    BY <1>1, <2>1, <2>2, <2>3, <2>4 DEF ScanInv
<1>8. CASE UNCHANGED <<setting, phase, todo, evaluated, results, top, clusters>>
  <2>1. ResultsAreSound' /\ TopIsSound' /\ StocksAreNew'
    BY <1>8 DEF ScanInv, ResultsAreSound, TopIsSound, StocksAreNew
  <2>2. SelectionIsBest' /\ SectorsFirst' /\ ClustersConnect'
    BY <1>8, SelectionStays, SectorsStay, ClustersStay DEF ScanInv
  <2> QED
    BY <1>1, <1>8, <2>1, <2>2 DEF ScanInv
<1>9. \/ StartScan \/ ChooseTop \/ Respond
      \/ \E outcomes \in Outcomes : ScanStock(outcomes)
      \/ \E breadth \in Breadths : AddRegime(breadth)
      \/ \E correlated \in SUBSET PairsOf(Watched) : AddClusters(correlated)
      \/ UNCHANGED <<setting, phase, todo, evaluated, results, top, clusters>>
  BY DEF Next, vars, scanVars, ShowPair, NextDay
<1> QED
  BY <1>2, <1>3, <1>4, <1>5, <1>6, <1>7, <1>8, <1>9

(* The scan chooses the best variant of a stock, and spreads the stocks over the sectors. *)
THEOREM ScanChoosesTheBest == Spec => []BestAreChosen
<1>1. ScanInv => BestAreChosen
  BY DEF ScanInv, BestAreChosen
<1> QED
  BY <1>1, ScanInit, ScanStep, PTL DEF Spec

(* Two stocks share a cluster exactly if correlated pairs connect them. *)
THEOREM ScanConnectsClusters == Spec => []ClustersConnect
<1>1. ScanInv => ClustersConnect
  BY DEF ScanInv
<1> QED
  BY <1>1, ScanInit, ScanStep, PTL DEF Spec

(* Every stock a scan judges is judged on windows that do not overlap, lie behind enough candles to   *)
(* trade on and reach the newest ones (buildWalkForwardFolds).                                        *)
THEOREM ScanFoldsAreSound == Spec => []FoldsAreSound
<1>1. ScanInv => FoldsAreSound
  BY WindowsAreSound DEF ScanInv, FoldsAreSound
<1> QED
  BY <1>1, ScanInit, ScanStep, PTL DEF Spec

-----------------------------------------------------------------------------
(* The simulation. *)

LEMMA Division ==
  ASSUME NEW x \in Int, NEW d \in Nat \ {0}
  PROVE  x \div d \in Int /\ d * (x \div d) <= x /\ x < d * (x \div d) + d
<1> DEFINE q == x \div d
<1>1. q \in Int /\ x = d * q + (x % d) /\ x % d \in 0 .. (d - 1)
  OBVIOUS
<1>2. d * q \in Int
  BY <1>1
<1> QED
  BY <1>1, <1>2

LEMMA ProductIsNat ==
  ASSUME NEW a \in Nat, NEW b \in Nat
  PROVE  a * b \in Nat
  OBVIOUS

LEMMA ProductGrows ==
  ASSUME NEW a \in Int, NEW b \in Int, a <= b, NEW d \in Nat
  PROVE  a * d \in Int /\ b * d \in Int /\ a * d <= b * d
  OBVIOUS

(* What the price of a threshold is compared with: a whole price is at least a share of x as soon as *)
(* the share of x is at most it.                                                                      *)
LEMMA DivisionAtMost ==
  ASSUME NEW x \in Int, NEW d \in Nat \ {0}, NEW y \in Int, x <= y * d
  PROVE  x \div d <= y
<1> DEFINE q == x \div d
<1>1. q \in Int /\ d * q <= x
  BY Division
<1> HIDE DEF q
<1>2. SUFFICES ASSUME q >= y + 1 PROVE FALSE
  BY <1>1 DEF q
<1>3. (y + 1) * d <= q * d
  BY <1>1, <1>2, ProductGrows
<1>4. (y + 1) * d = y * d + d /\ q * d = d * q /\ y * d \in Int
  BY <1>1
<1> QED
  BY <1>1, <1>3, <1>4

LEMMA DivisionAtLeast ==
  ASSUME NEW x \in Int, NEW d \in Nat \ {0}, NEW y \in Int, y * d <= x
  PROVE  y <= x \div d
<1> DEFINE q == x \div d
<1>1. q \in Int /\ x < d * q + d
  BY Division
<1> HIDE DEF q
<1>2. SUFFICES ASSUME q + 1 <= y PROVE FALSE
  BY <1>1 DEF q
<1>3. (q + 1) * d <= y * d
  BY <1>1, <1>2, ProductGrows
<1>4. (q + 1) * d = d * q + d /\ d * q \in Int /\ y * d \in Int
  BY <1>1
<1> QED
  BY <1>1, <1>3, <1>4

(* What one rule after the other finds. *)
LEMMA FirstHitIs ==
  ASSUME NEW rules, NEW n \in Nat, DOMAIN rules = 1 .. n
  PROVE  \/ FirstHit(rules) = NoSale /\ \A k \in 1 .. n : ~rules[k].hit
         \/ \E k \in 1 .. n : /\ rules[k].hit /\ FirstHit(rules) = rules[k]
                              /\ \A j \in 1 .. (k - 1) : ~rules[j].hit
<1> DEFINE hits == {k \in DOMAIN rules : rules[k].hit}
           first == CHOOSE k \in hits : \A j \in hits : k <= j
<1>1. FirstHit(rules) = IF hits = {} THEN NoSale ELSE rules[first]
  BY DEF FirstHit
<1>2. CASE hits = {}
  BY <1>1, <1>2
<1>3. CASE hits # {}
  <2>1. hits \subseteq Nat
    OBVIOUS
  <2>2. \E k \in hits : \A j \in hits : k <= j
    <3> HIDE DEF hits
    <3> QED
      BY <1>3, <2>1, LeastNumber
  <2>3. first \in hits /\ \A j \in hits : first <= j
    <3> HIDE DEF hits
    <3> QED
      BY <2>2
  <2>4. first \in 1 .. n /\ rules[first].hit
    BY <2>3
  <2>5. ASSUME NEW j \in 1 .. (first - 1), rules[j].hit
        PROVE  FALSE
    <3>1. j \in hits /\ ~(first <= j)
      BY <2>4, <2>5
    <3> QED
      BY <3>1, <2>3
  <2>6. FirstHit(rules) = rules[first]
    BY <1>1, <1>3
  <2> HIDE DEF first
  <2> QED
    BY <2>4, <2>5, <2>6
<1> QED
  BY <1>2, <1>3

LEMMA FirstOfTwo ==
  ASSUME NEW S, NEW a \in Seq(S), NEW b \in Seq(S)
  PROVE  /\ FirstHit(a).hit => FirstHit(a \o b) = FirstHit(a)
         /\ ~FirstHit(a).hit => FirstHit(a \o b) = FirstHit(b)
<1> DEFINE m == Len(a)
           n == Len(b)
           ab == a \o b
<1>1. m \in Nat /\ n \in Nat /\ DOMAIN a = 1 .. m /\ DOMAIN b = 1 .. n /\ DOMAIN ab = 1 .. (m + n)
  OBVIOUS
<1>2. \A k \in 1 .. m : ab[k] = a[k]
  OBVIOUS
<1>3. \A k \in 1 .. n : ab[m + k] = b[k]
  OBVIOUS
<1>4. ~NoSale.hit
  BY DEF NoSale, Rule
<1> HIDE DEF m, n, ab
<1>5. CASE FirstHit(a) = NoSale /\ \A k \in 1 .. m : ~a[k].hit
  <2>1. CASE FirstHit(b) = NoSale /\ \A k \in 1 .. n : ~b[k].hit
    <3>1. ASSUME NEW k \in 1 .. (m + n)
          PROVE  ~ab[k].hit
      <4>1. k \in 1 .. m \/ k - m \in 1 .. n
        BY <1>1
      <4>2. k - m \in 1 .. n => ab[k] = b[k - m]
        BY <1>1, <1>3
      <4> QED
        BY <4>1, <4>2, <1>2, <1>5, <2>1
    <3>2. FirstHit(ab) = NoSale
      BY <1>1, <3>1, FirstHitIs
    <3> QED
      BY <1>4, <1>5, <2>1, <3>2 DEF ab
  <2>2. ASSUME NEW k \in 1 .. n, b[k].hit, FirstHit(b) = b[k], \A j \in 1 .. (k - 1) : ~b[j].hit
        PROVE  FirstHit(ab) = b[k]
    <3>1. ab[m + k].hit /\ m + k \in 1 .. (m + n)
      BY <1>1, <1>3, <2>2
    <3>2. PICK i \in 1 .. (m + n) : /\ ab[i].hit /\ FirstHit(ab) = ab[i]
                                    /\ \A j \in 1 .. (i - 1) : ~ab[j].hit
      BY <1>1, <3>1, FirstHitIs
    <3>3. i \notin 1 .. m
      BY <1>2, <1>5, <3>2
    <3>4. i - m \in 1 .. n /\ ab[i] = b[i - m]
      BY <1>1, <1>3, <3>3
    <3>5. ~(i - m < k)
      BY <1>1, <2>2, <3>2, <3>4
    <3>6. ~(m + k < i)
      BY <1>1, <3>1, <3>2
    <3>7. i = m + k
      <4>1. m \in Nat /\ k \in Int /\ i \in Int
        BY <1>1
      <4> QED
        BY <4>1, <3>5, <3>6
    <3>8. ab[i] = b[k]
      BY <1>3, <3>7
    <3> QED
      BY <3>2, <3>8
  <2> QED
    BY <1>1, <1>4, <1>5, <2>1, <2>2, FirstHitIs DEF ab
<1>6. ASSUME NEW k \in 1 .. m, a[k].hit, FirstHit(a) = a[k], \A j \in 1 .. (k - 1) : ~a[j].hit
      PROVE  FirstHit(ab) = a[k]
  <2>1. ab[k].hit /\ k \in 1 .. (m + n)
    BY <1>1, <1>2, <1>6
  <2>2. PICK i \in 1 .. (m + n) : /\ ab[i].hit /\ FirstHit(ab) = ab[i]
                                  /\ \A j \in 1 .. (i - 1) : ~ab[j].hit
    BY <1>1, <2>1, FirstHitIs
  <2>3. ~(k < i)
    BY <1>1, <2>1, <2>2
  <2>4. i \in 1 .. m /\ ab[i] = a[i]
    BY <1>1, <1>2, <2>2, <2>3
  <2>5. ~(i < k)
    BY <1>1, <1>6, <2>2, <2>4
  <2>6. i = k
    BY <1>1, <2>3, <2>5
  <2> QED
    BY <1>2, <2>2, <2>6
<1> QED
  BY <1>1, <1>5, <1>6, FirstHitIs DEF ab

LEMMA FirstOfSix ==
  ASSUME NEW a, NEW b, NEW c, NEW d, NEW e, NEW f
  PROVE  FirstHit(<<a, b, c, d, e, f>>) =
           IF a.hit THEN a ELSE IF b.hit THEN b ELSE IF c.hit THEN c ELSE IF d.hit THEN d
           ELSE IF e.hit THEN e ELSE IF f.hit THEN f ELSE NoSale
<1> DEFINE rules == <<a, b, c, d, e, f>>
           first == IF a.hit THEN a ELSE IF b.hit THEN b ELSE IF c.hit THEN c ELSE IF d.hit THEN d
                    ELSE IF e.hit THEN e ELSE IF f.hit THEN f ELSE NoSale
<1>1. /\ DOMAIN rules = 1 .. 6 /\ 6 \in Nat
      /\ rules[1] = a /\ rules[2] = b /\ rules[3] = c /\ rules[4] = d /\ rules[5] = e /\ rules[6] = f
  OBVIOUS
<1> HIDE DEF rules
<1>2. ASSUME FirstHit(rules) = NoSale /\ \A k \in 1 .. 6 : ~rules[k].hit
      PROVE  FirstHit(rules) = first
  BY <1>1, <1>2
<1>3. ASSUME NEW k \in 1 .. 6, rules[k].hit, FirstHit(rules) = rules[k],
             \A j \in 1 .. (k - 1) : ~rules[j].hit
      PROVE  FirstHit(rules) = first
  BY <1>1, <1>3
<1>4. \/ FirstHit(rules) = NoSale /\ \A k \in 1 .. 6 : ~rules[k].hit
      \/ \E k \in 1 .. 6 : /\ rules[k].hit /\ FirstHit(rules) = rules[k]
                          /\ \A j \in 1 .. (k - 1) : ~rules[j].hit
  BY <1>1, FirstHitIs
<1>5. FirstHit(rules) = first
  BY <1>2, <1>3, <1>4
<1> QED
  BY <1>5 DEF rules, first

LEMMA FirstOfSeven ==
  ASSUME NEW a, NEW b, NEW c, NEW d, NEW e, NEW f, NEW g
  PROVE  FirstHit(<<a, b, c, d, e, f, g>>) =
           IF a.hit THEN a ELSE IF b.hit THEN b ELSE IF c.hit THEN c ELSE IF d.hit THEN d
           ELSE IF e.hit THEN e ELSE IF f.hit THEN f ELSE IF g.hit THEN g ELSE NoSale
<1> DEFINE rules == <<a, b, c, d, e, f, g>>
           first == IF a.hit THEN a ELSE IF b.hit THEN b ELSE IF c.hit THEN c ELSE IF d.hit THEN d
                    ELSE IF e.hit THEN e ELSE IF f.hit THEN f ELSE IF g.hit THEN g ELSE NoSale
<1>1. /\ DOMAIN rules = 1 .. 7 /\ 7 \in Nat
      /\ rules[1] = a /\ rules[2] = b /\ rules[3] = c /\ rules[4] = d /\ rules[5] = e /\ rules[6] = f
      /\ rules[7] = g
  OBVIOUS
<1> HIDE DEF rules
<1>2. ASSUME FirstHit(rules) = NoSale /\ \A k \in 1 .. 7 : ~rules[k].hit
      PROVE  FirstHit(rules) = first
  BY <1>1, <1>2
<1>3. ASSUME NEW k \in 1 .. 7, rules[k].hit, FirstHit(rules) = rules[k],
             \A j \in 1 .. (k - 1) : ~rules[j].hit
      PROVE  FirstHit(rules) = first
  BY <1>1, <1>3
<1>4. \/ FirstHit(rules) = NoSale /\ \A k \in 1 .. 7 : ~rules[k].hit
      \/ \E k \in 1 .. 7 : /\ rules[k].hit /\ FirstHit(rules) = rules[k]
                          /\ \A j \in 1 .. (k - 1) : ~rules[j].hit
  BY <1>1, FirstHitIs
<1>5. FirstHit(rules) = first
  BY <1>2, <1>3, <1>4
<1> QED
  BY <1>5 DEF rules, first

LEMMA GapThenDay ==
  ASSUME NEW config, NEW p, NEW c
  PROVE  FirstHit(GapRules(config, p, c) \o DayRules(config, p, c)) =
           IF FirstHit(GapRules(config, p, c)).hit THEN FirstHit(GapRules(config, p, c))
           ELSE FirstHit(DayRules(config, p, c))
<1> DEFINE g == GapRules(config, p, c)
           d == DayRules(config, p, c)
           S == {g[k] : k \in 1 .. 6} \cup {d[k] : k \in 1 .. 7}
<1>1. g \in Seq(S)
  <2>1. g = [k \in 1 .. 6 |-> g[k]]
    BY DEF GapRules
  <2>2. \A k \in 1 .. 6 : g[k] \in S
    OBVIOUS
  <2> HIDE DEF g, S
  <2>3. [k \in 1 .. 6 |-> g[k]] \in Seq(S)
    BY <2>2
  <2> QED
    BY <2>1, <2>3
<1>2. d \in Seq(S)
  <2>1. d = [k \in 1 .. 7 |-> d[k]]
    BY DEF DayRules
  <2>2. \A k \in 1 .. 7 : d[k] \in S
    OBVIOUS
  <2> HIDE DEF d, S
  <2>3. [k \in 1 .. 7 |-> d[k]] \in Seq(S)
    BY <2>2
  <2> QED
    BY <2>1, <2>3
<1> HIDE DEF g, d, S
<1>3. FirstHit(g \o d) = IF FirstHit(g).hit THEN FirstHit(g) ELSE FirstHit(d)
  BY <1>1, <1>2, FirstOfTwo
<1> QED
  BY <1>3 DEF g, d

-----------------------------------------------------------------------------
(* The accounts of a simulation. *)
Position == [qty : Nat, paid : Nat, high : Nat, stage : Nat, age : Nat]
Held == {p \in Position : p.qty > 0}

LEMMA PriceAtIsInt ==
  ASSUME NEW p \in Held, NEW pct \in Int
  PROVE  /\ PriceAt(p, pct) \in Int
         /\ pct >= -100 => PriceAt(p, pct) \in Nat
<1> DEFINE x == p.paid * (100 + pct)
           d == 100 * p.qty
<1>1. p.paid \in Nat /\ p.qty \in Nat \ {0}
  BY DEF Held, Position
<1>2. x \in Int /\ d \in Nat \ {0}
  BY <1>1
<1>3. pct >= -100 => 0 <= x
  BY <1>1, ProductIsNat
<1>4. PriceAt(p, pct) = x \div d
  BY DEF PriceAt
<1> HIDE DEF x, d
<1> QED
  BY <1>2, <1>3, <1>4, Division, DivisionAtLeast

LEMMA PeakIs ==
  ASSUME NEW p \in Held, NEW price \in Nat
  PROVE  /\ Peak(p, price) \in Nat /\ Average(p) \in Nat
         /\ Peak(p, price) \in {p.high, price, Average(p)}
         /\ p.high <= Peak(p, price) /\ price <= Peak(p, price) /\ Average(p) <= Peak(p, price)
<1>1. Average(p) \in Nat
  BY PriceAtIsInt DEF Average
<1>2. p.high \in Nat
  BY DEF Held, Position
<1> QED
  BY <1>1, <1>2 DEF Peak, Larger

(* The peak of the day after that of the open. *)
LEMMA PeakAgain ==
  ASSUME NEW p \in Held, NEW open \in Nat, NEW high \in Nat
  PROVE  LET again == Peak([p EXCEPT !.high = Peak(p, open)], high)
         IN  /\ again \in Nat
             /\ again = IF Peak(p, open) >= high THEN Peak(p, open) ELSE high
<1> DEFINE q == [p EXCEPT !.high = Peak(p, open)]
<1>1. q \in Held /\ q.high = Peak(p, open) /\ q.paid = p.paid /\ q.qty = p.qty
  BY PeakIs DEF Held, Position
<1>2. Average(q) = Average(p)
  BY <1>1 DEF Average, PriceAt
<1>3. Average(p) <= Peak(p, open) /\ Average(p) \in Nat /\ Peak(p, open) \in Nat
  BY PeakIs
<1> QED
  BY <1>1, <1>2, <1>3 DEF Peak, Larger

-----------------------------------------------------------------------------
(* A day on which the price stands still. *)
LEMMA StillDay ==
  ASSUME NEW config, NEW p \in Held, NEW price \in Nat
  PROVE  LET gap == FirstHit(GapRules(config, p, Still(price)))
             day_ == FirstHit(DayRules(config, p, Still(price)))
             sale == EngineSale(config, p, price)
         IN  /\ (IF gap.hit THEN gap ELSE day_) = sale
             /\ sale.hit <=> sale # NoSale
             /\ NotAbove(p, price, config.stopLoss) => sale.why = "stop"
<1> DEFINE c == Still(price)
           high == Peak(p, price)
           g == Guards(config, p)
           runner == Runner(config, p)
           stop == NotAbove(p, price, config.stopLoss)
           target == Reached(p, price, config.runnerTakeProfit)
           tier == TierSells(config, p, price)
           profit == Reached(p, price, config.takeProfit)
           breakeven == Reached(p, high, g.breakeven) /\ NotAbove(p, price, g.floor)
           trailing == Reached(p, high, g.trigger) /\ GivenBack(high, price, g.giveback)
           days == HeldTooLong(config, p)
<1>1. /\ c.open = price /\ c.high = price /\ c.low = price /\ c.close = price
      /\ Peak([p EXCEPT !.high = Peak(p, c.open)], c.high) = high
  BY PeakAgain, PeakIs DEF Still
<1> DEFINE either == Reached(p, price, IF runner THEN config.runnerTakeProfit ELSE config.takeProfit)
           e1 == All(p, "stop", stop, price)
           e2 == All(p, "runner", runner /\ target, price)
           e3 == Tier(config, p, tier, price)
           e4 == All(p, "profit", profit /\ ~runner, price)
           e5 == All(p, "breakeven", breakeven, price)
           e6 == All(p, "trailing", trailing, price)
           e7 == All(p, "days", days, price)
           g4 == All(p, IF runner THEN "runner" ELSE "profit", either, price)
           d1 == All(p, "stop", stop, PriceAt(p, config.stopLoss))
           d2 == All(p, "runner", runner /\ target, PriceAt(p, config.runnerTakeProfit))
           d3 == Tier(config, p, tier,
                   PriceAt(p, IF TierDue(config, p, price) THEN config.tiers[p.stage + 1].trigger ELSE 0))
           d4 == All(p, "profit", profit /\ ~runner, PriceAt(p, config.takeProfit))
           d5 == All(p, "breakeven", breakeven, PriceAt(p, g.floor))
           d6 == All(p, "trailing", trailing, (high * (100 - g.giveback)) \div 100)
<1>2. EngineSale(config, p, price) = FirstHit(<<e1, e2, e3, e4, e5, e6, e7>>)
  BY DEF EngineSale
<1>3. FirstHit(GapRules(config, p, c)) = FirstHit(<<e1, e2, e3, g4, e5, e6>>)
  <2> HIDE DEF c
  <2> QED
    BY <1>1 DEF GapRules
<1>4. FirstHit(DayRules(config, p, c)) = FirstHit(<<d1, d2, d3, d4, d5, d6, e7>>)
  <2> HIDE DEF c
  <2> QED
    BY <1>1 DEF DayRules
<1>5. /\ e1.hit = stop /\ e2.hit = (runner /\ target) /\ e3.hit = tier /\ e4.hit = (profit /\ ~runner)
      /\ e5.hit = breakeven /\ e6.hit = trailing /\ e7.hit = days
  BY Zenon DEF All, Tier, Rule
<1>6. g4.hit = either
  BY DEF All, Rule
<1>7. /\ d1.hit = stop /\ d2.hit = (runner /\ target) /\ d3.hit = tier /\ d4.hit = (profit /\ ~runner)
      /\ d5.hit = breakeven /\ d6.hit = trailing
  BY Zenon DEF All, Tier, Rule
<1>8. e1.why = "stop" /\ ~NoSale.hit
  BY DEF All, Rule, NoSale
<1>9. either <=> (runner /\ target) \/ (profit /\ ~runner)
  BY DEF either
<1>10. ~runner /\ profit => g4 = e4
  <2> SUFFICES ASSUME ~runner, profit PROVE g4 = e4
    OBVIOUS
  <2>1. either = TRUE /\ (profit /\ ~runner) = TRUE
    BY <1>9
  <2> HIDE DEF runner, profit, either
  <2> QED
    BY <2>1
<1> HIDE DEF c, high, g, runner, stop, target, tier, profit, breakeven, trailing, days, either,
             e1, e2, e3, e4, e5, e6, e7, g4, d1, d2, d3, d4, d5, d6
<1>11. EngineSale(config, p, price) =
         IF stop THEN e1 ELSE IF runner /\ target THEN e2 ELSE IF tier THEN e3
         ELSE IF profit /\ ~runner THEN e4 ELSE IF breakeven THEN e5 ELSE IF trailing THEN e6
         ELSE IF days THEN e7 ELSE NoSale
  <2>1. EngineSale(config, p, price) =
          IF e1.hit THEN e1 ELSE IF e2.hit THEN e2 ELSE IF e3.hit THEN e3 ELSE IF e4.hit THEN e4 ELSE
          IF e5.hit THEN e5 ELSE IF e6.hit THEN e6 ELSE IF e7.hit THEN e7 ELSE NoSale
    BY <1>2, FirstOfSeven
  <2> QED
    BY <2>1, <1>5
<1>12. FirstHit(GapRules(config, p, c)) =
         IF stop THEN e1 ELSE IF runner /\ target THEN e2 ELSE IF tier THEN e3
         ELSE IF either THEN g4 ELSE IF breakeven THEN e5 ELSE IF trailing THEN e6 ELSE NoSale
  <2>1. FirstHit(GapRules(config, p, c)) =
          IF e1.hit THEN e1 ELSE IF e2.hit THEN e2 ELSE IF e3.hit THEN e3 ELSE IF g4.hit THEN g4 ELSE
          IF e5.hit THEN e5 ELSE IF e6.hit THEN e6 ELSE NoSale
    BY <1>3, FirstOfSix
  <2> QED
    BY <2>1, <1>5, <1>6
<1>13. FirstHit(DayRules(config, p, c)) =
         IF stop THEN d1 ELSE IF runner /\ target THEN d2 ELSE IF tier THEN d3
         ELSE IF profit /\ ~runner THEN d4 ELSE IF breakeven THEN d5 ELSE IF trailing THEN d6
         ELSE IF days THEN e7 ELSE NoSale
  <2>1. FirstHit(DayRules(config, p, c)) =
          IF d1.hit THEN d1 ELSE IF d2.hit THEN d2 ELSE IF d3.hit THEN d3 ELSE IF d4.hit THEN d4 ELSE
          IF d5.hit THEN d5 ELSE IF d6.hit THEN d6 ELSE IF e7.hit THEN e7 ELSE NoSale
    BY <1>4, FirstOfSeven
  <2> QED
    BY <2>1, <1>5, <1>7
<1>14. (IF FirstHit(GapRules(config, p, c)).hit THEN FirstHit(GapRules(config, p, c))
        ELSE FirstHit(DayRules(config, p, c))) = EngineSale(config, p, price)
  BY <1>5, <1>6, <1>8, <1>9, <1>10, <1>11, <1>12, <1>13
<1>15. EngineSale(config, p, price).hit <=> EngineSale(config, p, price) # NoSale
  BY <1>5, <1>8, <1>11
<1>16. stop => EngineSale(config, p, price).why = "stop"
  BY <1>8, <1>11
<1> QED
  BY <1>14, <1>15, <1>16 DEF c, stop

-----------------------------------------------------------------------------
(* The prices of sales. *)
Sound(config) ==
    /\ config \in BacktestConfig
    /\ config.stopLoss < 0
    /\ config.normal.floor <= config.normal.breakeven
    /\ config.runner.floor <= config.runner.breakeven
    /\ config.commission + config.sellTax <= 100

LEMMA ConfigsAreSound == \A config \in Configs : Sound(config)
  BY BacktestAssumption DEF Sound

LEMMA ConfigIs ==
  ASSUME NEW config, Sound(config)
  PROVE  /\ config.investment \in Nat /\ config.tradeRatio \in Nat /\ config.commission \in Nat
         /\ config.sellTax \in Nat /\ config.slippage \in Nat /\ config.slippage <= 100
<1>1. /\ config.investment \in Nat /\ config.tradeRatio \in Nat /\ config.commission \in Nat
      /\ config.sellTax \in Nat /\ config.slippage \in 0 .. 100
  BY DEF Sound, BacktestConfig
<1> QED
  BY <1>1

LEMMA CandleIs ==
  ASSUME NEW c \in Candles
  PROVE  /\ c.open \in Nat \ {0} /\ c.high \in Nat \ {0} /\ c.low \in Nat \ {0} /\ c.close \in Nat \ {0}
         /\ c.open \in c.low .. c.high /\ c.close \in c.low .. c.high
<1>1. /\ c.open \in Nat \ {0} /\ c.high \in Nat \ {0} /\ c.low \in Nat \ {0} /\ c.close \in Nat \ {0}
  BY BacktestAssumption
<1>2. c.low <= Smaller(c.open, c.close) /\ Larger(c.open, c.close) <= c.high
  BY BacktestAssumption
<1> QED
  BY <1>1, <1>2 DEF Smaller, Larger

LEMMA ThresholdIs ==
  ASSUME NEW p \in Held, NEW pct \in Int, NEW price \in Nat
  PROVE  /\ NotAbove(p, price, pct) => price <= PriceAt(p, pct)
         /\ ~NotAbove(p, price, pct) => PriceAt(p, pct) <= price
         /\ Reached(p, price, pct) => PriceAt(p, pct) <= price
         /\ ~Reached(p, price, pct) => price <= PriceAt(p, pct)
<1> DEFINE x == p.paid * (100 + pct)
           d == 100 * p.qty
           y == price * 100 * p.qty
<1>1. p.paid \in Nat /\ p.qty \in Nat \ {0}
  BY DEF Held, Position
<1>2. x \in Int /\ d \in Nat \ {0} /\ y = price * d /\ y \in Int
  BY <1>1
<1>3. /\ PriceAt(p, pct) = x \div d
      /\ NotAbove(p, price, pct) <=> y <= x
      /\ Reached(p, price, pct) <=> y >= x
  BY DEF PriceAt, NotAbove, Reached
<1> HIDE DEF x, d, y
<1>4. y <= x => price <= x \div d
  BY <1>2, DivisionAtLeast
<1>5. x <= y => x \div d <= price
  BY <1>2, DivisionAtMost
<1> QED
  BY <1>2, <1>3, <1>4, <1>5

LEMMA HigherThreshold ==
  ASSUME NEW p \in Held, NEW pct \in Int, NEW more \in Int, pct <= more, NEW price \in Nat,
         Reached(p, price, more)
  PROVE  Reached(p, price, pct)
<1>1. p.paid \in Nat /\ p.qty \in Nat
  BY DEF Held, Position
<1>2. (100 + pct) * p.paid <= (100 + more) * p.paid
  BY <1>1, ProductGrows
<1>3. /\ (100 + pct) * p.paid = p.paid * (100 + pct) /\ (100 + more) * p.paid = p.paid * (100 + more)
      /\ p.paid * (100 + pct) \in Int /\ p.paid * (100 + more) \in Int
  BY <1>1
<1>4. price * 100 * p.qty \in Int
  BY <1>1
<1> QED
  BY <1>2, <1>3, <1>4 DEF Reached

LEMMA TrailingIs ==
  ASSUME NEW high \in Nat, NEW giveback \in Nat, NEW price \in Nat
  PROVE  LET line == (high * (100 - giveback)) \div 100
         IN  /\ line \in Int /\ line <= high
             /\ GivenBack(high, price, giveback) => price <= line
             /\ ~GivenBack(high, price, giveback) => line <= price
<1> DEFINE x == high * (100 - giveback)
<1>1. x \in Int /\ 100 \in Nat \ {0}
  OBVIOUS
<1>2. x <= high * 100
  <2>1. (100 - giveback) * high <= 100 * high
    BY ProductGrows
  <2> QED
    BY <2>1
<1>3. GivenBack(high, price, giveback) <=> price * 100 <= x
  BY DEF GivenBack
<1> HIDE DEF x
<1>4. x \div 100 \in Int /\ x \div 100 <= high
  BY <1>1, <1>2, Division, DivisionAtMost
<1>5. price * 100 <= x => price <= x \div 100
  BY <1>1, DivisionAtLeast
<1>6. x <= price * 100 => x \div 100 <= price
  BY <1>1, DivisionAtMost
<1> QED
  BY <1>1, <1>3, <1>4, <1>5, <1>6 DEF x

LEMMA TierSellsShares ==
  ASSUME NEW config, Sound(config), NEW p \in Held, NEW price, TierSells(config, p, price)
  PROVE  TierQty(config, p) \in 1 .. p.qty /\ config.tiers[p.stage + 1].trigger \in Int
<1> DEFINE tier == config.tiers[p.stage + 1]
           part == (p.qty * tier.ratio) \div 100
<1>1. p.qty \in Nat \ {0} /\ tier \in [trigger : Int, ratio : Nat]
  <2>1. p.stage + 1 \in DOMAIN config.tiers
    BY DEF TierSells, TierDue
  <2>2. config.tiers \in Seq([trigger : Int, ratio : Nat])
    BY DEF Sound, BacktestConfig
  <2>3. tier \in [trigger : Int, ratio : Nat]
    <3> DEFINE i == p.stage + 1
               T == [trigger : Int, ratio : Nat]
    <3> HIDE DEF i, T
    <3>1. config.tiers \in Seq(T) /\ i \in DOMAIN config.tiers
      BY <2>1, <2>2 DEF i, T
    <3>2. config.tiers[i] \in T
      BY <3>1
    <3> QED
      BY <3>2 DEF i, T
  <2> QED
    BY <2>3 DEF Held, Position
<1>2. p.qty * tier.ratio \in Nat
  <2>1. tier.ratio \in Nat
    BY <1>1
  <2> QED
    BY <1>1, <2>1, ProductIsNat
<1>3. part \in Int
  BY <1>2, Division
<1>4. TierQty(config, p) = (IF p.qty - part <= 1 THEN p.qty ELSE part) /\ TierQty(config, p) > 0
  BY DEF TierQty, TierSells
<1> HIDE DEF part
<1> QED
  BY <1>1, <1>3, <1>4

(* Nothing that a gap sells at the open. *)
NoGap(config, p, open) ==
    LET high == Peak(p, open)
        g == Guards(config, p)
    IN  /\ ~NotAbove(p, open, config.stopLoss)
        /\ ~(Runner(config, p) /\ Reached(p, open, config.runnerTakeProfit))
        /\ ~TierSells(config, p, open)
        /\ ~Reached(p, open, IF Runner(config, p) THEN config.runnerTakeProfit ELSE config.takeProfit)
        /\ ~(Reached(p, high, g.breakeven) /\ NotAbove(p, open, g.floor))
        /\ ~(Reached(p, high, g.trigger) /\ GivenBack(high, open, g.giveback))

LEMMA GapSale ==
  ASSUME NEW config, Sound(config), NEW p \in Held, NEW c \in Candles
  PROVE  LET sale == FirstHit(GapRules(config, p, c))
         IN  /\ sale.hit => /\ sale.at = c.open /\ sale.qty \in 1 .. p.qty
                            /\ sale.why # "tier" => sale.qty = p.qty
                            /\ sale.why # "stop" => ~NotAbove(p, c.open, config.stopLoss)
             /\ ~sale.hit => NoGap(config, p, c.open)
<1> DEFINE open == c.open
           high == Peak(p, open)
           g == Guards(config, p)
           runner == Runner(config, p)
           stop == NotAbove(p, open, config.stopLoss)
           target == Reached(p, open, config.runnerTakeProfit)
           tier == TierSells(config, p, open)
           either == Reached(p, open, IF runner THEN config.runnerTakeProfit ELSE config.takeProfit)
           breakeven == Reached(p, high, g.breakeven) /\ NotAbove(p, open, g.floor)
           trailing == Reached(p, high, g.trigger) /\ GivenBack(high, open, g.giveback)
           g1 == All(p, "stop", stop, open)
           g2 == All(p, "runner", runner /\ target, open)
           g3 == Tier(config, p, tier, open)
           g4 == All(p, IF runner THEN "runner" ELSE "profit", either, open)
           g5 == All(p, "breakeven", breakeven, open)
           g6 == All(p, "trailing", trailing, open)
<1>1. FirstHit(GapRules(config, p, c)) = FirstHit(<<g1, g2, g3, g4, g5, g6>>)
  BY DEF GapRules
<1>2. /\ g1.hit = stop /\ g2.hit = (runner /\ target) /\ g3.hit = tier /\ g4.hit = either
      /\ g5.hit = breakeven /\ g6.hit = trailing
  BY Zenon DEF All, Tier, Rule
<1>3. /\ g1.at = open /\ g2.at = open /\ g3.at = open /\ g4.at = open /\ g5.at = open /\ g6.at = open
      /\ g1.qty = p.qty /\ g2.qty = p.qty /\ g4.qty = p.qty /\ g5.qty = p.qty /\ g6.qty = p.qty
      /\ g1.why = "stop" /\ g3.why = "tier" /\ ~NoSale.hit
  BY DEF All, Tier, Rule, NoSale
<1>4. tier => g3.qty \in 1 .. p.qty
  <2> SUFFICES ASSUME tier PROVE g3.qty \in 1 .. p.qty
    OBVIOUS
  <2>1. g3.qty = TierQty(config, p)
    BY DEF Tier, Rule
  <2> QED
    BY <2>1, TierSellsShares
<1>5. p.qty \in 1 .. p.qty
  BY DEF Held, Position
<1>6. /\ ~stop => ~NotAbove(p, c.open, config.stopLoss)
      /\ ~stop /\ ~(runner /\ target) /\ ~tier /\ ~either /\ ~breakeven /\ ~trailing
           => NoGap(config, p, c.open)
  BY DEF NoGap
<1> HIDE DEF high, g, runner, stop, target, tier, either, breakeven, trailing, g1, g2, g3, g4, g5, g6
<1>7. FirstHit(GapRules(config, p, c)) =
        IF g1.hit THEN g1 ELSE IF g2.hit THEN g2 ELSE IF g3.hit THEN g3 ELSE
        IF g4.hit THEN g4 ELSE IF g5.hit THEN g5 ELSE IF g6.hit THEN g6 ELSE NoSale
  BY <1>1, FirstOfSix
<1> QED
  BY <1>2, <1>3, <1>4, <1>5, <1>6, <1>7

LEMMA GuardsAre ==
  ASSUME NEW config, Sound(config), NEW p
  PROVE  Guards(config, p) \in Thresholds /\ Guards(config, p).floor <= Guards(config, p).breakeven
<1>1. config.normal \in Thresholds /\ config.runner \in Thresholds
  BY DEF Sound, BacktestConfig
<1> QED
  BY <1>1 DEF Guards, Sound

(* The day's highest price is the peak of its open, or its high. *)
LEMMA DayPeak ==
  ASSUME NEW p \in Held, NEW c \in Candles
  PROVE  LET high == Peak([p EXCEPT !.high = Peak(p, c.open)], c.high)
         IN  high \in Nat /\ (high = Peak(p, c.open) \/ high = c.high)
  BY PeakAgain, CandleIs

(* Without a gap the open lies above every line the price falls through that day, and below every one it *)
(* rises through.                                                                                         *)
LEMMA FallsThrough ==
  ASSUME NEW p \in Held, NEW c \in Candles, NEW pct \in Int,
         NotAbove(p, c.low, pct), ~NotAbove(p, c.open, pct)
  PROVE  PriceAt(p, pct) \in c.low .. c.high
  BY ThresholdIs, CandleIs, PriceAtIsInt

LEMMA RisesThrough ==
  ASSUME NEW p \in Held, NEW c \in Candles, NEW pct \in Int,
         Reached(p, c.high, pct), ~Reached(p, c.open, pct)
  PROVE  PriceAt(p, pct) \in c.low .. c.high
  BY ThresholdIs, CandleIs, PriceAtIsInt

LEMMA BreaksEven ==
  ASSUME NEW p \in Held, NEW c \in Candles, NEW floor \in Int, NEW breakeven \in Int, floor <= breakeven,
         NEW high \in Nat, high = Peak(p, c.open) \/ high = c.high,
         Reached(p, high, breakeven), NotAbove(p, c.low, floor),
         ~(Reached(p, Peak(p, c.open), breakeven) /\ NotAbove(p, c.open, floor))
  PROVE  PriceAt(p, floor) \in c.low .. c.high
<1>1. CASE ~NotAbove(p, c.open, floor)
  BY <1>1, FallsThrough
<1>2. CASE high = c.high
  <2>1. Reached(p, c.high, floor)
    BY <1>2, HigherThreshold, CandleIs
  <2> QED
    BY <2>1, ThresholdIs, CandleIs, PriceAtIsInt
<1> QED
  BY <1>1, <1>2

LEMMA Trails ==
  ASSUME NEW p \in Held, NEW c \in Candles, NEW trigger \in Int, NEW giveback \in Nat,
         NEW high \in Nat, high = Peak(p, c.open) \/ high = c.high,
         Reached(p, high, trigger), GivenBack(high, c.low, giveback),
         ~(Reached(p, Peak(p, c.open), trigger) /\ GivenBack(Peak(p, c.open), c.open, giveback))
  PROVE  (high * (100 - giveback)) \div 100 \in c.low .. c.high
<1>1. CASE high = c.high
  <2> DEFINE line == (high * (100 - giveback)) \div 100
  <2>1. c.low \in Nat
    BY CandleIs
  <2>2. line \in Int /\ line <= high /\ c.low <= line
    BY <2>1, TrailingIs
  <2> HIDE DEF line
  <2>3. line \in c.low .. c.high
    BY <1>1, <2>1, <2>2
  <2> QED
    BY <2>3 DEF line
<1>2. CASE ~GivenBack(high, c.open, giveback)
  BY <1>2, TrailingIs, CandleIs
<1> QED
  BY <1>1, <1>2

LEMMA DaySale ==
  ASSUME NEW config, Sound(config), NEW p \in Held, NEW c \in Candles, NoGap(config, p, c.open)
  PROVE  LET sale == FirstHit(DayRules(config, p, c))
         IN  /\ sale.hit => /\ sale.at \in c.low .. c.high /\ sale.qty \in 1 .. p.qty
                            /\ sale.why # "tier" => sale.qty = p.qty
                            /\ sale.why # "stop" => ~NotAbove(p, c.low, config.stopLoss)
             /\ ~sale.hit => sale = NoSale /\ ~NotAbove(p, c.low, config.stopLoss)
<1> DEFINE high == Peak([p EXCEPT !.high = Peak(p, c.open)], c.high)
           g == Guards(config, p)
           runner == Runner(config, p)
           trigger == config.tiers[p.stage + 1].trigger
           stop == NotAbove(p, c.low, config.stopLoss)
           target == Reached(p, c.high, config.runnerTakeProfit)
           tier == TierSells(config, p, c.high)
           profit == Reached(p, c.high, config.takeProfit)
           breakeven == Reached(p, high, g.breakeven) /\ NotAbove(p, c.low, g.floor)
           trailing == Reached(p, high, g.trigger) /\ GivenBack(high, c.low, g.giveback)
           days == HeldTooLong(config, p)
           d1 == All(p, "stop", stop, PriceAt(p, config.stopLoss))
           d2 == All(p, "runner", runner /\ target, PriceAt(p, config.runnerTakeProfit))
           d3 == Tier(config, p, tier, PriceAt(p, IF TierDue(config, p, c.high) THEN trigger ELSE 0))
           d4 == All(p, "profit", profit /\ ~runner, PriceAt(p, config.takeProfit))
           d5 == All(p, "breakeven", breakeven, PriceAt(p, g.floor))
           d6 == All(p, "trailing", trailing, (high * (100 - g.giveback)) \div 100)
           d7 == All(p, "days", days, c.close)
<1>1. FirstHit(DayRules(config, p, c)) = FirstHit(<<d1, d2, d3, d4, d5, d6, d7>>)
  BY DEF DayRules
<1>2. /\ d1.hit = stop /\ d2.hit = (runner /\ target) /\ d3.hit = tier /\ d4.hit = (profit /\ ~runner)
      /\ d5.hit = breakeven /\ d6.hit = trailing /\ d7.hit = days
  BY Zenon DEF All, Tier, Rule
<1>3. /\ d1.qty = p.qty /\ d2.qty = p.qty /\ d4.qty = p.qty /\ d5.qty = p.qty /\ d6.qty = p.qty
      /\ d7.qty = p.qty
      /\ d1.why = "stop" /\ d3.why = "tier" /\ ~NoSale.hit
  BY DEF All, Tier, Rule, NoSale
<1>4. /\ config.stopLoss \in Int /\ config.runnerTakeProfit \in Int /\ config.takeProfit \in Int
  BY DEF Sound, BacktestConfig
<1>5. g.floor \in Int /\ g.breakeven \in Int /\ g.trigger \in Int /\ g.giveback \in Nat
      /\ g.floor <= g.breakeven
  BY GuardsAre DEF Thresholds
<1>6. high \in Nat /\ (high = Peak(p, c.open) \/ high = c.high)
  BY DayPeak
<1>7. p.qty \in 1 .. p.qty
  BY DEF Held, Position
<1>8. stop => d1.at \in c.low .. c.high
  <2>1. d1.at = PriceAt(p, config.stopLoss)
    BY DEF All, Rule
  <2> QED
    BY <1>4, <2>1, FallsThrough DEF NoGap
<1>9. runner /\ target => d2.at \in c.low .. c.high
  <2>1. d2.at = PriceAt(p, config.runnerTakeProfit)
    BY DEF All, Rule
  <2> QED
    BY <1>4, <2>1, RisesThrough DEF NoGap
<1>10. tier => d3.at \in c.low .. c.high /\ d3.qty \in 1 .. p.qty
  <2> SUFFICES ASSUME tier PROVE d3.at \in c.low .. c.high /\ d3.qty \in 1 .. p.qty
    OBVIOUS
  <2>1. trigger \in Int /\ TierQty(config, p) \in 1 .. p.qty
    BY TierSellsShares
  <2>2. TierDue(config, p, c.high) /\ TierQty(config, p) > 0
    BY DEF TierSells
  <2>3. d3.at = PriceAt(p, trigger) /\ d3.qty = TierQty(config, p)
    BY <2>2 DEF Tier, Rule
  <2>4. ~TierDue(config, p, c.open)
    BY <2>2 DEF NoGap, TierSells
  <2>5. Reached(p, c.high, trigger) /\ ~Reached(p, c.open, trigger)
    BY <2>2, <2>4 DEF TierDue
  <2> QED
    BY <2>1, <2>3, <2>5, RisesThrough
<1>11. profit /\ ~runner => d4.at \in c.low .. c.high
  <2>1. d4.at = PriceAt(p, config.takeProfit)
    BY DEF All, Rule
  <2> QED
    BY <1>4, <2>1, RisesThrough DEF NoGap
<1>12. breakeven => d5.at \in c.low .. c.high
  <2>1. d5.at = PriceAt(p, g.floor)
    BY DEF All, Rule
  <2> HIDE DEF g, high
  <2> QED
    BY <1>5, <1>6, <2>1, BreaksEven DEF NoGap, g
<1>13. trailing => d6.at \in c.low .. c.high
  <2>1. d6.at = (high * (100 - g.giveback)) \div 100
    BY DEF All, Rule
  <2> HIDE DEF g, high
  <2> QED
    BY <1>5, <1>6, <2>1, Trails DEF NoGap, g
<1>14. d7.at \in c.low .. c.high
  BY CandleIs DEF All, Rule
<1>15. ~stop => ~NotAbove(p, c.low, config.stopLoss)
  OBVIOUS
<1> HIDE DEF high, g, runner, trigger, stop, target, tier, profit, breakeven, trailing, days,
             d1, d2, d3, d4, d5, d6, d7
<1>16. FirstHit(DayRules(config, p, c)) =
         IF d1.hit THEN d1 ELSE IF d2.hit THEN d2 ELSE IF d3.hit THEN d3 ELSE IF d4.hit THEN d4 ELSE
         IF d5.hit THEN d5 ELSE IF d6.hit THEN d6 ELSE IF d7.hit THEN d7 ELSE NoSale
  BY <1>1, FirstOfSeven
<1>17. FirstHit(DayRules(config, p, c)).hit =>
         \/ stop /\ FirstHit(DayRules(config, p, c)) = d1
         \/ ~stop /\ runner /\ target /\ FirstHit(DayRules(config, p, c)) = d2
         \/ ~stop /\ tier /\ FirstHit(DayRules(config, p, c)) = d3
         \/ ~stop /\ profit /\ ~runner /\ FirstHit(DayRules(config, p, c)) = d4
         \/ ~stop /\ breakeven /\ FirstHit(DayRules(config, p, c)) = d5
         \/ ~stop /\ trailing /\ FirstHit(DayRules(config, p, c)) = d6
         \/ ~stop /\ days /\ FirstHit(DayRules(config, p, c)) = d7
  BY <1>2, <1>3, <1>16
<1>18. ~FirstHit(DayRules(config, p, c)).hit => FirstHit(DayRules(config, p, c)) = NoSale /\ ~stop
  BY <1>2, <1>3, <1>16
<1> QED
  BY <1>3, <1>7, <1>8, <1>9, <1>10, <1>11, <1>12, <1>13, <1>14, <1>15, <1>17, <1>18

(* The sales of one candle: at prices of the candle, never more than is held, and what they leave was *)
(* not stopped.                                                                                        *)
Fills(config, p, c, sales) ==
    /\ Len(sales) \in 0 .. 2 /\ DOMAIN sales = 1 .. Len(sales)
    /\ \A k \in 1 .. Len(sales) : sales[k].at \in c.low .. c.high /\ sales[k].qty \in 1 .. p.qty
    /\ Len(sales) = 0 => ~NotAbove(p, c.low, config.stopLoss)
    /\ Len(sales) = 1 /\ sales[1].qty < p.qty => ~NotAbove(p, c.low, config.stopLoss)
    /\ Len(sales) = 2 => sales[1].qty + sales[2].qty = p.qty

LEMMA SalesFill ==
  ASSUME NEW config, Sound(config), NEW p \in Held, NEW c \in Candles
  PROVE  Fills(config, p, c, BacktestSales(config, p, c))
<1> DEFINE gap == FirstHit(GapRules(config, p, c))
           later == FirstHit(DayRules(config, p, c))
           sale == FirstHit(GapRules(config, p, c) \o DayRules(config, p, c))
           rest == p.qty - sale.qty
           stopped == NotAbove(p, c.low, config.stopLoss)
           stop == Rule("stop", TRUE, PriceAt(p, config.stopLoss), rest)
           sales == BacktestSales(config, p, c)
<1>1. sale = IF gap.hit THEN gap ELSE later
  BY GapThenDay
<1>2. /\ gap.hit => /\ gap.at = c.open /\ gap.qty \in 1 .. p.qty
                    /\ gap.why # "tier" => gap.qty = p.qty
                    /\ gap.why # "stop" => ~NotAbove(p, c.open, config.stopLoss)
      /\ ~gap.hit => NoGap(config, p, c.open)
  BY GapSale
<1>3. ~gap.hit =>
        /\ later.hit => /\ later.at \in c.low .. c.high /\ later.qty \in 1 .. p.qty
                        /\ later.why # "tier" => later.qty = p.qty
                        /\ later.why # "stop" => ~stopped
        /\ ~later.hit => later = NoSale /\ ~stopped
  BY <1>2, DaySale
<1>4. ~NoSale.hit /\ NoSale.why # "tier" /\ p.qty \in Nat \ {0} /\ c.open \in c.low .. c.high
  BY CandleIs DEF NoSale, Rule, Held, Position
<1>5. stop.at = PriceAt(p, config.stopLoss) /\ stop.qty = rest
  BY DEF Rule
<1>6. sales = IF sale = NoSale THEN <<>>
              ELSE IF sale.why = "tier" /\ rest > 0 /\ stopped THEN <<sale, stop>> ELSE <<sale>>
  BY <1>4 DEF BacktestSales
<1> HIDE DEF gap, later, sale, stopped, stop, sales
<1>7. CASE ~sale.hit
  <2>1. sale = NoSale /\ ~stopped
    BY <1>1, <1>3, <1>7
  <2>2. sales = <<>>
    BY <1>6, <2>1
  <2> QED
    BY <2>1, <2>2 DEF Fills, stopped, sales
<1>8. CASE sale.hit
  <2>1. sale # NoSale /\ sale.at \in c.low .. c.high /\ sale.qty \in 1 .. p.qty
    BY <1>1, <1>2, <1>3, <1>4, <1>8
  <2>2. sale.why # "tier" => sale.qty = p.qty
    BY <1>1, <1>2, <1>3, <1>8
  <2>3. CASE sale.why = "tier" /\ rest > 0 /\ stopped
    <3>1. sales = <<sale, stop>>
      BY <1>6, <2>1, <2>3
    <3>2. gap.hit /\ ~NotAbove(p, c.open, config.stopLoss)
      BY <1>1, <1>2, <1>3, <1>8, <2>3
    <3>3. stop.at \in c.low .. c.high
      <4>1. config.stopLoss \in Int
        BY DEF Sound, BacktestConfig
      <4> QED
        BY <1>5, <2>3, <3>2, <4>1, FallsThrough DEF stopped
    <3>4. stop.qty \in 1 .. p.qty /\ sale.qty + stop.qty = p.qty
      BY <1>4, <1>5, <2>1, <2>3
    <3>5. Len(sales) = 2 /\ DOMAIN sales = 1 .. 2 /\ sales[1] = sale /\ sales[2] = stop
      BY <3>1
    <3> QED
      BY <2>1, <3>3, <3>4, <3>5 DEF Fills, sales
  <2>4. CASE ~(sale.why = "tier" /\ rest > 0 /\ stopped)
    <3>1. sales = <<sale>>
      BY <1>6, <2>1, <2>4
    <3>2. Len(sales) = 1 /\ DOMAIN sales = 1 .. 1 /\ sales[1] = sale
      BY <3>1
    <3>3. sale.qty < p.qty => ~stopped
      BY <1>4, <2>1, <2>2, <2>4
    <3> QED
      BY <2>1, <3>2, <3>3 DEF Fills, sales, stopped
  <2> QED
    BY <2>3, <2>4
<1> QED
  BY <1>7, <1>8

-----------------------------------------------------------------------------
(* The books. *)
Accounts == [pos : Position, cash : Nat, realized : Int, fees : Nat]
Balanced(a) == a.cash + a.pos.paid + a.fees = cfg.investment + a.realized

LEMMA PartOf ==
  ASSUME NEW amount \in Nat, NEW pct \in Nat
  PROVE  Part(amount, pct) \in Nat /\ 100 * Part(amount, pct) <= amount * pct
<1> DEFINE x == amount * pct
<1>1. x \in Nat /\ Part(amount, pct) = x \div 100 /\ 100 \in Nat \ {0}
  BY DEF Part
<1> HIDE DEF x
<1>2. 0 <= x \div 100
  BY <1>1, DivisionAtLeast
<1>3. x \div 100 \in Int /\ 100 * (x \div 100) <= x
  BY <1>1, Division
<1> QED
  BY <1>1, <1>2, <1>3 DEF x

LEMMA CostsWithinAmount ==
  ASSUME Sound(cfg), NEW amount \in Nat
  PROVE  LET costs == Part(amount, cfg.commission) + Part(amount, cfg.sellTax)
         IN  costs \in Nat /\ costs <= amount
<1> DEFINE a == cfg.commission
           b == cfg.sellTax
<1>1. a \in Nat /\ b \in Nat /\ a + b <= 100
  BY DEF Sound, BacktestConfig
<1>2. /\ Part(amount, a) \in Nat /\ 100 * Part(amount, a) <= amount * a
      /\ Part(amount, b) \in Nat /\ 100 * Part(amount, b) <= amount * b
  BY <1>1, PartOf
<1>3. (a + b) * amount <= 100 * amount
  BY <1>1, ProductGrows
<1>4. (a + b) * amount = amount * a + amount * b /\ amount * a \in Int /\ amount * b \in Int
  BY <1>1
<1> HIDE DEF a, b
<1>5. Part(amount, a) + Part(amount, b) <= amount
  BY <1>2, <1>3, <1>4
<1> QED
  BY <1>2, <1>5 DEF a, b

LEMMA ReducedPosition ==
  ASSUME NEW p \in Position, NEW qty \in Nat, NEW paid \in Nat, NEW stage \in Nat
  PROVE  [p EXCEPT !.qty = qty, !.paid = paid, !.stage = stage] \in Position
  BY DEF Position

LEMMA SellKeepsBooks ==
  ASSUME Sound(cfg), NEW a \in Accounts, Balanced(a), NEW sale, sale.at \in Nat, sale.qty \in 1 .. a.pos.qty
  PROVE  /\ Sell(a, sale) \in Accounts /\ Balanced(Sell(a, sale))
         /\ Sell(a, sale).pos.qty = a.pos.qty - sale.qty
<1> DEFINE p == a.pos
           fill == sale.at - Part(sale.at, cfg.slippage)
           amount == sale.qty * fill
           costs == Part(amount, cfg.commission) + Part(amount, cfg.sellTax)
           cost == (p.paid * sale.qty) \div p.qty
           left == [p EXCEPT !.qty = @ - sale.qty, !.paid = @ - cost,
                             !.stage = IF sale.why = "tier" THEN @ + 1 ELSE @]
           next == IF sale.qty = p.qty THEN Flat ELSE left
           sold == Sell(a, sale)
<1>1. /\ a = [pos |-> a.pos, cash |-> a.cash, realized |-> a.realized, fees |-> a.fees]
      /\ p \in Position /\ p.qty \in Nat \ {0} /\ p.paid \in Nat
      /\ a.cash \in Nat /\ a.realized \in Int /\ a.fees \in Nat
  BY DEF Accounts, Position
<1>2. fill \in Nat
  <2>1. cfg.slippage \in 0 .. 100
    BY DEF Sound, BacktestConfig
  <2>2. Part(sale.at, cfg.slippage) \in Nat /\ 100 * Part(sale.at, cfg.slippage) <= sale.at * cfg.slippage
    <3>1. cfg.slippage \in Nat
      BY <2>1
    <3> QED
      BY <3>1, PartOf
  <2>3. cfg.slippage * sale.at <= 100 * sale.at
    BY <2>1, ProductGrows
  <2>4. cfg.slippage * sale.at = sale.at * cfg.slippage /\ sale.at * cfg.slippage \in Int
    BY <2>1
  <2> QED
    BY <2>2, <2>3, <2>4
<1>3. sale.qty \in Nat \ {0} /\ sale.qty <= p.qty
  BY <1>1
<1>4. amount \in Nat
  <2> HIDE DEF fill
  <2> QED
    BY <1>2, <1>3, ProductIsNat
<1>5. costs \in Nat /\ costs <= amount
  <2> HIDE DEF amount
  <2> QED
    BY <1>4, CostsWithinAmount
<1>6. cost \in Nat /\ cost <= p.paid /\ (sale.qty = p.qty => cost = p.paid)
  <2> DEFINE x == p.paid * sale.qty
  <2>1. x \in Nat
    BY <1>1, <1>3, ProductIsNat
  <2>2. 0 * p.qty = 0
    BY <1>1
  <2>3. x <= p.paid * p.qty
    <3>1. sale.qty * p.paid <= p.qty * p.paid
      BY <1>1, <1>3, ProductGrows
    <3>2. sale.qty * p.paid = p.paid * sale.qty /\ p.qty * p.paid = p.paid * p.qty
      BY <1>1, <1>3
    <3> QED
      BY <3>1, <3>2
  <2>4. sale.qty = p.qty => p.paid * p.qty <= x
    BY <1>1, <2>1
  <2> HIDE DEF x
  <2>5. x \div p.qty \in Int /\ 0 <= x \div p.qty /\ x \div p.qty <= p.paid
    <3>1. x \div p.qty \in Int
      BY <1>1, <2>1, Division
    <3>2. 0 <= x \div p.qty
      BY <1>1, <2>1, <2>2, DivisionAtLeast
    <3>3. x \div p.qty <= p.paid
      BY <1>1, <2>1, <2>3, DivisionAtMost
    <3> QED
      BY <3>1, <3>2, <3>3
  <2>6. sale.qty = p.qty => p.paid <= x \div p.qty
    BY <1>1, <2>1, <2>4, DivisionAtLeast
  <2>7. cost = x \div p.qty
    BY DEF x
  <2> HIDE DEF cost
  <2> QED
    BY <1>1, <2>5, <2>6, <2>7
<1>7. sold = [a EXCEPT !.pos = next, !.cash = @ + amount - costs, !.realized = @ + amount - cost - costs]
  BY DEF Sell
<1> HIDE DEF amount, costs, cost, sold
<1>8. /\ next \in Position /\ next.qty = p.qty - sale.qty /\ next.paid = p.paid - cost
  <2>1. CASE sale.qty = p.qty
    <3>1. next = Flat
      BY <2>1
    <3> QED
      BY <1>1, <1>6, <2>1, <3>1 DEF Flat, Position
  <2>2. CASE sale.qty # p.qty
    <3>1. next = left
      BY <2>2
    <3>2. left.qty = p.qty - sale.qty /\ left.paid = p.paid - cost
      BY <1>1 DEF Position
    <3>3. left \in Position
      <4>1. p.qty - sale.qty \in Nat /\ p.paid - cost \in Nat
        BY <1>1, <1>3, <1>6
      <4>2. p.stage \in Nat /\ p.stage + 1 \in Nat
        BY <1>1 DEF Position
      <4>3. CASE sale.why = "tier"
        <5>1. left = [p EXCEPT !.qty = p.qty - sale.qty, !.paid = p.paid - cost, !.stage = p.stage + 1]
          BY <4>3
        <5> QED
          BY <1>1, <4>1, <4>2, <5>1, ReducedPosition
      <4>4. CASE sale.why # "tier"
        <5>1. left = [p EXCEPT !.qty = p.qty - sale.qty, !.paid = p.paid - cost, !.stage = p.stage]
          BY <4>4
        <5> QED
          BY <1>1, <4>1, <4>2, <5>1, ReducedPosition
      <4> QED
        BY <4>3, <4>4
    <3> HIDE DEF left, next
    <3> QED
      BY <3>1, <3>2, <3>3
  <2> QED
    BY <2>1, <2>2
<1> HIDE DEF next
<1>9. /\ sold = [pos |-> next, cash |-> a.cash + amount - costs,
                 realized |-> a.realized + amount - cost - costs, fees |-> a.fees]
  BY <1>1, <1>7
<1>10. a.cash + amount - costs \in Nat /\ a.realized + amount - cost - costs \in Int
  BY <1>1, <1>4, <1>5, <1>6
<1>11. sold \in Accounts
  BY <1>1, <1>8, <1>9, <1>10 DEF Accounts
<1>12. /\ sold.cash = a.cash + amount - costs /\ sold.pos = next /\ sold.fees = a.fees
       /\ sold.realized = a.realized + amount - cost - costs
  BY <1>9
<1>13. Balanced(sold)
  <2>1. cfg.investment \in Nat
    BY DEF Sound, BacktestConfig
  <2>2. a.cash + p.paid + a.fees = cfg.investment + a.realized
    BY DEF Balanced
  <2> QED
    BY <1>1, <1>4, <1>5, <1>6, <1>8, <1>12, <2>1, <2>2 DEF Balanced
<1> QED
  BY <1>8, <1>11, <1>12, <1>13 DEF sold

(* What a buy may cost leaves room for its commission. *)
MostSpent(a) == (a.cash * 100) \div (100 + cfg.commission)

LEMMA AffordableIs ==
  ASSUME Sound(cfg), NEW a \in Accounts
  PROVE  MostSpent(a) \in Nat /\ (100 + cfg.commission) * MostSpent(a) <= a.cash * 100
<1> DEFINE x == a.cash * 100
           d == 100 + cfg.commission
<1>1. x \in Nat /\ d \in Nat \ {0}
  <2>1. a.cash \in Nat /\ cfg.commission \in Nat
    BY ConfigIs DEF Accounts
  <2> QED
    BY <2>1
<1>2. MostSpent(a) = x \div d
  BY DEF MostSpent
<1>3. 0 * d = 0
  BY <1>1
<1> HIDE DEF x, d
<1>4. x \div d \in Int /\ d * (x \div d) <= x
  BY <1>1, Division
<1>5. 0 <= x \div d
  BY <1>1, <1>3, DivisionAtLeast
<1> QED
  BY <1>2, <1>4, <1>5 DEF x, d

LEMMA QuotientIs ==
  ASSUME NEW x \in Nat, NEW d \in Nat \ {0}
  PROVE  x \div d \in Nat /\ d * (x \div d) <= x
<1>1. 0 * d = 0
  OBVIOUS
<1>2. 0 <= x \div d
  BY <1>1, DivisionAtLeast
<1>3. x \div d \in Int /\ d * (x \div d) <= x
  BY Division
<1> QED
  BY <1>2, <1>3

LEMMA BuyQtyIs ==
  ASSUME Sound(cfg), NEW a \in Accounts, NEW fill \in Nat \ {0},
         NEW budget \in Nat, budget <= MostSpent(a)
  PROVE  BuyQty(a, fill, budget) \in Nat /\ fill * BuyQty(a, fill, budget) <= MostSpent(a)
<1> DEFINE most == MostSpent(a)
           plain == budget \div fill
           affordable == most \div fill
           least == IF cfg.ensureMinOneShare /\ a.pos.qty = 0 /\ plain = 0 /\ affordable >= 1 THEN 1 ELSE plain
           risk == RiskQty(fill, budget)
           qty == BuyQty(a, fill, budget)
<1>1. most \in Nat
  BY AffordableIs
<1>2. plain \in Nat /\ fill * plain <= budget
  BY QuotientIs
<1>3. affordable \in Nat /\ fill * affordable <= most
  <2> HIDE DEF most
  <2> QED
    BY <1>1, QuotientIs
<1>4. qty = IF cfg.riskPct = 0 \/ a.pos.qty > 0 THEN least ELSE Smaller(risk, least)
  BY DEF BuyQty, MostSpent
<1>5. risk \in Nat
  <2> DEFINE x == cfg.investment * cfg.riskPct
             stop == -cfg.stopLoss
             d == fill * stop
  <2>1. cfg.investment \in Nat /\ cfg.riskPct \in Nat /\ cfg.stopLoss \in Int /\ cfg.stopLoss < 0
    BY DEF Sound, BacktestConfig
  <2>2. x \in Nat /\ stop \in Nat \ {0}
    BY <2>1, ProductIsNat
  <2>3. d \in Nat \ {0}
    <3> HIDE DEF stop
    <3>1. fill * stop \in Nat /\ 1 * stop <= fill * stop
      BY <2>2, ProductIsNat, ProductGrows
    <3> QED
      BY <2>2, <3>1
  <2>4. risk = Smaller(x \div d, plain)
    BY DEF RiskQty
  <2> HIDE DEF x, d, plain
  <2>5. x \div d \in Nat
    BY <2>2, <2>3, QuotientIs
  <2> QED
    BY <1>2, <2>4, <2>5 DEF Smaller
<1> HIDE DEF most, plain, affordable, risk, qty
<1>6. least \in Nat /\ fill * least <= most
  <2>1. CASE least = plain
    BY <1>1, <1>2, <2>1 DEF most
  <2>2. CASE least = 1 /\ affordable >= 1
    <3>1. 1 * fill <= affordable * fill
      BY <1>3, <2>2, ProductGrows
    <3>2. 1 * fill = fill /\ affordable * fill = fill * affordable /\ fill * 1 = fill
      BY <1>3
    <3>3. fill <= most /\ least = 1
      BY <1>1, <1>3, <2>2, <3>1, <3>2
    <3> HIDE DEF least
    <3> QED
      BY <3>2, <3>3
  <2> QED
    BY <2>1, <2>2
<1> HIDE DEF least
<1>7. qty \in Nat /\ qty <= least
  BY <1>4, <1>5, <1>6 DEF Smaller
<1>8. qty * fill <= least * fill
  BY <1>6, <1>7, ProductGrows
<1>9. qty * fill = fill * qty /\ least * fill = fill * least /\ fill * qty \in Int /\ fill * least \in Int
  BY <1>6, <1>7
<1> QED
  BY <1>1, <1>6, <1>7, <1>8, <1>9 DEF most, qty

LEMMA CommissionFits ==
  ASSUME NEW spent \in Nat, NEW pct \in Nat, NEW most \in Nat, NEW money \in Nat,
         spent <= most, (100 + pct) * most <= money * 100
  PROVE  spent + Part(spent, pct) <= money
<1>1. Part(spent, pct) \in Nat /\ 100 * Part(spent, pct) <= spent * pct
  BY PartOf
<1>2. spent * (100 + pct) <= most * (100 + pct)
  BY ProductGrows
<1>3. /\ spent * (100 + pct) = spent * 100 + spent * pct /\ most * (100 + pct) = (100 + pct) * most
      /\ spent * pct \in Int /\ (100 + pct) * most \in Int
  OBVIOUS
<1>4. 100 * Part(spent, pct) + spent * 100 <= money * 100
  BY <1>1, <1>2, <1>3
<1> QED
  BY <1>1, <1>4

LEMMA BuyKeepsBooks ==
  ASSUME Sound(cfg), NEW a \in Accounts, Balanced(a), NEW price \in Nat \ {0}
  PROVE  Buy(a, price) \in Accounts /\ Balanced(Buy(a, price))
<1> DEFINE p == a.pos
           fill == price + Part(price, cfg.slippage)
           qty == BuyQty(a, fill, Budget(a))
           spent == qty * fill
           fee == Part(spent, cfg.commission)
           high == IF p.qty = 0 THEN fill ELSE Larger(p.high, fill)
           next == [qty |-> p.qty + qty, paid |-> p.paid + spent, high |-> high, stage |-> 0, age |-> p.age]
           bought == Buy(a, price)
<1>1. /\ a = [pos |-> a.pos, cash |-> a.cash, realized |-> a.realized, fees |-> a.fees]
      /\ p.qty \in Nat /\ p.paid \in Nat /\ p.high \in Nat /\ p.age \in Nat
      /\ a.cash \in Nat /\ a.realized \in Int /\ a.fees \in Nat
  BY DEF Accounts, Position
<1>2. /\ cfg.slippage \in Nat /\ cfg.commission \in Nat /\ cfg.investment \in Nat /\ cfg.tradeRatio \in Nat
  BY ConfigIs
<1>3. fill \in Nat \ {0}
  <2>1. Part(price, cfg.slippage) \in Nat
    BY <1>2, PartOf
  <2> QED
    BY <2>1
<1>4. Budget(a) \in Nat /\ Budget(a) <= MostSpent(a)
  <2>1. Part(cfg.investment, cfg.tradeRatio) \in Nat /\ MostSpent(a) \in Nat
    BY <1>2, PartOf, AffordableIs
  <2>2. Budget(a) = Smaller(Part(cfg.investment, cfg.tradeRatio), MostSpent(a))
    BY DEF Budget, MostSpent
  <2> QED
    BY <2>1, <2>2 DEF Smaller
<1> HIDE DEF fill
<1>5. qty \in Nat /\ fill * qty <= MostSpent(a)
  BY <1>3, <1>4, BuyQtyIs
<1> HIDE DEF qty
<1>6. spent \in Nat /\ spent <= MostSpent(a)
  <2>1. qty * fill = fill * qty
    BY <1>3, <1>5
  <2>2. qty * fill \in Nat
    BY <1>3, <1>5, ProductIsNat
  <2> QED
    BY <1>5, <2>1, <2>2
<1>7. fee \in Nat /\ spent + fee <= a.cash
  <2> HIDE DEF spent
  <2>1. MostSpent(a) \in Nat /\ (100 + cfg.commission) * MostSpent(a) <= a.cash * 100
    BY AffordableIs
  <2>2. spent + fee <= a.cash
    BY <1>1, <1>2, <1>6, <2>1, CommissionFits
  <2>3. fee \in Nat
    BY <1>2, <1>6, PartOf
  <2> QED
    BY <2>2, <2>3
<1>8. bought = IF qty = 0 THEN a
               ELSE [a EXCEPT !.pos = next, !.cash = @ - spent - fee, !.fees = @ + fee]
  BY DEF Buy, qty, fill
<1> HIDE DEF spent, fee, bought
<1>9. CASE qty = 0
  BY <1>8, <1>9 DEF bought
<1>10. CASE qty # 0
  <2>1. high \in Nat
    BY <1>1, <1>3 DEF Larger
  <2> HIDE DEF high
  <2>2. next \in Position /\ next.paid = p.paid + spent
    BY <1>1, <1>5, <1>6, <2>1 DEF Position
  <2> HIDE DEF next
  <2>3. bought = [pos |-> next, cash |-> a.cash - spent - fee, realized |-> a.realized, fees |-> a.fees + fee]
    BY <1>1, <1>8, <1>10
  <2>4. a.cash - spent - fee \in Nat /\ a.fees + fee \in Nat
    BY <1>1, <1>6, <1>7
  <2>5. bought \in Accounts
    BY <1>1, <2>2, <2>3, <2>4 DEF Accounts
  <2>6. /\ bought.cash = a.cash - spent - fee /\ bought.pos = next /\ bought.fees = a.fees + fee
        /\ bought.realized = a.realized
    BY <2>3
  <2>7. a.cash + p.paid + a.fees = cfg.investment + a.realized
    BY DEF Balanced
  <2>8. Balanced(bought)
    BY <1>1, <1>2, <1>6, <1>7, <2>2, <2>6, <2>7 DEF Balanced
  <2> QED
    BY <2>5, <2>8 DEF bought
<1> QED
  BY <1>9, <1>10

-----------------------------------------------------------------------------
(* The strengthening: the books are balanced, and what they are kept of is numbers. *)
SimulationInv ==
    /\ cfg \in Configs
    /\ Account \in Accounts
    /\ Balanced(Account)

LEMMA SimulationStarts == SimulationInit => SimulationInv
<1> SUFFICES ASSUME SimulationInit PROVE SimulationInv
  OBVIOUS
<1>1. cfg \in Configs /\ pos = Flat /\ cash = cfg.investment /\ realized = 0 /\ fees = 0
  BY DEF SimulationInit
<1>2. cfg.investment \in Nat
  BY <1>1, ConfigsAreSound, ConfigIs
<1>3. Flat \in Position /\ Flat.paid = 0
  BY DEF Flat, Position
<1>4. Account \in Accounts
  BY <1>1, <1>2, <1>3 DEF Account, Accounts
<1>5. Account.pos = Flat /\ Account.cash = cfg.investment /\ Account.fees = 0 /\ Account.realized = 0
  BY <1>1 DEF Account
<1>6. Balanced(Account)
  BY <1>2, <1>3, <1>5 DEF Balanced
<1> QED
  BY <1>1, <1>4, <1>6 DEF SimulationInv

LEMMA TodayIs ==
  ASSUME SimulationInv, pos.qty # 0
  PROVE  Sound(cfg) /\ Today \in Held /\ Today.qty = pos.qty /\ Today.paid = pos.paid
<1>1. Account.pos = pos
  BY DEF Account
<1>2. pos \in Position
  BY <1>1 DEF SimulationInv, Accounts
<1> QED
  BY <1>2, ConfigsAreSound DEF SimulationInv, Today, Held, Position

LEMMA SeenIsNat ==
  ASSUME SimulationInv, pos.qty # 0, NEW c \in Candles
  PROVE  Seen(c) \in Nat
<1>1. Today \in Held /\ c.open \in Nat /\ c.high \in Nat
  BY TodayIs, CandleIs
<1> QED
  BY <1>1, PeakIs, PeakAgain DEF Seen

LEMMA ExitsKeepBooks ==
  ASSUME SimulationInv, NEW c \in Candles
  PROVE  /\ AfterExits(c).account \in Accounts /\ Balanced(AfterExits(c).account)
         /\ pos.qty # 0 /\ AfterExits(c).account.pos.qty > 0 => ~NotAbove(Today, c.low, cfg.stopLoss)
<1>1. CASE pos.qty = 0
  <2>1. AfterExits(c).account = Account
    BY <1>1 DEF AfterExits
  <2> QED
    BY <1>1, <2>1 DEF SimulationInv
<1>2. CASE pos.qty # 0
  <2> DEFINE held == [Today EXCEPT !.high = Seen(c)]
             before == [Account EXCEPT !.pos = held]
             sales == Sales(c)
             after == AfterExits(c).account
             stopped == NotAbove(Today, c.low, cfg.stopLoss)
  <2>1. Sound(cfg) /\ Today \in Held /\ Today.qty = pos.qty /\ Today.paid = pos.paid
    BY <1>2, TodayIs
  <2>2. held \in Position /\ held.qty = Today.qty /\ held.paid = Today.paid
    BY <1>2, <2>1, SeenIsNat DEF Held, Position
  <2> HIDE DEF held
  <2>3. before \in Accounts /\ before.pos = held /\ before.cash = cash /\ before.fees = fees
        /\ before.realized = realized
    BY <2>2 DEF SimulationInv, Account, Accounts
  <2>4. Balanced(before)
    <3>1. Account.pos = pos /\ Account.cash = cash /\ Account.fees = fees /\ Account.realized = realized
      BY DEF Account
    <3> QED
      BY <2>1, <2>2, <2>3, <3>1 DEF SimulationInv, Balanced
  <2>5. sales = BacktestSales(cfg, Today, c)
    BY <1>2 DEF Sales
  <2>6. after = SellAll(before, sales)
    BY <1>2 DEF AfterExits, held
  <2> HIDE DEF before, sales, after, stopped
  <2>7. Fills(cfg, Today, c, sales)
    BY <2>1, <2>5, SalesFill
  <2>8. \A k \in 1 .. Len(sales) : sales[k].at \in Nat
    BY <2>7, CandleIs DEF Fills
  <2>9. CASE Len(sales) = 0
    <3>1. after = before
      BY <2>6, <2>9 DEF SellAll
    <3>2. ~stopped
      BY <2>7, <2>9 DEF Fills, stopped
    <3> QED
      BY <2>3, <2>4, <3>1, <3>2 DEF after, stopped
  <2>10. CASE Len(sales) = 1
    <3>1. after = Sell(before, sales[1])
      BY <2>6, <2>10 DEF SellAll
    <3>2. sales[1].at \in Nat /\ sales[1].qty \in 1 .. Today.qty
      BY <2>7, <2>8, <2>10 DEF Fills
    <3>3. after \in Accounts /\ Balanced(after) /\ after.pos.qty = Today.qty - sales[1].qty
      BY <2>1, <2>2, <2>3, <2>4, <3>1, <3>2, SellKeepsBooks
    <3>4. after.pos.qty > 0 => ~stopped
      <4>1. Today.qty \in Nat
        BY <2>1 DEF Held, Position
      <4> QED
        BY <2>7, <2>10, <3>2, <3>3, <4>1 DEF Fills, stopped
    <3> QED
      BY <3>3, <3>4 DEF after, stopped
  <2>11. CASE Len(sales) = 2
    <3> DEFINE left == Sell(before, sales[1])
    <3>1. after = Sell(left, sales[2])
      BY <2>6, <2>11 DEF SellAll
    <3>2. /\ sales[1].at \in Nat /\ sales[1].qty \in 1 .. Today.qty
          /\ sales[2].at \in Nat /\ sales[2].qty \in 1 .. Today.qty
          /\ sales[1].qty + sales[2].qty = Today.qty
      BY <2>7, <2>8, <2>11 DEF Fills
    <3>3. left \in Accounts /\ Balanced(left) /\ left.pos.qty = Today.qty - sales[1].qty
      BY <2>1, <2>2, <2>3, <2>4, <3>2, SellKeepsBooks
    <3> HIDE DEF left
    <3>4. Today.qty \in Nat
      BY <2>1 DEF Held, Position
    <3>5. sales[2].qty = left.pos.qty /\ sales[2].qty \in 1 .. left.pos.qty
      BY <3>2, <3>3, <3>4
    <3>6. after \in Accounts /\ Balanced(after) /\ after.pos.qty = left.pos.qty - sales[2].qty
      BY <2>1, <3>1, <3>2, <3>3, <3>5, SellKeepsBooks
    <3>7. ~(after.pos.qty > 0)
      BY <3>2, <3>5, <3>6
    <3> QED
      BY <3>6, <3>7 DEF after
  <2> QED
    BY <2>7, <2>9, <2>10, <2>11 DEF Fills
<1> QED
  BY <1>1, <1>2

LEMMA SignalKeepsBooks ==
  ASSUME Sound(cfg), NEW a \in Accounts, Balanced(a), NEW act, act.price \in Nat \ {0}
  PROVE  AfterSignal(a, act) \in Accounts /\ Balanced(AfterSignal(a, act))
<1> DEFINE after == AfterSignal(a, act)
           sale == Rule("signal", TRUE, act.price, a.pos.qty)
<1>1. after \in {a, Buy(a, act.price)} \/ (act.signal = "sell" /\ a.pos.qty > 0 /\ after = Sell(a, sale))
  BY DEF AfterSignal
<1> HIDE DEF after
<1>2. CASE after = a
  BY <1>2 DEF after
<1>3. CASE after = Buy(a, act.price)
  BY <1>3, BuyKeepsBooks DEF after
<1>4. CASE a.pos.qty > 0 /\ after = Sell(a, sale)
  <2>1. sale.at = act.price /\ sale.qty = a.pos.qty
    BY DEF Rule
  <2> HIDE DEF sale
  <2>2. sale.at \in Nat /\ sale.qty \in 1 .. a.pos.qty
    BY <1>4, <2>1 DEF Accounts, Position
  <2>3. after \in Accounts /\ Balanced(after)
    BY <1>4, <2>2, SellKeepsBooks
  <2> QED
    BY <2>3 DEF after
<1> QED
  BY <1>1, <1>2, <1>3, <1>4

LEMMA CandleKeepsBooks ==
  ASSUME SimulationInv, NEW c \in Candles, NEW today, Candle(c, today)
  PROVE  SimulationInv'
<1> DEFINE exits == AfterExits(c)
           act == Acts(c, today)
           after == IF exits.done THEN exits.account ELSE AfterSignal(exits.account, act)
<1>1. cfg \in Configs /\ Sound(cfg)
  BY ConfigsAreSound DEF SimulationInv
<1>2. exits.account \in Accounts /\ Balanced(exits.account)
  BY ExitsKeepBooks
<1>3. act.price \in Nat \ {0}
  BY CandleIs DEF Acts
<1> HIDE DEF exits, act
<1>4. after \in Accounts /\ Balanced(after)
  BY <1>1, <1>2, <1>3, SignalKeepsBooks
<1>5. cfg' = cfg /\ pos' = after.pos /\ cash' = after.cash /\ realized' = after.realized /\ fees' = after.fees
  BY DEF Candle, exits, act
<1> HIDE DEF after
<1>6. Account' = [pos |-> after.pos, cash |-> after.cash, realized |-> after.realized, fees |-> after.fees]
  BY <1>5 DEF Account
<1>7. Account' = after
  BY <1>4, <1>6 DEF Accounts
<1> QED
  BY <1>1, <1>4, <1>5, <1>7 DEF SimulationInv, Balanced

LEMMA SimulationStep == SimulationInv /\ [SimulationNext]_simulationVars => SimulationInv'
<1> SUFFICES ASSUME SimulationInv, [SimulationNext]_simulationVars
             PROVE  SimulationInv'
  OBVIOUS
<1>1. CASE SimulationNext
  BY <1>1, CandleKeepsBooks DEF SimulationNext
<1>2. CASE UNCHANGED simulationVars
  BY <1>2 DEF simulationVars, SimulationInv, Account, Balanced
<1> QED
  BY <1>1, <1>2

LEMMA SimulationInvariance == SimulationSpec => []SimulationInv
<1>1. SimulationInit => SimulationInv
  BY SimulationStarts
<1>2. SimulationInv /\ [SimulationNext]_simulationVars => SimulationInv'
  BY SimulationStep
<1> QED
  BY <1>1, <1>2, PTL DEF SimulationSpec

(* reducePosition and the buy, for any configuration and whatever prices and signals come: the cash is *)
(* never negative, and no money is lost or made up between cash, position, commissions and result.      *)
THEOREM BooksBalance == SimulationSpec => []Books
<1>1. SimulationInv => Books
  <2> SUFFICES ASSUME SimulationInv PROVE Books
    OBVIOUS
  <2>1. Account \in Accounts /\ Balanced(Account)
    BY DEF SimulationInv
  <2>2. Account.pos = pos /\ Account.cash = cash /\ Account.fees = fees /\ Account.realized = realized
    BY DEF Account
  <2>3. cash \in Nat
    BY <2>1, <2>2 DEF Accounts
  <2> QED
    BY <2>1, <2>2, <2>3 DEF Books, Balanced
<1> QED
  BY <1>1, SimulationInvariance, PTL

(* simulate never sells at a price the day did not have, whatever the thresholds, the ladder and the    *)
(* candle; and what it still holds after a day has not fallen through its stop on that day.             *)
THEOREM SalesAreOfTheDay == SimulationSpec => []FillsWithinCandle
<1>1. SimulationInv => FillsWithinCandle
  <2> SUFFICES ASSUME SimulationInv, pos.qty > 0, NEW c \in Candles
               PROVE  /\ \A k \in DOMAIN Sales(c) : Sales(c)[k].at \in c.low .. c.high
                      /\ AfterExits(c).account.pos.qty > 0 => ~NotAbove(Today, c.low, cfg.stopLoss)
    BY DEF FillsWithinCandle
  <2>1. pos.qty # 0
    <3>1. pos.qty \in Nat
      BY DEF SimulationInv, Account, Accounts, Position
    <3> QED
      BY <3>1
  <2>2. Sound(cfg) /\ Today \in Held
    BY <2>1, TodayIs
  <2>3. Sales(c) = BacktestSales(cfg, Today, c)
    BY <2>1 DEF Sales
  <2>4. Fills(cfg, Today, c, Sales(c))
    BY <2>2, <2>3, SalesFill
  <2>5. \A k \in DOMAIN Sales(c) : Sales(c)[k].at \in c.low .. c.high
    BY <2>4 DEF Fills
  <2> QED
    BY <2>1, <2>5, ExitsKeepBooks
<1> QED
  BY <1>1, SimulationInvariance, PTL

(* The exits of simulate and evaluateAndExecuteSell of the live engine are one set of rules: for every *)
(* position, configuration and price they sell the same shares at that price for the same reason.       *)
THEOREM BacktestSellsLikeTheEngine == SimulationSpec => []EngineAgrees
<1>1. SimulationInv => EngineAgrees
  <2> SUFFICES ASSUME SimulationInv, pos.qty > 0, NEW price \in Prices
               PROVE  Sales(Still(price)) = IF EngineSale(cfg, Today, price) = NoSale THEN <<>>
                                            ELSE <<EngineSale(cfg, Today, price)>>
    BY DEF EngineAgrees
  <2> DEFINE c == Still(price)
             sale == EngineSale(cfg, Today, price)
  <2>1. pos.qty # 0
    <3>1. pos.qty \in Nat
      BY DEF SimulationInv, Account, Accounts, Position
    <3> QED
      BY <3>1
  <2>2. Today \in Held /\ price \in Nat
    BY <2>1, TodayIs, BacktestAssumption
  <2>3. sale = FirstHit(GapRules(cfg, Today, c) \o DayRules(cfg, Today, c))
    <3>1. (IF FirstHit(GapRules(cfg, Today, c)).hit THEN FirstHit(GapRules(cfg, Today, c))
           ELSE FirstHit(DayRules(cfg, Today, c))) = sale
      BY <2>2, StillDay
    <3> HIDE DEF c, sale
    <3> QED
      BY <3>1, GapThenDay
  <2>4. NotAbove(Today, price, cfg.stopLoss) => sale.why = "stop"
    BY <2>2, StillDay
  <2>5. c.low = price
    BY DEF Still
  <2>6. NoSale.why # "tier"
    BY DEF NoSale, Rule
  <2>7. Sales(c) = BacktestSales(cfg, Today, c)
    BY <2>1 DEF Sales
  <2> HIDE DEF c, sale
  <2>8. BacktestSales(cfg, Today, c) = IF sale = NoSale THEN <<>> ELSE <<sale>>
    BY <2>3, <2>4, <2>5, <2>6 DEF BacktestSales
  <2> QED
    BY <2>7, <2>8 DEF c, sale
<1> QED
  BY <1>1, SimulationInvariance, PTL
=============================================================================
