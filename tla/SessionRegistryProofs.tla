----------------------- MODULE SessionRegistryProofs -----------------------
(***************************************************************************)
(* Theorems about SessionRegistry for any stocks, sessions and pages, any  *)
(* limits, any amount of cash and any ranking of the candidates; and about *)
(* ScheduledScan, which has the scan's result applied, for any number of   *)
(* scans and instances, any TTLs, and whatever faults happen.              *)
(***************************************************************************)
EXTENDS ScheduledScan, SessionRegistry, FiniteSetTheorems, TLAPS

-----------------------------------------------------------------------------
(* Induction, over a set that holds what is to be shown. *)

LEMMA LeastNumber ==
  ASSUME NEW T, T \subseteq Nat, T # {}
  PROVE  \E m \in T : \A k \in T : m <= k
<1>1. PICK m \in T : \A k \in T : <<k, m>> \notin OpToRel(<, Nat)
  BY NatLessThanWellFounded, WFMin
<1>2. ASSUME NEW k \in T
      PROVE  m <= k
  <2>1. <<k, m>> \in Nat \X Nat
    OBVIOUS
  <2>2. ~(k < m)
    BY <1>1, <2>1 DEF OpToRel
  <2> QED
    BY <2>2
<1> QED
  BY <1>1, <1>2

LEMMA Induct ==
  ASSUME NEW T, 0 \in T, \A n \in Nat : n \in T => n + 1 \in T
  PROVE  \A n \in Nat : n \in T
<1> SUFFICES ASSUME Nat \ T # {} PROVE FALSE
  OBVIOUS
<1>1. PICK m \in Nat \ T : \A k \in Nat \ T : m <= k
  BY LeastNumber
<1>2. m # 0 /\ m - 1 \in Nat
  BY <1>1
<1>3. m - 1 \in T
  BY <1>1, <1>2
<1> QED
  BY <1>1, <1>2, <1>3

(* A recursive function over the places of a list exists: the step is a function G. *)
Iterates(f, b, N, G) == f[0] = b /\ \A n \in 1 .. N : f[n] = G[<<f[n - 1], n>>]

LEMMA Recursion ==
  ASSUME NEW X, NEW b \in X, NEW N \in Nat, NEW G \in [X \X (1 .. N) -> X]
  PROVE  \E f \in [0 .. N -> X] : Iterates(f, b, N, G)
<1> DEFINE Upto(m) == \E f \in [0 .. m -> X] : /\ f[0] = b
                                               /\ \A n \in 1 .. m : f[n] = G[<<f[n - 1], n>>]
           T == {m \in Nat : m <= N => Upto(m)}
<1>1. 0 \in T
  <2> DEFINE f == [n \in 0 .. 0 |-> b]
  <2>1. f \in [0 .. 0 -> X] /\ f[0] = b /\ \A n \in 1 .. 0 : f[n] = G[<<f[n - 1], n>>]
    OBVIOUS
  <2>2. Upto(0)
    <3> HIDE DEF f
    <3> QED
      BY <2>1
  <2> QED
    BY <2>2
<1>2. ASSUME NEW m \in Nat, m \in T
      PROVE  m + 1 \in T
  <2> SUFFICES ASSUME m + 1 <= N
               PROVE  Upto(m + 1)
    OBVIOUS
  <2>1. PICK f \in [0 .. m -> X] : f[0] = b /\ \A n \in 1 .. m : f[n] = G[<<f[n - 1], n>>]
    BY <1>2
  <2> DEFINE e == [n \in 0 .. m + 1 |-> IF n = m + 1 THEN G[<<f[m], n>>] ELSE f[n]]
  <2>2. m \in 0 .. m /\ f[m] \in X /\ m + 1 \in 1 .. N
    BY <2>1
  <2>3. e \in [0 .. m + 1 -> X]
    BY <2>1, <2>2
  <2>4. e[0] = b
    BY <2>1
  <2>5. ASSUME NEW n \in 1 .. m + 1
        PROVE  e[n] = G[<<e[n - 1], n>>]
    <3>1. n - 1 \in 0 .. m /\ n \in 0 .. m + 1 /\ n - 1 \in 0 .. m + 1
      OBVIOUS
    <3>2. e[n - 1] = f[n - 1]
      BY <3>1
    <3>3. CASE n = m + 1
      BY <3>1, <3>2, <3>3
    <3>4. CASE n \in 1 .. m
      BY <3>1, <3>2, <3>4, <2>1
    <3> QED
      BY <3>3, <3>4
  <2> HIDE DEF e
  <2> QED
    BY <2>3, <2>4, <2>5
<1>3. N \in T
  <2> HIDE DEF T
  <2> QED
    BY <1>1, <1>2, Induct
<1> QED
  BY <1>3 DEF Iterates

-----------------------------------------------------------------------------
(* Lists that are made one element at a time. *)

LEMMA AppendOne ==
  ASSUME NEW S, NEW picked \in Seq(S), NEW s \in S
  PROVE  /\ Append(picked, s) \in Seq(S)
         /\ Len(Append(picked, s)) = Len(picked) + 1
         /\ Range(Append(picked, s)) = Range(picked) \cup {s}
<1>1. Append(picked, s) \in Seq(S) /\ Len(Append(picked, s)) = Len(picked) + 1
  OBVIOUS
<1>2. ASSUME NEW x \in Range(Append(picked, s))
      PROVE  x \in Range(picked) \cup {s}
  BY <1>1 DEF Range
<1>3. ASSUME NEW x \in Range(picked) \cup {s}
      PROVE  x \in Range(Append(picked, s))
  <2>1. CASE x = s
    <3>1. Len(picked) + 1 \in DOMAIN Append(picked, s) /\ Append(picked, s)[Len(picked) + 1] = s
      OBVIOUS
    <3> QED
      BY <2>1, <3>1 DEF Range
  <2>2. CASE x \in Range(picked)
    <3>1. PICK k \in 1 .. Len(picked) : x = picked[k]
      BY <2>2 DEF Range
    <3>2. k \in DOMAIN Append(picked, s) /\ Append(picked, s)[k] = x
      BY <3>1
    <3> QED
      BY <3>2 DEF Range
  <2> QED
    BY <2>1, <2>2
<1> QED
  BY <1>1, <1>2, <1>3

(* A list is gone through once, and a set A says which elements are kept after which. *)
Selects(f, list, A) ==
    /\ f[0] = <<>>
    /\ \A n \in 1 .. Len(list) : f[n] = With(f[n - 1], list[n], <<f[n - 1], n>> \in A)

LEMMA Selection ==
  ASSUME NEW S, NEW list \in Seq(S), NEW A
  PROVE  \E f \in [0 .. Len(list) -> Seq(S)] : Selects(f, list, A)
<1> DEFINE N == Len(list)
           X == Seq(S)
           G == [p \in X \X (1 .. N) |-> With(p[1], list[p[2]], p \in A)]
<1>1. N \in Nat /\ <<>> \in X /\ \A n \in 1 .. N : list[n] \in S
  OBVIOUS
<1>2. G \in [X \X (1 .. N) -> X]
  BY <1>1, AppendOne DEF With
<1>3. PICK f \in [0 .. N -> X] : Iterates(f, <<>>, N, G)
  <2>1. N \in Nat /\ <<>> \in X
    BY <1>1
  <2> HIDE DEF G, X, N
  <2> QED
    BY <2>1, <1>2, Recursion
<1>4. f[0] = <<>>
  BY <1>3 DEF Iterates
<1>5. ASSUME NEW n \in 1 .. N
      PROVE  f[n] = With(f[n - 1], list[n], <<f[n - 1], n>> \in A)
  <2>1. f[n - 1] \in X
    <3>1. n - 1 \in 0 .. N
      BY <1>1, <1>5
    <3> HIDE DEF N, X
    <3> QED
      BY <3>1, <1>3
  <2>2. <<f[n - 1], n>> \in X \X (1 .. N)
    BY <2>1, <1>5
  <2>3. f[n] = G[<<f[n - 1], n>>]
    BY <1>3, <1>5 DEF Iterates
  <2> QED
    BY <2>2, <2>3 DEF With
<1>6. Selects(f, list, A)
  BY <1>4, <1>5 DEF Selects
<1> QED
  BY <1>3, <1>6

(* What a selection keeps is part of the list, and in the list's members. *)
LEMMA SelectsPart ==
  ASSUME NEW S, NEW list \in Seq(S), NEW A, NEW f \in [0 .. Len(list) -> Seq(S)],
         Selects(f, list, A)
  PROVE  \A n \in 0 .. Len(list) : Range(f[n]) \subseteq Range(list)
<1> DEFINE T == {n \in Nat : n <= Len(list) => Range(f[n]) \subseteq Range(list)}
<1>1. 0 \in T
  BY DEF Selects, Range
<1>2. ASSUME NEW n \in Nat, n \in T
      PROVE  n + 1 \in T
  <2> SUFFICES ASSUME n + 1 <= Len(list)
               PROVE  Range(f[n + 1]) \subseteq Range(list)
    OBVIOUS
  <2>1. n + 1 \in 1 .. Len(list) /\ n \in 0 .. Len(list) /\ (n + 1) - 1 = n
    OBVIOUS
  <2>2. f[n + 1] = f[n] \/ f[n + 1] = Append(f[n], list[n + 1])
    BY <2>1 DEF Selects, With
  <2>3. list[n + 1] \in S /\ list[n + 1] \in Range(list) /\ f[n] \in Seq(S)
    BY <2>1 DEF Range
  <2>4. Range(Append(f[n], list[n + 1])) = Range(f[n]) \cup {list[n + 1]}
    BY <2>3, AppendOne
  <2>5. Range(f[n]) \subseteq Range(list)
    BY <1>2, <2>1
  <2>6. CASE f[n + 1] = f[n]
    BY <2>5, <2>6
  <2>7. CASE f[n + 1] = Append(f[n], list[n + 1])
    BY <2>3, <2>4, <2>5, <2>7
  <2> QED
    BY <2>2, <2>6, <2>7
<1>3. \A n \in Nat : n \in T
  <2> HIDE DEF T
  <2> QED
    BY <1>1, <1>2, Induct
<1> QED
  BY <1>3

(* The stocks kept of a list are stocks of the list, and members. *)
LEMMA AmongIsPart ==
  ASSUME NEW S, NEW list \in Seq(S), NEW members
  PROVE  /\ Among(list, members) \in Seq(S)
         /\ Range(Among(list, members)) \subseteq Range(list) \cap members
<1> DEFINE N == Len(list)
           A == {e \in Seq(S) \X (1 .. N) : list[e[2]] \in members}
           kept[n \in 0 .. N] == IF n = 0 THEN <<>> ELSE With(kept[n - 1], list[n], list[n] \in members)
<1> HIDE DEF kept
<1>1. N \in Nat /\ \A n \in 1 .. N : list[n] \in S
  OBVIOUS
<1>2. PICK f \in [0 .. N -> Seq(S)] : Selects(f, list, A)
  <2> HIDE DEF A
  <2> QED
    BY Selection
<1>3. f = [n \in 0 .. N |-> IF n = 0 THEN <<>> ELSE With(f[n - 1], list[n], list[n] \in members)]
  <2>1. ASSUME NEW n \in 1 .. N
        PROVE  f[n] = With(f[n - 1], list[n], list[n] \in members)
    <3>1. f[n - 1] \in Seq(S)
      BY <1>1
    <3>2. <<f[n - 1], n>> \in A <=> list[n] \in members
      BY <3>1
    <3> QED
      BY <1>2, <3>2 DEF Selects, With
  <2> QED
    BY <1>1, <1>2, <2>1 DEF Selects
<1>4. kept = [n \in 0 .. N |-> IF n = 0 THEN <<>> ELSE With(kept[n - 1], list[n], list[n] \in members)]
  <2> HIDE DEF N, A
  <2> QED
    BY <1>3 DEF kept
<1> DEFINE T == {n \in Nat : n <= N => /\ kept[n] \in Seq(S)
                                      /\ Range(kept[n]) \subseteq Range(list) \cap members}
<1>5. 0 \in T
  BY <1>1, <1>4 DEF Range
<1>6. ASSUME NEW n \in Nat, n \in T
      PROVE  n + 1 \in T
  <2> SUFFICES ASSUME n + 1 <= N
               PROVE  /\ kept[n + 1] \in Seq(S)
                      /\ Range(kept[n + 1]) \subseteq Range(list) \cap members
    OBVIOUS
  <2>1. kept[n + 1] = With(kept[n], list[n + 1], list[n + 1] \in members)
    BY <1>1, <1>4
  <2>2. list[n + 1] \in S /\ list[n + 1] \in Range(list)
    BY <1>1 DEF Range
  <2> QED
    BY <1>6, <2>1, <2>2, AppendOne DEF With
<1>7. N \in T
  <2> HIDE DEF T
  <2> QED
    BY <1>1, <1>5, <1>6, Induct
<1>8. Among(list, members) = kept[N]
  BY DEF Among, kept
<1> QED
  BY <1>7, <1>8

(* FilterCandidates is such a selection, by the candidates it admits. *)
Admitted(ranked, active, counted, scaling) ==
    {e \in Seq(Stocks) \X (1 .. Len(ranked)) : Admits(ranked[e[2]], active, counted, scaling, e[1])}

LEMMA FilterSelects ==
  ASSUME NEW ranked \in Seq(Stocks), NEW active, NEW counted, NEW scaling
  PROVE  \E f \in [0 .. Len(ranked) -> Seq(Stocks)] :
            /\ Selects(f, ranked, Admitted(ranked, active, counted, scaling))
            /\ FilterCandidates(ranked, active, counted, scaling) = f[Len(ranked)]
<1> DEFINE N == Len(ranked)
           A == Admitted(ranked, active, counted, scaling)
           picked[n \in 0 .. N] ==
             IF n = 0 THEN <<>>
             ELSE With(picked[n - 1], ranked[n], Admits(ranked[n], active, counted, scaling, picked[n - 1]))
<1> HIDE DEF picked
<1>1. N \in Nat /\ \A n \in 1 .. N : ranked[n] \in Stocks
  OBVIOUS
<1>2. PICK f \in [0 .. N -> Seq(Stocks)] : Selects(f, ranked, A)
  <2> HIDE DEF A
  <2> QED
    BY Selection
<1>3. f = [n \in 0 .. N |->
             IF n = 0 THEN <<>>
             ELSE With(f[n - 1], ranked[n], Admits(ranked[n], active, counted, scaling, f[n - 1]))]
  <2>1. ASSUME NEW n \in 1 .. N
        PROVE  f[n] = With(f[n - 1], ranked[n], Admits(ranked[n], active, counted, scaling, f[n - 1]))
    <3>1. f[n - 1] \in Seq(Stocks)
      BY <1>1
    <3>2. <<f[n - 1], n>> \in A <=> Admits(ranked[n], active, counted, scaling, f[n - 1])
      BY <3>1 DEF Admitted
    <3> QED
      BY <1>2, <3>2 DEF Selects, With
  <2> QED
    BY <1>1, <1>2, <2>1 DEF Selects
<1>4. picked = f
  <2>1. picked = [n \in 0 .. N |->
                    IF n = 0 THEN <<>>
                    ELSE With(picked[n - 1], ranked[n],
                              Admits(ranked[n], active, counted, scaling, picked[n - 1]))]
    <3> HIDE DEF N, A
    <3> QED
      BY <1>3 DEF picked
  <2>2. \A n \in 1 .. N : n - 1 \in 0 .. N
    BY <1>1
  <2> DEFINE T == {n \in Nat : n <= N => picked[n] = f[n]}
  <2>3. 0 \in T
    BY <1>1, <1>3, <2>1
  <2>4. ASSUME NEW n \in Nat, n \in T
        PROVE  n + 1 \in T
    <3> SUFFICES ASSUME n + 1 <= N
                 PROVE  picked[n + 1] = f[n + 1]
      OBVIOUS
    <3>1. n + 1 \in 0 .. N /\ n + 1 # 0 /\ (n + 1) - 1 = n /\ picked[n] = f[n]
      BY <1>1, <2>4
    <3>2. picked[n + 1] = With(picked[n], ranked[n + 1],
                               Admits(ranked[n + 1], active, counted, scaling, picked[n]))
      BY <2>1, <3>1
    <3>3. f[n + 1] = With(f[n], ranked[n + 1],
                          Admits(ranked[n + 1], active, counted, scaling, f[n]))
      BY <1>3, <3>1
    <3> QED
      BY <3>1, <3>2, <3>3
  <2>5. \A n \in Nat : n \in T
    <3> HIDE DEF T
    <3> QED
      BY <2>3, <2>4, Induct
  <2>6. \A n \in 0 .. N : picked[n] = f[n]
    BY <2>5
  <2> QED
    BY <1>1, <2>1, <2>6
<1>5. FilterCandidates(ranked, active, counted, scaling) = f[N]
  <2>1. FilterCandidates(ranked, active, counted, scaling) = picked[N]
    BY DEF FilterCandidates, picked
  <2> QED
    BY <1>4, <2>1
<1> QED
  BY <1>2, <1>5

-----------------------------------------------------------------------------
(* Numbers and sets. *)

LEMMA MaxOfTwo ==
  ASSUME NEW x \in Int, NEW y \in Int
  PROVE  /\ Max({x, y}) = x \/ Max({x, y}) = y
         /\ Max({x, y}) >= x /\ Max({x, y}) >= y
<1>1. \E m \in {x, y} : \A z \in {x, y} : m >= z
  <2>1. CASE x >= y
    BY <2>1
  <2>2. CASE y >= x
    BY <2>2
  <2> QED
    BY <2>1, <2>2
<1> QED
  BY <1>1 DEF Max

LEMMA MinOfTwo ==
  ASSUME NEW x \in Int, NEW y \in Int
  PROVE  /\ Min({x, y}) = x \/ Min({x, y}) = y
         /\ Min({x, y}) <= x /\ Min({x, y}) <= y
<1>1. \E m \in {x, y} : \A z \in {x, y} : m <= z
  <2>1. CASE x <= y
    BY <2>1
  <2>2. CASE y <= x
    BY <2>2
  <2> QED
    BY <2>1, <2>2
<1> QED
  BY <1>1 DEF Min

LEMMA StocksFinite ==
  ASSUME NEW C, C \subseteq Stocks
  PROVE  IsFiniteSet(C) /\ Cardinality(C) \in Nat
BY ScanSelectionAssumption, FS_Subset, FS_CardinalityType

LEMMA FewerStocks ==
  ASSUME NEW C, C \subseteq Stocks, NEW B, B \subseteq C
  PROVE  Cardinality(B) <= Cardinality(C)
BY StocksFinite, FS_Subset

LEMMA OneMoreStock ==
  ASSUME NEW C, C \subseteq Stocks, NEW s
  PROVE  Cardinality(C \cup {s}) <= Cardinality(C) + 1
<1>1. IsFiniteSet(C) /\ Cardinality(C) \in Nat
  BY StocksFinite
<1> QED
  BY <1>1, FS_AddElement

(* A list of n stocks has at most n of them. *)
LEMMA StocksOfList ==
  ASSUME NEW list \in Seq(Stocks)
  PROVE  /\ Range(list) \subseteq Stocks
         /\ Cardinality(Range(list)) <= Len(list)
<1>1. Range(list) \subseteq Stocks
  BY DEF Range
<1>2. DOMAIN list = 1 .. Len(list) /\ Len(list) \in Nat
  OBVIOUS
<1>3. list \in Surjection(1 .. Len(list), Range(list))
  BY <1>2 DEF Surjection, Range
<1>4. ExistsSurjection(1 .. Len(list), Range(list))
  BY <1>3 DEF ExistsSurjection
<1> QED
  BY <1>1, <1>2, <1>4, FS_SurjCardinalityBound

LEMMA HoldingsLimit ==
  ASSUME NEW scaling, scaling \in Regimes \cup {NoScaling}
  PROVE  EffectiveMaxHoldings(scaling) \in Nat
<1>1. scaling.slots \in Nat
  <2>1. CASE scaling = NoScaling
    BY <2>1 DEF NoScaling
  <2>2. CASE scaling \in Regimes
    BY <2>2, SessionRegistryAssumption
  <2> QED
    BY <2>1, <2>2
<1>2. RoundPct(MaxHoldings, scaling.slots) \in Int
  <2>1. MaxHoldings * scaling.slots \in Nat
    BY <1>1, ScanSelectionAssumption
  <2> QED
    BY <2>1 DEF RoundPct
<1>3. HoldingsFloor \in Nat /\ MaxHoldings \in Nat
  BY ScanSelectionAssumption
<1>4. Max({HoldingsFloor, RoundPct(MaxHoldings, scaling.slots)}) \in Nat
  <2> DEFINE x == HoldingsFloor
             y == RoundPct(MaxHoldings, scaling.slots)
  <2>1. x \in Int /\ y \in Int /\ x \in Nat
    BY <1>2, <1>3
  <2> HIDE DEF x, y
  <2>2. (Max({x, y}) = x \/ Max({x, y}) = y) /\ Max({x, y}) >= x
    BY <2>1, MaxOfTwo
  <2>3. Max({x, y}) \in Nat
    BY <2>1, <2>2
  <2> QED
    BY <2>3 DEF x, y
<1> QED
  BY <1>3, <1>4 DEF EffectiveMaxHoldings

-----------------------------------------------------------------------------
(* The limits.  They hold for a set of stocks, and then for every part of it. *)

SameSector(S, s) == {t \in S : Sector[t] = Sector[s]}

Spread(opened, before, counted, scaling) ==
    /\ ~BeyondCap(opened, before, EffectiveMaxHoldings(scaling))
    /\ \A s \in opened : Sector[s] # NoSector =>
         ~BeyondCap(SameSector(opened, s), SameSector(counted, s), MaxPerSector)

LEMMA CapOfPart ==
  ASSUME NEW C, C \subseteq Stocks, NEW B, B \subseteq C, NEW before, before \subseteq Stocks,
         NEW cap \in Nat, ~BeyondCap(C, before, cap)
  PROVE  ~BeyondCap(B, before, cap)
<1>1. Cardinality(before \cup B) <= Cardinality(before \cup C)
  BY FewerStocks
<1>2. /\ Cardinality(before \cup B) \in Nat /\ Cardinality(before \cup C) \in Nat
      /\ Cardinality(before) \in Nat
  BY StocksFinite
<1>3. Max({cap, Cardinality(before)}) \in Int
  <2>1. cap \in Int /\ Cardinality(before) \in Int
    BY <1>2
  <2>2. Max({cap, Cardinality(before)}) = cap \/ Max({cap, Cardinality(before)}) = Cardinality(before)
    BY <2>1, MaxOfTwo
  <2> QED
    BY <2>1, <2>2
<1> QED
  BY <1>1, <1>2, <1>3 DEF BeyondCap

LEMMA SpreadOfPart ==
  ASSUME NEW C, C \subseteq Stocks, NEW B, B \subseteq C, NEW before, before \subseteq Stocks,
         NEW counted, counted \subseteq Stocks,
         NEW scaling, scaling \in Regimes \cup {NoScaling},
         Spread(C, before, counted, scaling)
  PROVE  Spread(B, before, counted, scaling)
<1>1. ~BeyondCap(B, before, EffectiveMaxHoldings(scaling))
  BY HoldingsLimit, CapOfPart DEF Spread
<1>2. ASSUME NEW s \in B, Sector[s] # NoSector
      PROVE  ~BeyondCap(SameSector(B, s), SameSector(counted, s), MaxPerSector)
  <2>1. ~BeyondCap(SameSector(C, s), SameSector(counted, s), MaxPerSector)
    BY <1>2 DEF Spread
  <2>2. /\ SameSector(C, s) \subseteq Stocks /\ SameSector(B, s) \subseteq SameSector(C, s)
        /\ SameSector(counted, s) \subseteq Stocks
    BY DEF SameSector
  <2>3. MaxPerSector \in Nat
    BY ScanSelectionAssumption
  <2> QED
    BY <2>1, <2>2, <2>3, CapOfPart
<1> QED
  BY <1>1, <1>2 DEF Spread

(* Limits that a selection keeps while it grows. *)
WithinSlots(picked, active, scaling) == Len(picked) <= AvailableSlots(scaling, active)
SectorsFit(picked, counted) ==
    \A t \in Range(picked) : Sector[t] # NoSector =>
        Cardinality(SameSector(counted \cup Range(picked), t)) <= MaxPerSector

LEMMA SlotsLimit ==
  ASSUME NEW scaling, scaling \in Regimes \cup {NoScaling}, NEW active, active \subseteq Stocks
  PROVE  /\ AvailableSlots(scaling, active) \in Nat
         /\ \/ AvailableSlots(scaling, active) = 0
            \/ AvailableSlots(scaling, active) = EffectiveMaxHoldings(scaling) - Cardinality(active)
<1> DEFINE x == EffectiveMaxHoldings(scaling) - Cardinality(active)
<1>1. x \in Int
  BY HoldingsLimit, StocksFinite
<1> HIDE DEF x
<1>2. (Max({0, x}) = 0 \/ Max({0, x}) = x) /\ Max({0, x}) >= 0
  <2>1. 0 \in Int
    OBVIOUS
  <2>2. /\ Max({0, x}) = 0 \/ Max({0, x}) = x
        /\ Max({0, x}) >= 0 /\ Max({0, x}) >= x
    BY <1>1, <2>1, MaxOfTwo, Zenon
  <2> QED
    BY <2>2
<1>3. Max({0, x}) \in Nat
  BY <1>1, <1>2
<1> QED
  BY <1>2, <1>3 DEF AvailableSlots, x

(* One candidate is admitted. *)
LEMMA AdmitOne ==
  ASSUME NEW picked \in Seq(Stocks), NEW s \in Stocks, NEW active, NEW counted, counted \subseteq Stocks,
         NEW scaling, scaling \in Regimes \cup {NoScaling}, active \subseteq Stocks,
         Admits(s, active, counted, scaling, picked),
         SectorsFit(picked, counted)
  PROVE  /\ WithinSlots(Append(picked, s), active, scaling)
         /\ SectorsFit(Append(picked, s), counted)
<1> DEFINE grown == Append(picked, s)
<1>1. /\ grown \in Seq(Stocks) /\ Len(grown) = Len(picked) + 1
      /\ Range(grown) = Range(picked) \cup {s}
  BY AppendOne
<1>2. WithinSlots(grown, active, scaling)
  BY <1>1, SlotsLimit DEF Admits, WithinSlots
<1>3. Range(picked) \subseteq Stocks
  BY StocksOfList
<1>4. ASSUME NEW t \in Range(grown), Sector[t] # NoSector
      PROVE  Cardinality(SameSector(counted \cup Range(grown), t)) <= MaxPerSector
  <2> DEFINE old == SameSector(counted \cup Range(picked), t)
             new == SameSector(counted \cup Range(grown), t)
  <2>1. old \subseteq Stocks /\ new \subseteq Stocks
    BY <1>1, <1>3 DEF SameSector
  <2>2. Cardinality(old) \in Nat /\ Cardinality(new) \in Nat /\ MaxPerSector \in Nat
    BY <2>1, StocksFinite, ScanSelectionAssumption
  <2>3. CASE Sector[t] = Sector[s]
    <3>1. Cardinality(old) < MaxPerSector
      <4>1. RoomInSector(s, counted, picked)
        BY DEF Admits
      <4>2. old = {u \in counted \cup Range(picked) : Sector[u] = Sector[s]}
        BY <2>3 DEF SameSector
      <4> QED
        BY <4>1, <4>2, <1>4, <2>3 DEF RoomInSector
    <3>2. new = old \cup {s}
      BY <1>1, <2>3 DEF SameSector
    <3>3. Cardinality(new) <= Cardinality(old) + 1
      BY <2>1, <3>2, OneMoreStock
    <3> QED
      BY <2>2, <3>1, <3>3
  <2>4. CASE Sector[t] # Sector[s]
    <3>1. new = old
      BY <1>1, <2>4 DEF SameSector
    <3>2. t \in Range(picked)
      BY <1>1, <2>4
    <3> QED
      BY <3>1, <3>2, <1>4 DEF SectorsFit
  <2> QED
    BY <2>3, <2>4
<1> QED
  BY <1>2, <1>4 DEF SectorsFit

LEMMA FilterKeepsLimits ==
  ASSUME NEW ranked \in Seq(Stocks), NEW active, active \subseteq Stocks,
         NEW counted, counted \subseteq Stocks,
         NEW scaling, scaling \in Regimes \cup {NoScaling}
  PROVE  /\ FilterCandidates(ranked, active, counted, scaling) \in Seq(Stocks)
         /\ Range(FilterCandidates(ranked, active, counted, scaling)) \subseteq Range(ranked)
         /\ WithinSlots(FilterCandidates(ranked, active, counted, scaling), active, scaling)
         /\ SectorsFit(FilterCandidates(ranked, active, counted, scaling), counted)
<1> DEFINE N == Len(ranked)
           A == Admitted(ranked, active, counted, scaling)
<1>1. PICK f \in [0 .. N -> Seq(Stocks)] :
            /\ Selects(f, ranked, A)
            /\ FilterCandidates(ranked, active, counted, scaling) = f[N]
  BY FilterSelects
<1>2. N \in Nat /\ \A n \in 1 .. N : ranked[n] \in Stocks
  OBVIOUS
<1> DEFINE Fit(n) == WithinSlots(f[n], active, scaling) /\ SectorsFit(f[n], counted)
           T == {n \in Nat : n <= N => Fit(n)}
<1>3. 0 \in T
  <2>1. f[0] = <<>> /\ Len(<<>>) = 0 /\ Range(<<>>) = {}
    BY <1>1 DEF Selects, Range
  <2>2. WithinSlots(<<>>, active, scaling) /\ SectorsFit(<<>>, counted)
    BY <2>1, SlotsLimit DEF WithinSlots, SectorsFit
  <2> QED
    BY <2>1, <2>2
<1>4. ASSUME NEW n \in Nat, n \in T
      PROVE  n + 1 \in T
  <2> SUFFICES ASSUME n + 1 <= N
               PROVE  Fit(n + 1)
    OBVIOUS
  <2>1. n + 1 \in 1 .. N /\ n \in 0 .. N /\ (n + 1) - 1 = n
    BY <1>2
  <2>2. f[n] \in Seq(Stocks) /\ ranked[n + 1] \in Stocks /\ Fit(n)
    BY <1>2, <1>4, <2>1
  <2>3. f[n + 1] = With(f[n], ranked[n + 1], <<f[n], n + 1>> \in A)
    BY <1>1, <2>1 DEF Selects
  <2>4. CASE <<f[n], n + 1>> \in A
    <3>1. Admits(ranked[n + 1], active, counted, scaling, f[n])
      BY <2>4 DEF Admitted
    <3>2. f[n + 1] = Append(f[n], ranked[n + 1])
      BY <2>3, <2>4 DEF With
    <3> QED
      BY <2>2, <3>1, <3>2, AdmitOne
  <2>5. CASE <<f[n], n + 1>> \notin A
    <3>1. f[n + 1] = f[n]
      BY <2>3, <2>5 DEF With
    <3> QED
      BY <2>2, <3>1
  <2> QED
    BY <2>4, <2>5
<1>5. N \in T
  <2> HIDE DEF T
  <2> QED
    BY <1>2, <1>3, <1>4, Induct
<1>6. Fit(N)
  BY <1>2, <1>5
<1>7. f[N] \in Seq(Stocks) /\ Range(f[N]) \subseteq Range(ranked)
  BY <1>1, <1>2, SelectsPart
<1> QED
  BY <1>1, <1>6, <1>7

(* What the filter of applyScanResults picks is spread over the account as it found it. *)
LEMMA FilterSpreads ==
  ASSUME NEW ranked \in Seq(Stocks), NEW active, active \subseteq Stocks,
         NEW counted, counted \subseteq Stocks,
         NEW scaling, scaling \in Regimes \cup {NoScaling}
  PROVE  Spread(Range(FilterCandidates(ranked, active, counted, scaling)), active, counted, scaling)
<1> DEFINE picked == FilterCandidates(ranked, active, counted, scaling)
           C == Range(picked)
           cap == EffectiveMaxHoldings(scaling)
<1>1. picked \in Seq(Stocks) /\ WithinSlots(picked, active, scaling) /\ SectorsFit(picked, counted)
  BY FilterKeepsLimits
<1> HIDE DEF picked
<1>2. C \subseteq Stocks /\ Cardinality(C) <= Len(picked) /\ Cardinality(C) \in Nat
  BY <1>1, StocksOfList, StocksFinite
<1>3. cap \in Nat /\ Cardinality(active) \in Nat /\ Len(picked) \in Nat
  BY <1>1, HoldingsLimit, StocksFinite
<1>4. ~BeyondCap(C, active, cap)
  <2>1. Cardinality(active \cup C) <= Cardinality(active) + Cardinality(C)
    <3>1. Cardinality(active \cup C) = Cardinality(active) + Cardinality(C) - Cardinality(active \cap C)
      BY <1>2, StocksFinite, FS_Union
    <3>2. Cardinality(active \cap C) \in Nat
      BY <1>2, StocksFinite
    <3> QED
      BY <1>2, <1>3, <3>1, <3>2
  <2>2. Cardinality(active \cup C) \in Nat
    BY <1>2, StocksFinite
  <2>3. Cardinality(active \cup C) <= cap \/ Cardinality(active \cup C) <= Cardinality(active)
    BY <1>1, <1>2, <1>3, <2>1, <2>2, SlotsLimit DEF WithinSlots
  <2> HIDE DEF cap, C
  <2> DEFINE m == Max({cap, Cardinality(active)})
  <2>4. (m = cap \/ m = Cardinality(active)) /\ m >= cap /\ m >= Cardinality(active)
    <3>1. cap \in Int /\ Cardinality(active) \in Int
      BY <1>3
    <3> QED
      BY <3>1, MaxOfTwo, Zenon
  <2> HIDE DEF m
  <2>5. ~(Cardinality(active \cup C) > m)
    BY <1>3, <2>2, <2>3, <2>4
  <2> QED
    BY <2>5 DEF BeyondCap, m
<1>5. ASSUME NEW s \in C, Sector[s] # NoSector
      PROVE  ~BeyondCap(SameSector(C, s), SameSector(counted, s), MaxPerSector)
  <2> DEFINE before == SameSector(counted, s)
             all == before \cup SameSector(C, s)
  <2>1. all = SameSector(counted \cup C, s)
    BY DEF SameSector
  <2>2. Cardinality(all) <= MaxPerSector
    BY <1>1, <1>5, <2>1 DEF SectorsFit
  <2>3. before \subseteq Stocks /\ all \subseteq Stocks
    BY <1>2 DEF SameSector
  <2>4. Cardinality(before) \in Nat /\ Cardinality(all) \in Nat /\ MaxPerSector \in Nat
    BY <2>3, StocksFinite, ScanSelectionAssumption
  <2> HIDE DEF before
  <2> DEFINE m == Max({MaxPerSector, Cardinality(before)})
  <2>5. (m = MaxPerSector \/ m = Cardinality(before)) /\ m >= MaxPerSector
    <3>1. MaxPerSector \in Int /\ Cardinality(before) \in Int
      BY <2>4
    <3> QED
      BY <3>1, MaxOfTwo, Zenon
  <2> HIDE DEF m
  <2>6. ~(Cardinality(all) > m)
    BY <2>2, <2>4, <2>5
  <2> QED
    BY <2>6 DEF BeyondCap, before, m
<1> QED
  BY <1>4, <1>5 DEF Spread, picked

-----------------------------------------------------------------------------
(* Totals, through their partial sums. *)

Sums(f, amounts) ==
    /\ f[0] = 0
    /\ \A n \in 1 .. Len(amounts) : f[n] = f[n - 1] + amounts[n]

LEMMA TotalIs ==
  ASSUME NEW amounts \in Seq(Int)
  PROVE  \E f \in [0 .. Len(amounts) -> Int] : Sums(f, amounts) /\ Total(amounts) = f[Len(amounts)]
<1> DEFINE N == Len(amounts)
           G == [p \in Int \X (1 .. N) |-> p[1] + amounts[p[2]]]
           sum[n \in 0 .. N] == IF n = 0 THEN 0 ELSE sum[n - 1] + amounts[n]
<1> HIDE DEF sum
<1>1. N \in Nat /\ \A n \in 1 .. N : amounts[n] \in Int
  OBVIOUS
<1>2. G \in [Int \X (1 .. N) -> Int]
  BY <1>1
<1>3. PICK f \in [0 .. N -> Int] : Iterates(f, 0, N, G)
  <2>1. N \in Nat /\ 0 \in Int
    BY <1>1
  <2> HIDE DEF G, N
  <2> QED
    BY <2>1, <1>2, Recursion
<1>4. ASSUME NEW n \in 1 .. N
      PROVE  f[n] = f[n - 1] + amounts[n]
  <2>1. f[n - 1] \in Int
    BY <1>1, <1>4
  <2>2. f[n] = G[<<f[n - 1], n>>]
    BY <1>3, <1>4 DEF Iterates
  <2> QED
    BY <2>1, <2>2
<1>5. f[0] = 0
  BY <1>3 DEF Iterates
<1>6. f = [n \in 0 .. N |-> IF n = 0 THEN 0 ELSE f[n - 1] + amounts[n]]
  BY <1>1, <1>4, <1>5
<1>7. sum = [n \in 0 .. N |-> IF n = 0 THEN 0 ELSE sum[n - 1] + amounts[n]]
  <2> HIDE DEF N, G
  <2> QED
    BY <1>6 DEF sum
<1> DEFINE T == {n \in Nat : n <= N => sum[n] \in Int}
<1>8. 0 \in T
  BY <1>1, <1>7
<1>9. ASSUME NEW n \in Nat, n \in T
      PROVE  n + 1 \in T
  <2> SUFFICES ASSUME n + 1 <= N
               PROVE  sum[n + 1] \in Int
    OBVIOUS
  <2>1. n + 1 \in 0 .. N /\ n + 1 # 0 /\ (n + 1) - 1 = n /\ n + 1 \in 1 .. N /\ sum[n] \in Int
    BY <1>1, <1>9
  <2>2. sum[n + 1] = sum[n] + amounts[n + 1]
    BY <1>7, <2>1
  <2> QED
    BY <1>1, <2>1, <2>2
<1>10. \A n \in Nat : n \in T
  <2> HIDE DEF T
  <2> QED
    BY <1>8, <1>9, Induct
<1>11. sum \in [0 .. N -> Int]
  <2>1. \A n \in 0 .. N : sum[n] \in Int
    BY <1>10
  <2> QED
    BY <1>7, <2>1
<1>12. Sums(sum, amounts)
  BY <1>1, <1>7 DEF Sums
<1>13. Total(amounts) = sum[N]
  BY DEF Total, sum
<1> QED
  BY <1>11, <1>12, <1>13

LEMMA TotalType ==
  ASSUME NEW amounts \in Seq(Int)
  PROVE  Total(amounts) \in Int
<1>1. PICK f \in [0 .. Len(amounts) -> Int] : Sums(f, amounts) /\ Total(amounts) = f[Len(amounts)]
  BY TotalIs
<1>2. Len(amounts) \in 0 .. Len(amounts)
  OBVIOUS
<1> QED
  BY <1>1, <1>2

(* Lists of naturals: their partial sums grow. *)
LEMMA TotalOfNaturals ==
  ASSUME NEW amounts \in Seq(Nat)
  PROVE  /\ Total(amounts) \in Nat
         /\ (Len(amounts) > 0 /\ \A n \in 1 .. Len(amounts) : amounts[n] > 0) => Total(amounts) > 0
<1>1. amounts \in Seq(Int) /\ Len(amounts) \in Nat /\ \A n \in 1 .. Len(amounts) : amounts[n] \in Nat
  OBVIOUS
<1>2. PICK f \in [0 .. Len(amounts) -> Int] : Sums(f, amounts) /\ Total(amounts) = f[Len(amounts)]
  BY <1>1, TotalIs
<1> DEFINE T == {n \in Nat : n <= Len(amounts) => f[n] >= 0}
<1>3. 0 \in T
  BY <1>2 DEF Sums
<1>4. ASSUME NEW n \in Nat, n \in T
      PROVE  n + 1 \in T
  <2> SUFFICES ASSUME n + 1 <= Len(amounts)
               PROVE  f[n + 1] >= 0
    OBVIOUS
  <2>1. /\ n \in 0 .. Len(amounts) /\ n + 1 \in 0 .. Len(amounts) /\ n + 1 \in 1 .. Len(amounts)
        /\ (n + 1) - 1 = n /\ f[n] >= 0
    BY <1>1, <1>4
  <2>2. f[n + 1] = f[n] + amounts[n + 1] /\ f[n] \in Int /\ amounts[n + 1] \in Nat
    BY <1>1, <1>2, <2>1 DEF Sums
  <2> QED
    BY <2>1, <2>2
<1>5. \A n \in Nat : n \in T
  <2> HIDE DEF T
  <2> QED
    BY <1>3, <1>4, Induct
<1>6. Total(amounts) \in Nat
  BY <1>1, <1>2, <1>5, TotalType
<1>7. ASSUME Len(amounts) > 0, \A n \in 1 .. Len(amounts) : amounts[n] > 0
      PROVE  Total(amounts) > 0
  <2> DEFINE N == Len(amounts)
  <2>1. N \in 1 .. N /\ N - 1 \in 0 .. N /\ N - 1 \in Nat
    BY <1>1, <1>7
  <2>2. f[N] = f[N - 1] + amounts[N] /\ f[N - 1] >= 0 /\ f[N - 1] \in Int /\ amounts[N] > 0 /\ amounts[N] \in Nat
    BY <1>1, <1>2, <1>5, <1>7, <2>1 DEF Sums
  <2> QED
    BY <1>2, <2>2
<1> QED
  BY <1>6, <1>7

LEMMA SumOfSums ==
  \A p, q, r, s \in Int : (p + q) + (r + s) = (p + r) + (q + s)
OBVIOUS

LEMMA TotalAdd ==
  ASSUME NEW a \in Seq(Int), NEW b \in Seq(Int), NEW c \in Seq(Int),
         Len(a) = Len(c), Len(b) = Len(c), \A n \in 1 .. Len(c) : c[n] = a[n] + b[n]
  PROVE  Total(c) = Total(a) + Total(b)
<1> DEFINE N == Len(c)
<1>1. N \in Nat /\ \A n \in 1 .. N : a[n] \in Int /\ b[n] \in Int
  OBVIOUS
<1>2. PICK f \in [0 .. N -> Int] : Sums(f, a) /\ Total(a) = f[N]
  BY TotalIs
<1>3. PICK g \in [0 .. N -> Int] : Sums(g, b) /\ Total(b) = g[N]
  BY TotalIs
<1>4. PICK h \in [0 .. N -> Int] : Sums(h, c) /\ Total(c) = h[N]
  BY TotalIs
<1> DEFINE T == {n \in Nat : n <= N => h[n] = f[n] + g[n]}
<1>5. 0 \in T
  BY <1>2, <1>3, <1>4 DEF Sums
<1>6. ASSUME NEW n \in Nat, n \in T
      PROVE  n + 1 \in T
  <2> SUFFICES ASSUME n + 1 <= N
               PROVE  h[n + 1] = f[n + 1] + g[n + 1]
    OBVIOUS
  <2>1. n \in 0 .. N /\ n + 1 \in 1 .. N /\ (n + 1) - 1 = n /\ h[n] = f[n] + g[n]
    BY <1>1, <1>6
  <2>2. /\ f[n + 1] = f[n] + a[n + 1] /\ g[n + 1] = g[n] + b[n + 1]
        /\ h[n + 1] = h[n] + c[n + 1] /\ c[n + 1] = a[n + 1] + b[n + 1]
    BY <1>2, <1>3, <1>4, <2>1 DEF Sums
  <2>3. f[n] \in Int /\ g[n] \in Int /\ a[n + 1] \in Int /\ b[n + 1] \in Int
    BY <1>1, <1>2, <1>3, <2>1
  <2>4. h[n + 1] = (f[n] + g[n]) + (a[n + 1] + b[n + 1])
    BY <2>1, <2>2
  <2>5. (f[n] + g[n]) + (a[n + 1] + b[n + 1]) = (f[n] + a[n + 1]) + (g[n] + b[n + 1])
    <3> DEFINE p == f[n]
               q == g[n]
               r == a[n + 1]
               s == b[n + 1]
    <3>1. p \in Int /\ q \in Int /\ r \in Int /\ s \in Int
      BY <2>3
    <3> HIDE DEF p, q, r, s
    <3>2. (p + q) + (r + s) = (p + r) + (q + s)
      BY <3>1, SumOfSums
    <3> QED
      BY <3>2 DEF p, q, r, s
  <2> QED
    BY <2>2, <2>4, <2>5
<1>7. N \in T
  <2> HIDE DEF T
  <2> QED
    BY <1>1, <1>5, <1>6, Induct
<1> QED
  BY <1>1, <1>2, <1>3, <1>4, <1>7

(* Lists that agree as far as the shorter goes. *)
LEMMA TotalAppend ==
  ASSUME NEW a \in Seq(Int), NEW c \in Seq(Int), Len(c) = Len(a) + 1,
         \A n \in 1 .. Len(a) : c[n] = a[n]
  PROVE  Total(c) = Total(a) + c[Len(a) + 1]
<1> DEFINE N == Len(a)
<1>1. N \in Nat /\ \A n \in 1 .. N : a[n] \in Int
  OBVIOUS
<1>2. PICK f \in [0 .. N -> Int] : Sums(f, a) /\ Total(a) = f[N]
  BY TotalIs
<1>3. PICK h \in [0 .. N + 1 -> Int] : Sums(h, c) /\ Total(c) = h[N + 1]
  BY TotalIs
<1> DEFINE T == {n \in Nat : n <= N => h[n] = f[n]}
<1>4. 0 \in T
  BY <1>2, <1>3 DEF Sums
<1>5. ASSUME NEW n \in Nat, n \in T
      PROVE  n + 1 \in T
  <2> SUFFICES ASSUME n + 1 <= N
               PROVE  h[n + 1] = f[n + 1]
    OBVIOUS
  <2>1. n + 1 \in 1 .. N /\ n + 1 \in 1 .. N + 1 /\ (n + 1) - 1 = n /\ h[n] = f[n]
    BY <1>1, <1>5
  <2>2. f[n + 1] = f[n] + a[n + 1] /\ h[n + 1] = h[n] + c[n + 1] /\ c[n + 1] = a[n + 1]
    BY <1>2, <1>3, <2>1 DEF Sums
  <2> QED
    BY <2>1, <2>2
<1>6. N \in T
  <2> HIDE DEF T
  <2> QED
    BY <1>1, <1>4, <1>5, Induct
<1>7. h[N] = f[N]
  BY <1>1, <1>6
<1>8. N + 1 \in 1 .. N + 1 /\ (N + 1) - 1 = N
  BY <1>1
<1>9. h[N + 1] = h[N] + c[N + 1]
  BY <1>3, <1>8 DEF Sums
<1> QED
  BY <1>2, <1>3, <1>7, <1>9

(* Shares of an amount, each rounded down, do not exceed it. *)
LEMMA ProductsGrow ==
  ASSUME NEW d \in Nat, NEW e \in Nat, NEW x \in Nat, NEW y \in Nat,
         NEW u \in Nat, NEW v \in Nat, d * x <= e * u, d * y <= e * v
  PROVE  d * (x + y) <= e * (u + v)
<1>1. d * (x + y) = d * x + d * y /\ e * (u + v) = e * u + e * v
  OBVIOUS
<1>2. d * x \in Nat /\ d * y \in Nat /\ e * u \in Nat /\ e * v \in Nat
  OBVIOUS
<1> QED
  BY <1>1, <1>2

LEMMA ProductMonotone ==
  ASSUME NEW d \in Nat, NEW x \in Nat, NEW y \in Nat, x <= y
  PROVE  d * x \in Nat /\ d * y \in Nat /\ d * x <= d * y
<1>1. PICK k \in Nat : y = x + k
  <2>1. y - x \in Nat /\ y = x + (y - x)
    OBVIOUS
  <2> QED
    BY <2>1
<1>2. d * (x + k) = d * x + d * k
  OBVIOUS
<1>3. d * x \in Nat /\ d * k \in Nat
  OBVIOUS
<1> QED
  BY <1>1, <1>2, <1>3

LEMMA SharesWithin ==
  ASSUME NEW share \in Seq(Nat), NEW weights \in Seq(Nat), NEW whole \in Nat,
         Len(weights) = Len(share) + 1, Total(weights) > 0,
         \A n \in 1 .. Len(share) : Total(weights) * share[n] <= whole * weights[n]
  PROVE  Total(share) \in Nat /\ Total(share) <= whole
<1> DEFINE N == Len(share)
           D == Total(weights)
<1>1. /\ N \in Nat /\ D \in Nat
      /\ \A n \in 1 .. N : share[n] \in Nat /\ weights[n] \in Nat
      /\ weights[N + 1] \in Nat
  <2>1. D \in Nat
    BY TotalOfNaturals
  <2>2. N \in Nat /\ \A n \in 1 .. N : share[n] \in Nat
    OBVIOUS
  <2>3. \A n \in 1 .. N + 1 : weights[n] \in Nat
    OBVIOUS
  <2> HIDE DEF D, N
  <2> QED
    BY <2>1, <2>2, <2>3
<1> HIDE DEF D
<1>2. PICK f \in [0 .. N -> Int] : Sums(f, share) /\ Total(share) = f[N]
  BY TotalIs
<1>3. PICK g \in [0 .. N + 1 -> Int] : Sums(g, weights) /\ D = g[N + 1]
  BY TotalIs DEF D
<1> DEFINE T == {n \in Nat : n <= N => f[n] \in Nat /\ g[n] \in Nat /\ D * f[n] <= whole * g[n]}
<1>4. 0 \in T
  <2>1. f[0] = 0 /\ g[0] = 0
    BY <1>2, <1>3 DEF Sums
  <2>2. D * 0 <= whole * 0
    BY <1>1
  <2> QED
    BY <2>1, <2>2
<1>5. ASSUME NEW n \in Nat, n \in T
      PROVE  n + 1 \in T
  <2> SUFFICES ASSUME n + 1 <= N
               PROVE  f[n + 1] \in Nat /\ g[n + 1] \in Nat /\ D * f[n + 1] <= whole * g[n + 1]
    OBVIOUS
  <2>1. n + 1 \in 1 .. N /\ n + 1 \in 1 .. N + 1 /\ (n + 1) - 1 = n
    BY <1>1
  <2>2. f[n] \in Nat /\ g[n] \in Nat /\ D * f[n] <= whole * g[n]
    BY <1>1, <1>5
  <2>3. /\ f[n + 1] = f[n] + share[n + 1] /\ g[n + 1] = g[n] + weights[n + 1]
        /\ share[n + 1] \in Nat /\ weights[n + 1] \in Nat
    BY <1>1, <1>2, <1>3, <2>1 DEF Sums
  <2>4. D * share[n + 1] <= whole * weights[n + 1]
    BY <2>1 DEF D
  <2>5. D * (f[n] + share[n + 1]) <= whole * (g[n] + weights[n + 1])
    BY <1>1, <2>2, <2>3, <2>4, ProductsGrow
  <2>6. f[n] + share[n + 1] \in Nat /\ g[n] + weights[n + 1] \in Nat
    <3>1. \A x, y \in Nat : x + y \in Nat
      OBVIOUS
    <3> QED
      BY <2>2, <2>3, <3>1, Zenon
  <2> QED
    BY <2>3, <2>5, <2>6
<1>6. N \in T
  <2> HIDE DEF T
  <2> QED
    BY <1>1, <1>4, <1>5, Induct
<1>7. f[N] \in Nat /\ g[N] \in Nat /\ D * f[N] <= whole * g[N]
  BY <1>1, <1>6
<1>8. g[N] <= D
  <2>1. N + 1 \in 1 .. N + 1 /\ (N + 1) - 1 = N
    BY <1>1
  <2>2. D = g[N] + weights[N + 1]
    BY <1>3, <2>1 DEF Sums
  <2> QED
    BY <1>1, <1>7, <2>2
<1>9. f[N] <= whole
  <2>1. whole * g[N] <= whole * D
    BY <1>1, <1>7, <1>8, ProductMonotone
  <2>2. D > 0
    BY DEF D
  <2>3. ASSUME f[N] >= whole + 1 PROVE FALSE
    <3>1. D * (whole + 1) <= D * f[N]
      <4>1. whole + 1 \in Nat /\ whole + 1 <= f[N]
        BY <2>3
      <4> QED
        BY <1>1, <1>7, <4>1, ProductMonotone
    <3>2. D * (whole + 1) = whole * D + D /\ whole * D \in Nat
      BY <1>1
    <3>3. D * f[N] \in Nat /\ whole * g[N] \in Nat
      BY <1>1, <1>7
    <3> QED
      BY <1>1, <1>7, <2>1, <2>2, <3>1, <3>2, <3>3
  <2> QED
    BY <1>7, <2>3
<1> QED
  BY <1>2, <1>7, <1>9

-----------------------------------------------------------------------------
(* The division of the cash. *)

LEMMA AsList ==
  ASSUME NEW S, NEW n \in Nat, NEW f \in [1 .. n -> S]
  PROVE  f \in Seq(S) /\ Len(f) = n /\ DOMAIN f = 1 .. n
OBVIOUS

LEMMA DivisionIs ==
  ASSUME NEW x \in Nat, NEW d \in Nat, d > 0
  PROVE  x \div d \in Nat /\ d * (x \div d) <= x
<1> DEFINE q == x \div d
           r == x % d
<1>1. q \in Int /\ r \in 0 .. d - 1 /\ x = d * q + r
  OBVIOUS
<1>2. q >= 0
  OBVIOUS
<1> QED
  BY <1>1, <1>2

LEMMA MinimumIsNatural ==
  ASSUME NEW s \in Stocks
  PROVE  MinimumInvestment(s) \in Nat
<1>1. Price[s] \in Nat /\ FirstBuyPct \in Nat /\ FirstBuyPct > 0
  BY ScanSelectionAssumption
<1>2. Price[s] * 100 + FirstBuyPct - 1 \in Nat
  BY <1>1
<1> QED
  BY <1>1, <1>2, DivisionIs DEF MinimumInvestment

LEMMA MinimumsAre ==
  ASSUME NEW chosen \in Seq(Stocks)
  PROVE  /\ Minimums(chosen) \in Seq(Nat) /\ Len(Minimums(chosen)) = Len(chosen)
         /\ \A n \in 1 .. Len(chosen) : Minimums(chosen)[n] = MinimumInvestment(chosen[n])
<1>1. DOMAIN chosen = 1 .. Len(chosen) /\ Len(chosen) \in Nat
  OBVIOUS
<1>2. \A n \in 1 .. Len(chosen) : chosen[n] \in Stocks
  OBVIOUS
<1>3. Minimums(chosen) = [n \in 1 .. Len(chosen) |-> MinimumInvestment(chosen[n])]
  BY <1>1 DEF Minimums
<1>4. Minimums(chosen) \in [1 .. Len(chosen) -> Nat]
  BY <1>2, <1>3, MinimumIsNatural
<1> QED
  BY <1>1, <1>3, <1>4, AsList

LEMMA LeftOverType ==
  ASSUME NEW budget \in Int, NEW chosen \in Seq(Stocks)
  PROVE  LeftOver(budget, chosen) \in Int
<1>1. Total(Minimums(chosen)) \in Nat
  BY MinimumsAre, TotalOfNaturals
<1> QED
  BY <1>1 DEF LeftOver

(* One more stock leaves its minimum less. *)
LEMMA LeftOverAppend ==
  ASSUME NEW budget \in Int, NEW chosen \in Seq(Stocks), NEW s \in Stocks
  PROVE  LeftOver(budget, Append(chosen, s)) = LeftOver(budget, chosen) - MinimumInvestment(s)
<1> DEFINE grown == Append(chosen, s)
           a == Minimums(chosen)
           c == Minimums(grown)
<1>1. grown \in Seq(Stocks) /\ Len(grown) = Len(chosen) + 1 /\ Len(chosen) \in Nat
  OBVIOUS
<1>2. /\ a \in Seq(Nat) /\ Len(a) = Len(chosen)
      /\ \A n \in 1 .. Len(chosen) : a[n] = MinimumInvestment(chosen[n])
  BY MinimumsAre
<1>3. /\ c \in Seq(Nat) /\ Len(c) = Len(chosen) + 1
      /\ \A n \in 1 .. Len(chosen) + 1 : c[n] = MinimumInvestment(grown[n])
  BY <1>1, MinimumsAre
<1>4. \A n \in 1 .. Len(chosen) : n \in 1 .. Len(chosen) + 1 /\ grown[n] = chosen[n]
  BY <1>1
<1>5. Len(chosen) + 1 \in 1 .. Len(chosen) + 1 /\ grown[Len(chosen) + 1] = s
  BY <1>1
<1> HIDE DEF a, c, grown
<1>6. a \in Seq(Int) /\ c \in Seq(Int)
  BY <1>2, <1>3
<1>7. Total(c) = Total(a) + c[Len(a) + 1]
  <2>1. \A n \in 1 .. Len(a) : c[n] = a[n]
    BY <1>2, <1>3, <1>4
  <2>2. Len(c) = Len(a) + 1
    BY <1>2, <1>3
  <2> QED
    BY <1>6, <2>1, <2>2, TotalAppend
<1>8. c[Len(a) + 1] = MinimumInvestment(s)
  BY <1>2, <1>3, <1>5
<1>9. Total(a) \in Int /\ MinimumInvestment(s) \in Int
  BY <1>6, TotalType, MinimumIsNatural
<1> QED
  BY <1>7, <1>8, <1>9 DEF LeftOver, a, c, grown

(* Affordable is a selection too. *)
Afforded(budget, candidates) ==
    {e \in Seq(Stocks) \X (1 .. Len(candidates)) :
        MinimumInvestment(candidates[e[2]]) <= LeftOver(budget, e[1])}

LEMMA AffordableSelects ==
  ASSUME NEW budget, NEW candidates \in Seq(Stocks)
  PROVE  \E f \in [0 .. Len(candidates) -> Seq(Stocks)] :
            /\ Selects(f, candidates, Afforded(budget, candidates))
            /\ Affordable(budget, candidates) = f[Len(candidates)]
<1> DEFINE N == Len(candidates)
           A == Afforded(budget, candidates)
           chosen[n \in 0 .. N] ==
             IF n = 0 THEN <<>>
             ELSE With(chosen[n - 1], candidates[n],
                       MinimumInvestment(candidates[n]) <= LeftOver(budget, chosen[n - 1]))
<1> HIDE DEF chosen
<1>1. N \in Nat /\ \A n \in 1 .. N : candidates[n] \in Stocks
  OBVIOUS
<1>2. PICK f \in [0 .. N -> Seq(Stocks)] : Selects(f, candidates, A)
  <2> HIDE DEF A
  <2> QED
    BY Selection
<1>3. f = [n \in 0 .. N |->
             IF n = 0 THEN <<>>
             ELSE With(f[n - 1], candidates[n],
                       MinimumInvestment(candidates[n]) <= LeftOver(budget, f[n - 1]))]
  <2>1. ASSUME NEW n \in 1 .. N
        PROVE  f[n] = With(f[n - 1], candidates[n],
                           MinimumInvestment(candidates[n]) <= LeftOver(budget, f[n - 1]))
    <3>1. f[n - 1] \in Seq(Stocks)
      BY <1>1
    <3>2. <<f[n - 1], n>> \in A <=> MinimumInvestment(candidates[n]) <= LeftOver(budget, f[n - 1])
      BY <3>1 DEF Afforded
    <3> QED
      BY <1>2, <3>2 DEF Selects, With
  <2> QED
    BY <1>1, <1>2, <2>1 DEF Selects
<1>4. chosen = [n \in 0 .. N |->
                  IF n = 0 THEN <<>>
                  ELSE With(chosen[n - 1], candidates[n],
                            MinimumInvestment(candidates[n]) <= LeftOver(budget, chosen[n - 1]))]
  <2> HIDE DEF N, A
  <2> QED
    BY <1>3 DEF chosen
<1>5. chosen = f
  <2> DEFINE T == {n \in Nat : n <= N => chosen[n] = f[n]}
  <2>1. 0 \in T
    BY <1>1, <1>3, <1>4
  <2>2. ASSUME NEW n \in Nat, n \in T
        PROVE  n + 1 \in T
    <3> SUFFICES ASSUME n + 1 <= N
                 PROVE  chosen[n + 1] = f[n + 1]
      OBVIOUS
    <3>1. n + 1 \in 0 .. N /\ n + 1 # 0 /\ (n + 1) - 1 = n /\ chosen[n] = f[n]
      BY <1>1, <2>2
    <3>2. chosen[n + 1] = With(chosen[n], candidates[n + 1],
                               MinimumInvestment(candidates[n + 1]) <= LeftOver(budget, chosen[n]))
      BY <1>4, <3>1
    <3>3. f[n + 1] = With(f[n], candidates[n + 1],
                          MinimumInvestment(candidates[n + 1]) <= LeftOver(budget, f[n]))
      BY <1>3, <3>1
    <3> QED
      BY <3>1, <3>2, <3>3
  <2>3. \A n \in Nat : n \in T
    <3> HIDE DEF T
    <3> QED
      BY <2>1, <2>2, Induct
  <2>4. \A n \in 0 .. N : chosen[n] = f[n]
    BY <2>3
  <2> QED
    BY <1>1, <1>4, <2>4
<1>6. Affordable(budget, candidates) = f[N]
  <2>1. Affordable(budget, candidates) = chosen[N]
    BY DEF Affordable, chosen
  <2> QED
    BY <1>5, <2>1
<1> QED
  BY <1>2, <1>6

(* The minimums of the chosen stocks are within the budget. *)
LEMMA AffordableFits ==
  ASSUME NEW budget \in Nat, NEW candidates \in Seq(Stocks)
  PROVE  /\ Affordable(budget, candidates) \in Seq(Stocks)
         /\ Range(Affordable(budget, candidates)) \subseteq Range(candidates)
         /\ LeftOver(budget, Affordable(budget, candidates)) \in Nat
<1> DEFINE N == Len(candidates)
           A == Afforded(budget, candidates)
<1>1. PICK f \in [0 .. N -> Seq(Stocks)] :
            /\ Selects(f, candidates, A)
            /\ Affordable(budget, candidates) = f[N]
  BY AffordableSelects
<1>2. N \in Nat /\ \A n \in 1 .. N : candidates[n] \in Stocks
  OBVIOUS
<1> DEFINE T == {n \in Nat : n <= N => LeftOver(budget, f[n]) \in Nat}
<1>3. 0 \in T
  <2>1. f[0] = <<>>
    BY <1>1 DEF Selects
  <2>2. Minimums(<<>>) \in Seq(Int) /\ Len(Minimums(<<>>)) = 0
    <3>1. <<>> \in Seq(Stocks) /\ Len(<<>>) = 0
      OBVIOUS
    <3>2. Minimums(<<>>) \in Seq(Nat) /\ Len(Minimums(<<>>)) = 0
      BY <3>1, MinimumsAre
    <3> QED
      BY <3>2
  <2>3. PICK g \in [0 .. 0 -> Int] : Sums(g, Minimums(<<>>)) /\ Total(Minimums(<<>>)) = g[0]
    BY <2>2, TotalIs
  <2>4. Total(Minimums(<<>>)) = 0
    BY <2>3 DEF Sums
  <2> QED
    BY <2>1, <2>4 DEF LeftOver
<1>4. ASSUME NEW n \in Nat, n \in T
      PROVE  n + 1 \in T
  <2> SUFFICES ASSUME n + 1 <= N
               PROVE  LeftOver(budget, f[n + 1]) \in Nat
    OBVIOUS
  <2>1. n + 1 \in 1 .. N /\ n \in 0 .. N /\ (n + 1) - 1 = n
    BY <1>2
  <2>2. f[n] \in Seq(Stocks) /\ candidates[n + 1] \in Stocks /\ LeftOver(budget, f[n]) \in Nat
    BY <1>2, <1>4, <2>1
  <2>3. f[n + 1] = With(f[n], candidates[n + 1], <<f[n], n + 1>> \in A)
    BY <1>1, <2>1 DEF Selects
  <2>4. CASE <<f[n], n + 1>> \in A
    <3>1. MinimumInvestment(candidates[n + 1]) <= LeftOver(budget, f[n])
      BY <2>4 DEF Afforded
    <3>2. f[n + 1] = Append(f[n], candidates[n + 1])
      BY <2>3, <2>4 DEF With
    <3>3. LeftOver(budget, f[n + 1]) = LeftOver(budget, f[n]) - MinimumInvestment(candidates[n + 1])
      BY <2>2, <3>2, LeftOverAppend
    <3>4. MinimumInvestment(candidates[n + 1]) \in Nat
      BY <2>2, MinimumIsNatural
    <3> QED
      BY <2>2, <3>1, <3>3, <3>4
  <2>5. CASE <<f[n], n + 1>> \notin A
    <3>1. f[n + 1] = f[n]
      BY <2>3, <2>5 DEF With
    <3> QED
      BY <2>2, <3>1
  <2> QED
    BY <2>4, <2>5
<1>5. N \in T
  <2> HIDE DEF T
  <2> QED
    BY <1>2, <1>3, <1>4, Induct
<1>6. f[N] \in Seq(Stocks) /\ Range(f[N]) \subseteq Range(candidates)
  BY <1>1, <1>2, SelectsPart
<1> QED
  BY <1>1, <1>2, <1>5, <1>6

(* The inverse volatility over the common denominator is a positive whole number. *)
LEMMA InverseIsPositive ==
  ASSUME NEW chosen \in Seq(Stocks), NEW i
  PROVE  InverseVolatility(chosen, i) \in Nat \ {0}
<1> DEFINE N == Len(chosen)
           X == Nat \ {0}
           factor(n) == IF n = i THEN 1 ELSE Volatility[chosen[n]]
           G == [p \in X \X (1 .. N) |-> p[1] * factor(p[2])]
           product[n \in 0 .. N] ==
             IF n = 0 THEN 1 ELSE product[n - 1] * (IF n = i THEN 1 ELSE Volatility[chosen[n]])
<1> HIDE DEF product
<1>1. N \in Nat /\ \A n \in 1 .. N : chosen[n] \in Stocks
  OBVIOUS
<1>2. \A n \in 1 .. N : factor(n) \in X
  BY <1>1, ScanSelectionAssumption
<1>3. \A x, y \in X : x * y \in X
  OBVIOUS
<1>4. G \in [X \X (1 .. N) -> X]
  <2> HIDE DEF factor, X, N
  <2> QED
    BY <1>2, <1>3
<1>5. PICK f \in [0 .. N -> X] : Iterates(f, 1, N, G)
  <2>1. N \in Nat /\ 1 \in X
    BY <1>1
  <2> HIDE DEF G, N, X
  <2> QED
    BY <2>1, <1>4, Recursion
<1>6. ASSUME NEW n \in 1 .. N
      PROVE  f[n] = f[n - 1] * factor(n)
  <2>1. f[n - 1] \in X
    <3>1. n - 1 \in 0 .. N
      BY <1>1
    <3> HIDE DEF N, X
    <3> QED
      BY <1>5, <3>1
  <2>2. f[n] = G[<<f[n - 1], n>>]
    BY <1>5 DEF Iterates
  <2> HIDE DEF X, N, factor
  <2> QED
    BY <2>1, <2>2
<1>7. f[0] = 1
  BY <1>5 DEF Iterates
<1>8. f = [n \in 0 .. N |->
             IF n = 0 THEN 1 ELSE f[n - 1] * (IF n = i THEN 1 ELSE Volatility[chosen[n]])]
  <2>1. \A n \in 0 .. N : n = 0 \/ n \in 1 .. N
    BY <1>1
  <2> HIDE DEF X, N, G
  <2> QED
    BY <1>5, <1>6, <1>7, <2>1, Zenon
<1>9. product = [n \in 0 .. N |->
                   IF n = 0 THEN 1
                   ELSE product[n - 1] * (IF n = i THEN 1 ELSE Volatility[chosen[n]])]
  <2> HIDE DEF N, X, G, factor
  <2> QED
    BY <1>8 DEF product
<1> DEFINE T == {n \in Nat : n <= N => product[n] \in X}
<1>10. 0 \in T
  BY <1>1, <1>9
<1>11. ASSUME NEW n \in Nat, n \in T
       PROVE  n + 1 \in T
  <2> SUFFICES ASSUME n + 1 <= N
               PROVE  product[n + 1] \in X
    OBVIOUS
  <2>1. n + 1 \in 0 .. N /\ n + 1 # 0 /\ (n + 1) - 1 = n /\ n + 1 \in 1 .. N /\ product[n] \in X
    BY <1>1, <1>11
  <2>2. product[n + 1] = product[n] * factor(n + 1)
    BY <1>9, <2>1
  <2> HIDE DEF factor, X, N
  <2> QED
    BY <1>2, <1>3, <2>1, <2>2
<1>12. N \in T
  <2> HIDE DEF T
  <2> QED
    BY <1>1, <1>10, <1>11, Induct
<1>13. InverseVolatility(chosen, i) = product[N]
  BY DEF InverseVolatility, product
<1> QED
  BY <1>1, <1>12, <1>13

(* Every weight is a positive whole number. *)
LEMMA WeightsArePositive ==
  ASSUME NEW chosen \in Seq(Stocks), Len(chosen) > 0
  PROVE  /\ Weights(chosen) \in Seq(Nat) /\ Len(Weights(chosen)) = Len(chosen)
         /\ \A n \in 1 .. Len(chosen) : Weights(chosen)[n] > 0
         /\ Total(Weights(chosen)) \in Nat /\ Total(Weights(chosen)) > 0
<1> DEFINE N == Len(chosen)
           inverse == [i \in DOMAIN chosen |-> InverseVolatility(chosen, i)]
           mean == Total(inverse)
           weight(i) == Max({mean, Min({4 * mean, 2 * Len(chosen) * inverse[i]})})
<1>1. N \in Nat /\ DOMAIN chosen = 1 .. N /\ N > 0
  OBVIOUS
<1>2. \A i \in 1 .. N : inverse[i] \in Nat /\ inverse[i] > 0
  BY <1>1, InverseIsPositive
<1>3. inverse \in [1 .. N -> Nat]
  BY <1>1, <1>2
<1>4. inverse \in Seq(Nat) /\ Len(inverse) = N
  <2> HIDE DEF inverse, N
  <2> QED
    BY <1>1, <1>3, AsList
<1>5. mean \in Nat /\ mean > 0
  <2> HIDE DEF inverse, N
  <2> QED
    BY <1>1, <1>2, <1>4, TotalOfNaturals
<1>6. ASSUME NEW i \in 1 .. N
      PROVE  weight(i) \in Nat /\ weight(i) > 0
  <2> DEFINE x == 4 * mean
             y == 2 * Len(chosen) * inverse[i]
             m == Min({x, y})
  <2>1. x \in Int /\ y \in Int /\ mean \in Int
    <3>1. inverse[i] \in Nat
      BY <1>2
    <3> HIDE DEF inverse, mean
    <3> QED
      BY <1>1, <1>5, <3>1
  <2> HIDE DEF x, y, mean
  <2>2. m = x \/ m = y
    BY <2>1, MinOfTwo, Zenon
  <2>3. m \in Int
    BY <2>1, <2>2
  <2> HIDE DEF m
  <2>4. (Max({mean, m}) = mean \/ Max({mean, m}) = m) /\ Max({mean, m}) >= mean
    BY <2>1, <2>3, MaxOfTwo, Zenon
  <2>5. Max({mean, m}) \in Nat /\ Max({mean, m}) > 0
    BY <1>5, <2>1, <2>3, <2>4
  <2> QED
    BY <2>5 DEF m, x, y, mean
<1>7. Weights(chosen) = [i \in 1 .. N |-> weight(i)]
  <2> HIDE DEF N
  <2> QED
    BY <1>1 DEF Weights
<1> HIDE DEF weight
<1>8. Weights(chosen) \in [1 .. N -> Nat] /\ \A n \in 1 .. N : Weights(chosen)[n] > 0
  BY <1>6, <1>7
<1>9. Weights(chosen) \in Seq(Nat) /\ Len(Weights(chosen)) = N
  BY <1>1, <1>8, AsList
<1> QED
  BY <1>1, <1>8, <1>9, TotalOfNaturals

(* The rest of the budget is divided without a remainder, and nobody's share is negative. *)
LEMMA WeightedIsExact ==
  ASSUME NEW chosen \in Seq(Stocks), Len(chosen) > 0, NEW budget \in Nat
  PROVE  /\ WeightedInvestments(chosen, budget) \in Seq(Nat)
         /\ Len(WeightedInvestments(chosen, budget)) = Len(chosen)
         /\ Total(WeightedInvestments(chosen, budget)) = budget
<1> DEFINE N == Len(chosen)
           weights == Weights(chosen)
           D == Total(weights)
           share == [i \in 1 .. N - 1 |-> (budget * weights[i]) \div D]
           all == [i \in DOMAIN chosen |-> IF i < N THEN share[i] ELSE budget - Total(share)]
<1>1. N \in Nat /\ N > 0 /\ N - 1 \in Nat /\ DOMAIN chosen = 1 .. N
  OBVIOUS
<1>2. /\ weights \in Seq(Nat) /\ Len(weights) = N
      /\ D \in Nat /\ D > 0
  BY WeightsArePositive
<1>3. WeightedInvestments(chosen, budget) = all
  BY DEF WeightedInvestments
<1> HIDE DEF weights
<1>4. \A i \in 1 .. N : weights[i] \in Nat
  BY <1>2
<1> HIDE DEF N, D
<1>5. \A i \in 1 .. N - 1 : share[i] \in Nat /\ D * share[i] <= budget * weights[i]
  <2> TAKE i \in 1 .. N - 1
  <2>1. weights[i] \in Nat
    BY <1>1, <1>4
  <2>2. budget * weights[i] \in Nat
    BY <2>1
  <2>3. share[i] = (budget * weights[i]) \div D
    OBVIOUS
  <2> HIDE DEF share
  <2> QED
    BY <1>2, <2>2, <2>3, DivisionIs
<1>6. share \in [1 .. N - 1 -> Nat]
  BY <1>5
<1>7. share \in Seq(Nat) /\ Len(share) = N - 1
  <2> HIDE DEF share
  <2> QED
    BY <1>1, <1>6, AsList
<1> HIDE DEF share
<1>8. Total(share) \in Nat /\ Total(share) <= budget
  <2>1. Len(weights) = Len(share) + 1
    BY <1>1, <1>2, <1>7
  <2>2. \A n \in 1 .. Len(share) : Total(weights) * share[n] <= budget * weights[n]
    BY <1>5, <1>7 DEF D
  <2> QED
    BY <1>2, <1>7, <2>1, <2>2, SharesWithin DEF D
<1>9. all \in [1 .. N -> Nat]
  <2>1. \A i \in 1 .. N : i < N => i \in 1 .. N - 1
    BY <1>1
  <2>2. budget - Total(share) \in Nat
    BY <1>8
  <2> QED
    BY <1>1, <1>5, <2>1, <2>2
<1>10. /\ all[N] = budget - Total(share)
       /\ \A n \in 1 .. N - 1 : all[n] = share[n]
  <2>1. N \in 1 .. N /\ ~(N < N)
    BY <1>1
  <2>2. \A n \in 1 .. N - 1 : n \in 1 .. N /\ n < N
    BY <1>1
  <2> QED
    BY <1>1, <2>1, <2>2
<1> HIDE DEF all
<1>11. all \in Seq(Nat) /\ Len(all) = N
  BY <1>1, <1>9, AsList
<1>12. Total(all) = Total(share) + all[Len(share) + 1]
  <2>1. all \in Seq(Int) /\ share \in Seq(Int)
    BY <1>7, <1>11
  <2>2. Len(all) = Len(share) + 1
    BY <1>1, <1>7, <1>11
  <2>3. \A n \in 1 .. Len(share) : all[n] = share[n]
    BY <1>7, <1>10
  <2> QED
    BY <2>1, <2>2, <2>3, TotalAppend
<1>13. Total(all) = budget
  <2>1. all[Len(share) + 1] = budget - Total(share)
    BY <1>1, <1>7, <1>10
  <2> QED
    BY <1>8, <1>12, <2>1
<1> QED
  BY <1>3, <1>11, <1>13 DEF N

LEMMA InvestmentsAreExact ==
  ASSUME NEW chosen \in Seq(Stocks), Len(chosen) > 0, NEW budget \in Nat,
         LeftOver(budget, chosen) \in Nat
  PROVE  /\ Investments(chosen, budget) \in Seq(Nat)
         /\ Total(Investments(chosen, budget)) = budget
<1> DEFINE N == Len(chosen)
           a == Minimums(chosen)
           b == WeightedInvestments(chosen, LeftOver(budget, chosen))
           c == Investments(chosen, budget)
<1>1. N \in Nat /\ DOMAIN chosen = 1 .. N
  OBVIOUS
<1>2. /\ a \in Seq(Nat) /\ Len(a) = N
      /\ \A n \in 1 .. N : a[n] = MinimumInvestment(chosen[n])
  BY MinimumsAre
<1>3. b \in Seq(Nat) /\ Len(b) = N /\ Total(b) = LeftOver(budget, chosen)
  BY WeightedIsExact
<1>4. c = [n \in 1 .. N |-> MinimumInvestment(chosen[n]) + b[n]]
  BY <1>1 DEF Investments
<1> HIDE DEF a, b, c, N
<1>5. \A n \in 1 .. N : a[n] \in Nat /\ b[n] \in Nat
  BY <1>2, <1>3
<1>6. \A n \in 1 .. N : c[n] = a[n] + b[n] /\ c[n] \in Nat
  <2>1. \A x, y \in Nat : x + y \in Nat
    OBVIOUS
  <2> QED
    BY <1>2, <1>4, <1>5, <2>1
<1>7. c \in [1 .. N -> Nat]
  BY <1>4, <1>6
<1>8. c \in Seq(Nat) /\ Len(c) = N
  BY <1>1, <1>7, AsList DEF N
<1>9. Total(c) = Total(a) + Total(b)
  <2>1. a \in Seq(Int) /\ b \in Seq(Int) /\ c \in Seq(Int)
    BY <1>2, <1>3, <1>8
  <2>2. Len(a) = Len(c) /\ Len(b) = Len(c) /\ \A n \in 1 .. Len(c) : c[n] = a[n] + b[n]
    BY <1>2, <1>3, <1>6, <1>8
  <2> QED
    BY <2>1, <2>2, TotalAdd
<1>10. Total(a) \in Nat /\ LeftOver(budget, chosen) = budget - Total(a)
  BY <1>2, TotalOfNaturals DEF LeftOver, a
<1> QED
  BY <1>3, <1>8, <1>9, <1>10 DEF c

LEMMA BudgetWithinCash ==
  ASSUME NEW cash \in Nat, NEW scaling, scaling \in Regimes \cup {NoScaling}
  PROVE  AllocatedBudget(cash, scaling) \in Nat /\ AllocatedBudget(cash, scaling) <= cash
<1>1. scaling.amount \in Nat
  <2>1. CASE scaling = NoScaling
    BY <2>1 DEF NoScaling
  <2>2. CASE scaling \in Regimes
    BY <2>2, SessionRegistryAssumption
  <2> QED
    BY <2>1, <2>2
<1> DEFINE pct == Max({AmountFloor, scaling.amount})
           scaled == RoundPct(cash, pct)
<1>2. pct \in Nat
  <2>1. AmountFloor \in Nat /\ AmountFloor \in Int /\ scaling.amount \in Int
    BY <1>1, ScanSelectionAssumption
  <2> DEFINE y == scaling.amount
  <2> HIDE DEF y
  <2>2. Max({AmountFloor, y}) = AmountFloor \/ Max({AmountFloor, y}) = y
    BY <2>1, MaxOfTwo, Zenon DEF y
  <2> QED
    BY <1>1, <2>1, <2>2 DEF y
<1> HIDE DEF pct
<1>3. scaled \in Nat
  <2>1. cash * pct \in Nat
    BY <1>2
  <2>2. cash * pct + 50 \in Nat
    BY <2>1
  <2> QED
    BY <2>2, DivisionIs DEF RoundPct
<1> HIDE DEF scaled
<1>4. (Min({cash, scaled}) = cash \/ Min({cash, scaled}) = scaled) /\ Min({cash, scaled}) <= cash
  <2>1. cash \in Int /\ scaled \in Int
    BY <1>3
  <2> QED
    BY <2>1, MinOfTwo, Zenon
<1>5. Min({cash, scaled}) \in Nat /\ Min({cash, scaled}) <= cash
  BY <1>3, <1>4
<1>6. AllocatedBudget(cash, scaling) = IF scaling.on THEN Min({cash, scaled}) ELSE cash
  BY DEF AllocatedBudget, scaled, pct
<1> QED
  BY <1>5, <1>6

-----------------------------------------------------------------------------
(***************************************************************************)
(* The strengthening.  A writer's command says what it is about; the       *)
(* scanner writes only while its result is applied.  Nothing the scan      *)
(* decided names a manual session: neither the rows it deletes or resumes, *)
(* nor, because a row keeps its stock and an id in use is not given again, *)
(* the stocks it starts.  What the scan has opened and may still open only *)
(* shrinks, and was within the limits when it was picked.                  *)
(***************************************************************************)
CommandsOK ==
    \A w \in Writers :
        /\ cmd[w].at = "idle" => cmd[w] = NoCommand
        /\ cmd[w].at \in {"check", "find", "create", "overwrite", "conflict"} => cmd[w].todo # <<>>
        /\ cmd[w].at \in {"write", "overwrite"} => cmd[w].id \in Ids /\ cmd[w].seen \in Row
        /\ cmd[w].at = "read" => w = Scanner /\ cmd[w].id \in Ids /\ cmd[w].op = "resume"
        /\ cmd[w].at = "write" => cmd[w].op \in Orders

ScannerWaits == scan.at # "apply" => cmd[Scanner] = NoCommand

ManualRowsSafe ==
    /\ scan.stale \cap scan.manual = {}
    /\ \A q \in scan.paused : q.id \notin scan.manual
    /\ Range(scan.resume) \cap scan.manual = {}
    /\ cmd[Scanner].at \in {"read", "write", "overwrite"} => cmd[Scanner].id \notin scan.manual
    /\ \A i \in scan.manual : row[i] # NoRow =>
         row[i].stock \notin Range(scan.picked) \cup Range(scan.start) \cup Range(cmd[Scanner].todo)

PausedKeepStock == \A q \in scan.paused : row[q.id] # NoRow => row[q.id].stock = q.stock

(* What a command of the scanner resumes. *)
Resuming ==
    {s \in Stocks :
        \/ cmd[Scanner].at \in {"read", "write"} /\ row[cmd[Scanner].id] # NoRow
             /\ s = row[cmd[Scanner].id].stock
        \/ cmd[Scanner].at = "write" /\ s = cmd[Scanner].seen.stock}

(* What the scan has opened, and what it may still open. *)
ToOpen ==
    scan.opened \cup Range(scan.picked) \cup Range(scan.start) \cup Range(cmd[Scanner].todo)
      \cup {row[i].stock : i \in {j \in Range(scan.resume) : row[j] # NoRow}} \cup Resuming

OpensWithinLimits ==
    scan.at \in {"picked", "apply"} => Spread(ToOpen, scan.base, scan.counted, scan.regime)

MoneyWithinCash == scan.at = "apply" => WithinCash

Safe ==
    /\ ScannerWaits
    /\ ManualRowsSafe
    /\ PausedKeepStock
    /\ OpensWithinLimits
    /\ MoneyWithinCash

-----------------------------------------------------------------------------

LEMMA RowFacts ==
  /\ NoRow \notin Row
  /\ \A r \in Row \cup {NoRow} : r.status # "none" <=> r # NoRow
  /\ \A r \in Row \cup {NoRow} : r.status = "active" => r \in Row
BY DEF Row, NoRow

LEMMA NoCommandIs ==
  /\ NoCommand \in CommandType
  /\ NoCommand.op = "none" /\ NoCommand.at = "idle" /\ NoCommand.id = 0 /\ NoCommand.todo = <<>>
BY DEF NoCommand, CommandType, Policies

LEMMA NoScanIs ==
  /\ NoScan \in ScanType
  /\ ScanEnded \in ScanType
<1>1. NoScan \in ScanType
  BY DEF NoScan, ScanType
<1> QED
  BY <1>1 DEF ScanEnded, ScanType

(* A flush of a row that was read keeps its stock. *)
LEMMA WrittenIs ==
  ASSUME NEW r \in Row \cup {NoRow}, NEW seen \in Row, NEW new \in Row, new.stock = seen.stock
  PROVE  /\ Written(r, seen, new) \in Row \cup {NoRow}
         /\ Written(r, seen, new) = NoRow <=> r = NoRow
         /\ r # NoRow => Written(r, seen, new).stock = r.stock
<1>1. CASE r = NoRow
  BY <1>1 DEF Written
<1>2. CASE r \in Row
  <2>1. r # NoRow
    BY <1>2, RowFacts
  <2>2. Written(r, seen, new) = [f \in DOMAIN r |-> IF new[f] # seen[f] THEN new[f] ELSE r[f]]
    BY <2>1 DEF Written
  <2>3. Written(r, seen, new) \in Row
    BY <1>2, <2>2 DEF Row
  <2>4. Written(r, seen, new).stock = r.stock
    BY <1>2, <2>2 DEF Row
  <2> QED
    BY <2>1, <2>3, <2>4, RowFacts
<1> QED
  BY <1>1, <1>2

LEMMA FlushedIs ==
  ASSUME RegistryTypeOK, NEW i \in Ids, NEW seen \in Row, NEW new \in Row, new.stock = seen.stock
  PROVE  /\ Flushed(i, seen, new) \in [Ids -> Row \cup {NoRow}]
         /\ \A j \in Ids : /\ Flushed(i, seen, new)[j] = NoRow <=> row[j] = NoRow
                           /\ row[j] # NoRow => Flushed(i, seen, new)[j].stock = row[j].stock
<1>1. Flushed(i, seen, new) = [row EXCEPT ![i] = Written(row[i], seen, new)]
  BY DEF Flushed
<1>2. row \in [Ids -> Row \cup {NoRow}] /\ row[i] \in Row \cup {NoRow}
  BY DEF RegistryTypeOK
<1>3. /\ Written(row[i], seen, new) \in Row \cup {NoRow}
      /\ Written(row[i], seen, new) = NoRow <=> row[i] = NoRow
      /\ row[i] # NoRow => Written(row[i], seen, new).stock = row[i].stock
  BY <1>2, WrittenIs
<1> QED
  BY <1>1, <1>2, <1>3

(* The rest of a batch. *)
LEMMA FollowingIs ==
  ASSUME NEW c \in CommandType, c.todo # <<>>
  PROVE  /\ Head(c.todo) \in Stocks /\ Head(c.todo) \in Range(c.todo)
         /\ Following(c) \in CommandType
         /\ \/ Following(c) = NoCommand
            \/ /\ Following(c).at = "find" /\ Following(c).todo # <<>>
         /\ Range(Following(c).todo) \subseteq Range(c.todo)
<1>1. c.todo \in Seq(Stocks) /\ Len(c.todo) \in Nat /\ Len(c.todo) > 0
  BY DEF CommandType
<1>2. Head(c.todo) \in Stocks /\ Head(c.todo) = c.todo[1] /\ 1 \in DOMAIN c.todo
  BY <1>1
<1>3. Head(c.todo) \in Range(c.todo)
  BY <1>2 DEF Range
<1>4. CASE Len(c.todo) = 1
  <2>1. Following(c) = NoCommand
    BY <1>4 DEF Following
  <2>2. Range(NoCommand.todo) = {}
    BY NoCommandIs DEF Range
  <2> QED
    BY <1>2, <1>3, <2>1, <2>2, NoCommandIs
<1>5. CASE Len(c.todo) # 1
  <2>1. Following(c) = [c EXCEPT !.at = "find", !.todo = Tail(c.todo), !.id = 0, !.seen = NoRow]
    BY <1>5 DEF Following
  <2>2. Tail(c.todo) \in Seq(Stocks) /\ Len(Tail(c.todo)) = Len(c.todo) - 1 /\ Tail(c.todo) # <<>>
    <3>1. \A q \in Seq(Stocks) : Len(q) > 1 =>
            Tail(q) \in Seq(Stocks) /\ Len(Tail(q)) = Len(q) - 1 /\ Tail(q) # <<>>
      <4> TAKE q \in Seq(Stocks)
      <4> HAVE Len(q) > 1
      <4>1. Tail(q) \in Seq(Stocks) /\ Len(Tail(q)) = Len(q) - 1
        OBVIOUS
      <4>2. Len(Tail(q)) # 0
        BY <4>1
      <4>3. Len(<<>>) = 0
        OBVIOUS
      <4>4. Tail(q) # <<>>
        BY <4>2, <4>3, Zenon
      <4> QED
        BY <4>1, <4>4
    <3>2. Len(c.todo) > 1
      <4> DEFINE n == Len(c.todo)
      <4>1. n \in Nat /\ n > 0 /\ n # 1
        BY <1>1, <1>5
      <4> HIDE DEF n
      <4>2. n > 1
        BY <4>1
      <4> QED
        BY <4>2 DEF n
    <3> QED
      BY <1>1, <3>1, <3>2, Zenon
  <2>3. \A k \in 1 .. Len(Tail(c.todo)) : Tail(c.todo)[k] = c.todo[k + 1] /\ k + 1 \in DOMAIN c.todo
    BY <1>1, <2>2
  <2>4. Range(Tail(c.todo)) \subseteq Range(c.todo)
    BY <2>2, <2>3 DEF Range
  <2>5. Following(c) \in CommandType
    BY <2>1, <2>2 DEF CommandType
  <2>6. Following(c).at = "find" /\ Following(c).todo = Tail(c.todo)
    BY <2>1 DEF CommandType
  <2> QED
    BY <1>2, <1>3, <2>2, <2>4, <2>5, <2>6
<1> QED
  BY <1>4, <1>5

(* An id nobody holds exists when the table has room. *)
LEMMA FreshIs ==
  ASSUME Fresh # {}
  PROVE  Min(Fresh) \in Fresh
<1>1. Fresh \subseteq Nat
  BY SessionRegistryAssumption DEF Fresh
<1>2. \E m \in Fresh : \A k \in Fresh : m <= k
  BY <1>1, LeastNumber
<1> QED
  BY <1>2 DEF Min

-----------------------------------------------------------------------------
(* Types, commands and rows, step by step. *)

(* A row keeps its stock while it exists, and a new row has an id nobody held. *)
RowsKeep ==
    \A i \in Ids : row'[i] # NoRow =>
        \/ row[i] = NoRow /\ Unused(i)
        \/ row[i] # NoRow /\ row'[i].stock = row[i].stock

Typed == RegistryTypeOK /\ CommandsOK
TypedStep == RegistryTypeOK' /\ CommandsOK' /\ RowsKeep

(* The command of one writer changes. *)
LEMMA OneCommand ==
  ASSUME Typed, NEW w \in Writers, NEW c \in CommandType, cmd' = [cmd EXCEPT ![w] = c],
         c.at = "idle" => c = NoCommand,
         c.at \in {"check", "find", "create", "overwrite", "conflict"} => c.todo # <<>>,
         c.at \in {"write", "overwrite"} => c.id \in Ids /\ c.seen \in Row,
         c.at = "read" => w = Scanner /\ c.id \in Ids /\ c.op = "resume",
         c.at = "write" => c.op \in Orders
  PROVE  cmd' \in [Writers -> CommandType] /\ CommandsOK'
<1>1. cmd' \in [Writers -> CommandType]
  BY DEF Typed, RegistryTypeOK
<1>2. \A v \in Writers : cmd'[v] = IF v = w THEN c ELSE cmd[v]
  BY DEF Typed, RegistryTypeOK
<1>3. CommandsOK'
  BY <1>2 DEF Typed, CommandsOK
<1> QED
  BY <1>1, <1>3

LEMMA SubmitTyped ==
  ASSUME Typed, NEW p \in Pages, SubmitSessions(p)
  PROVE  TypedStep
<1>1. PICK b \in Batches : cmd' = [cmd EXCEPT ![p] = [NoCommand EXCEPT !.op = "batch", !.at = "check", !.todo = b]]
  BY DEF SubmitSessions
<1>2. b \in Seq(Stocks) /\ b # <<>>
  <2>1. PICK n \in 1 .. MaxBatch : b \in [1 .. n -> Stocks]
    BY DEF Batches
  <2>2. n \in Nat /\ n > 0
    BY <2>1, SessionRegistryAssumption
  <2>3. b \in Seq(Stocks) /\ Len(b) = n
    BY <2>1, <2>2, AsList
  <2>4. Len(<<>>) = 0
    OBVIOUS
  <2> QED
    BY <2>2, <2>3, <2>4
<1> DEFINE c == [NoCommand EXCEPT !.op = "batch", !.at = "check", !.todo = b]
<1>3. c \in CommandType /\ c.at = "check" /\ c.todo = b
  BY <1>2, NoCommandIs DEF CommandType
<1> HIDE DEF c
<1>4. cmd' \in [Writers -> CommandType] /\ CommandsOK'
  <2>1. p \in Writers /\ cmd' = [cmd EXCEPT ![p] = c]
    BY <1>1 DEF Writers, c
  <2> QED
    BY <1>2, <1>3, <2>1, OneCommand
<1>5. UNCHANGED <<row, scan>> /\ commands' \in 0 .. MaxCommands
  BY SessionRegistryAssumption DEF SubmitSessions, Typed, RegistryTypeOK
<1> QED
  BY <1>4, <1>5 DEF TypedStep, Typed, RegistryTypeOK, RowsKeep

LEMMA CheckTyped ==
  ASSUME Typed, NEW w \in Writers, CheckConflicts(w)
  PROVE  TypedStep
<1> DEFINE c == [cmd[w] EXCEPT !.at = IF Conflicts(w) = {} THEN "find" ELSE "conflict",
                               !.asked = Conflicts(w)]
<1>1. cmd' = [cmd EXCEPT ![w] = c]
  BY DEF CheckConflicts, Typed, RegistryTypeOK
<1>2. cmd[w] \in CommandType /\ cmd[w].todo # <<>>
  BY DEF CheckConflicts, Typed, RegistryTypeOK, CommandsOK
<1>3. Conflicts(w) \subseteq Stocks
  BY <1>2 DEF Conflicts, CommandType, Range
<1>4. c \in CommandType /\ c.at \in {"find", "conflict"} /\ c.todo # <<>>
  BY <1>2, <1>3 DEF CommandType
<1> HIDE DEF c
<1>5. cmd' \in [Writers -> CommandType] /\ CommandsOK'
  BY <1>1, <1>4, OneCommand
<1> QED
  BY <1>5 DEF CheckConflicts, TypedStep, Typed, RegistryTypeOK, RowsKeep

LEMMA FindTyped ==
  ASSUME Typed, NEW w \in Writers, FindSession(w)
  PROVE  TypedStep
<1> DEFINE s == Head(cmd[w].todo)
<1>1. cmd[w] \in CommandType /\ cmd[w].todo # <<>>
  BY DEF FindSession, Typed, RegistryTypeOK, CommandsOK
<1>2. /\ s \in Stocks /\ Following(cmd[w]) \in CommandType
      /\ \/ Following(cmd[w]) = NoCommand
         \/ Following(cmd[w]).at = "find" /\ Following(cmd[w]).todo # <<>>
  BY <1>1, FollowingIs
<1>3. \E c \in CommandType :
         /\ cmd' = [cmd EXCEPT ![w] = c]
         /\ \/ c.at = "create" /\ c.todo # <<>>
            \/ c = Following(cmd[w])
            \/ c.at = "overwrite" /\ c.todo # <<>> /\ c.id \in Ids /\ c.seen \in Row
            \/ c.at = "conflict" /\ c.todo # <<>>
  <2>1. CASE cmd' = [cmd EXCEPT ![w].at = "create"]
    <3> DEFINE c == [cmd[w] EXCEPT !.at = "create"]
    <3>1. cmd' = [cmd EXCEPT ![w] = c] /\ c \in CommandType /\ c.at = "create" /\ c.todo # <<>>
      BY <1>1, <2>1 DEF CommandType, Typed, RegistryTypeOK
    <3> QED
      BY <3>1
  <2>2. ASSUME NEW i \in Active(s),
               cmd' = [cmd EXCEPT ![w] =
                          CASE cmd[w].policy[s] = "skip" -> Following(@)
                            [] cmd[w].policy[s] = "update" ->
                                 [@ EXCEPT !.at = "overwrite", !.id = i, !.seen = row[i]]
                            [] OTHER -> [@ EXCEPT !.at = "conflict", !.asked = {s}]]
        PROVE  \E c \in CommandType :
                  /\ cmd' = [cmd EXCEPT ![w] = c]
                  /\ \/ c = Following(cmd[w])
                     \/ c.at = "overwrite" /\ c.todo # <<>> /\ c.id \in Ids /\ c.seen \in Row
                     \/ c.at = "conflict" /\ c.todo # <<>>
    <3>1. i \in Ids /\ row[i] \in Row
      BY <2>2, RowFacts DEF Active, ActiveRows, Typed, RegistryTypeOK
    <3>2. CASE cmd[w].policy[s] = "skip"
      <4>1. cmd' = [cmd EXCEPT ![w] = Following(cmd[w])]
        BY <2>2, <3>2
      <4> QED
        BY <1>2, <4>1
    <3>3. CASE cmd[w].policy[s] = "update"
      <4> DEFINE c == [cmd[w] EXCEPT !.at = "overwrite", !.id = i, !.seen = row[i]]
      <4>1. cmd' = [cmd EXCEPT ![w] = c]
        BY <2>2, <3>3
      <4>2. c \in CommandType /\ c.at = "overwrite" /\ c.todo # <<>> /\ c.id \in Ids /\ c.seen \in Row
        BY <1>1, <3>1 DEF CommandType
      <4> QED
        BY <4>1, <4>2
    <3>4. CASE cmd[w].policy[s] # "skip" /\ cmd[w].policy[s] # "update"
      <4> DEFINE c == [cmd[w] EXCEPT !.at = "conflict", !.asked = {s}]
      <4>1. cmd' = [cmd EXCEPT ![w] = c]
        BY <2>2, <3>4
      <4>2. c \in CommandType /\ c.at = "conflict" /\ c.todo # <<>>
        BY <1>1, <1>2 DEF CommandType
      <4> QED
        BY <4>1, <4>2
    <3> QED
      BY <3>2, <3>3, <3>4
  <2> QED
    BY <2>1, <2>2 DEF FindSession
<1>4. cmd' \in [Writers -> CommandType] /\ CommandsOK'
  BY <1>2, <1>3, NoCommandIs, OneCommand
<1> QED
  BY <1>4 DEF FindSession, TypedStep, Typed, RegistryTypeOK, RowsKeep

LEMMA CreateTyped ==
  ASSUME Typed, NEW w \in Writers, CreateSession(w)
  PROVE  TypedStep
<1> DEFINE s == Head(cmd[w].todo)
           i == Min(Fresh)
           rows == [row EXCEPT ![i] = NewRow(w, s)]
<1>1. cmd[w] \in CommandType /\ cmd[w].todo # <<>>
  BY DEF CreateSession, Typed, RegistryTypeOK, CommandsOK
<1>2. /\ s \in Stocks /\ Following(cmd[w]) \in CommandType
      /\ \/ Following(cmd[w]) = NoCommand
         \/ Following(cmd[w]).at = "find" /\ Following(cmd[w]).todo # <<>>
  BY <1>1, FollowingIs
<1>3. i \in Fresh
  BY FreshIs DEF CreateSession
<1>4. i \in Ids /\ Unused(i) /\ row[i] = NoRow
  BY <1>3, RowFacts DEF Fresh, Unused, Exists, Typed, RegistryTypeOK
<1>5. NewRow(w, s) \in Row
  BY <1>2 DEF NewRow, Row
<1>6. \/ /\ row' = rows /\ cmd' = [cmd EXCEPT ![w] = Following(cmd[w])] /\ scan' = Opened(w, s)
      \/ cmd' = [cmd EXCEPT ![w] = NoCommand] /\ UNCHANGED <<row, scan>>
  BY DEF CreateSession
<1> HIDE DEF i, s
<1>7. cmd' \in [Writers -> CommandType] /\ CommandsOK'
  BY <1>2, <1>6, NoCommandIs, OneCommand
<1>8. row' \in [Ids -> Row \cup {NoRow}] /\ RowsKeep
  BY <1>4, <1>5, <1>6 DEF RowsKeep, Typed, RegistryTypeOK
<1>9. scan' \in ScanType
  <2>1. CASE scan' = scan
    BY <2>1 DEF Typed, RegistryTypeOK
  <2>2. CASE scan' = Opened(w, s)
    BY <1>2, <2>2 DEF Opened, ScanType, Typed, RegistryTypeOK
  <2> QED
    BY <1>6, <2>1, <2>2
<1>10. commands' = commands
  BY DEF CreateSession
<1> QED
  BY <1>7, <1>8, <1>9, <1>10 DEF TypedStep, Typed, RegistryTypeOK

LEMMA OverwriteTyped ==
  ASSUME Typed, NEW w \in Writers, OverwriteSession(w)
  PROVE  TypedStep
<1> DEFINE new == Overwriting(w, cmd[w].seen)
<1>1. cmd[w] \in CommandType /\ cmd[w].todo # <<>> /\ cmd[w].id \in Ids /\ cmd[w].seen \in Row
  BY DEF OverwriteSession, Typed, RegistryTypeOK, CommandsOK
<1>2. new \in Row /\ new.stock = cmd[w].seen.stock
  BY <1>1 DEF Overwriting, Row
<1>3. /\ Following(cmd[w]) \in CommandType
      /\ \/ Following(cmd[w]) = NoCommand
         \/ Following(cmd[w]).at = "find" /\ Following(cmd[w]).todo # <<>>
  BY <1>1, FollowingIs
<1> HIDE DEF new
<1>4. row' = Flushed(cmd[w].id, cmd[w].seen, new) /\ cmd' = [cmd EXCEPT ![w] = Following(cmd[w])]
  BY DEF OverwriteSession, new
<1>5. cmd' \in [Writers -> CommandType] /\ CommandsOK'
  BY <1>3, <1>4, NoCommandIs, OneCommand
<1>6. row' \in [Ids -> Row \cup {NoRow}] /\ RowsKeep
  <2> DEFINE rows == Flushed(cmd[w].id, cmd[w].seen, new)
  <2>1. RegistryTypeOK
    BY DEF Typed
  <2>2. /\ rows \in [Ids -> Row \cup {NoRow}]
        /\ \A j \in Ids : rows[j] = NoRow <=> row[j] = NoRow
        /\ \A j \in Ids : row[j] # NoRow => rows[j].stock = row[j].stock
    BY <1>1, <1>2, <2>1, FlushedIs
  <2> HIDE DEF rows
  <2>3. row' = rows
    BY <1>4 DEF rows
  <2> QED
    BY <2>2, <2>3 DEF RowsKeep
<1> QED
  BY <1>5, <1>6 DEF OverwriteSession, TypedStep, Typed, RegistryTypeOK

LEMMA ConfirmTyped ==
  ASSUME Typed, NEW p \in Pages, ConfirmConflict(p) \/ CancelConflict(p)
  PROVE  TypedStep
<1>1. p \in Writers /\ cmd[p] \in CommandType
  BY DEF Writers, Typed, RegistryTypeOK
<1>2. \E c \in CommandType : /\ cmd' = [cmd EXCEPT ![p] = c]
                             /\ c = NoCommand \/ (c.at = "check" /\ c.todo # <<>>)
  <2>1. CASE CancelConflict(p)
    <3>1. cmd' = [cmd EXCEPT ![p] = NoCommand]
      BY <2>1 DEF CancelConflict
    <3> QED
      BY <3>1, NoCommandIs
  <2>2. CASE ConfirmConflict(p)
    <3>1. PICK action \in [cmd[p].asked -> {"update", "skip"}] :
            cmd' = [cmd EXCEPT ![p].at = "check", ![p].asked = {},
                               ![p].policy = [s \in Stocks |-> IF s \in cmd[p].asked THEN action[s]
                                                                 ELSE @[s]]]
      BY <2>2 DEF ConfirmConflict
    <3> DEFINE policy == [s \in Stocks |-> IF s \in cmd[p].asked THEN action[s] ELSE cmd[p].policy[s]]
               c == [cmd[p] EXCEPT !.at = "check", !.asked = {}, !.policy = policy]
    <3>2. policy \in [Stocks -> Policies]
      BY <1>1 DEF CommandType, Policies
    <3>3. cmd' = [cmd EXCEPT ![p] = c]
      BY <1>1, <3>1 DEF Typed, RegistryTypeOK, CommandType
    <3>4. cmd[p].todo # <<>>
      BY <1>1, <2>2 DEF ConfirmConflict, Typed, CommandsOK
    <3> HIDE DEF policy
    <3>5. c \in CommandType /\ c.at = "check" /\ c.todo # <<>>
      BY <1>1, <3>2, <3>4 DEF CommandType
    <3> QED
      BY <3>3, <3>5
  <2> QED
    BY <2>1, <2>2
<1>3. cmd' \in [Writers -> CommandType] /\ CommandsOK'
  BY <1>1, <1>2, NoCommandIs, OneCommand
<1>4. UNCHANGED <<row, scan, commands>>
  BY DEF ConfirmConflict, CancelConflict
<1> QED
  BY <1>3, <1>4 DEF TypedStep, Typed, RegistryTypeOK, RowsKeep

LEMMA GiveTyped ==
  ASSUME Typed, NEW p \in Pages, NEW op \in Orders, NEW i \in Ids, GiveOrder(p, op, i)
  PROVE  TypedStep
<1> DEFINE c == [cmd[p] EXCEPT !.op = op, !.at = "write", !.id = i, !.seen = row[i]]
<1>1. p \in Writers /\ cmd[p] \in CommandType /\ row[i] \in Row
  BY DEF Writers, GiveOrder, Allowed, Typed, RegistryTypeOK
<1>2. cmd' = [cmd EXCEPT ![p] = c]
  BY DEF GiveOrder
<1>3. c \in CommandType /\ c.at = "write" /\ c.op \in Orders /\ c.id \in Ids /\ c.seen \in Row
  BY <1>1 DEF CommandType
<1> HIDE DEF c
<1>4. cmd' \in [Writers -> CommandType] /\ CommandsOK'
  BY <1>1, <1>2, <1>3, OneCommand
<1>5. UNCHANGED <<row, scan>> /\ commands' \in 0 .. MaxCommands
  BY SessionRegistryAssumption DEF GiveOrder, Typed, RegistryTypeOK
<1> QED
  BY <1>4, <1>5 DEF TypedStep, Typed, RegistryTypeOK, RowsKeep

LEMMA OrderedIs ==
  ASSUME NEW w \in Writers, NEW op \in Orders, op # "delete", NEW r \in Row
  PROVE  Commanded(w, op, r) \in Row /\ Commanded(w, op, r).stock = r.stock
<1>1. op \in {"pause", "resume", "stop", "edit"}
  BY DEF Orders
<1> QED
  BY <1>1 DEF Commanded, Row

LEMMA CarriedIs ==
  ASSUME Typed, NEW w \in Writers, cmd[w].at = "write"
  PROVE  /\ Carried(w) \in [Ids -> Row \cup {NoRow}]
         /\ \A j \in Ids : Carried(w)[j] # NoRow => row[j] # NoRow /\ Carried(w)[j].stock = row[j].stock
         /\ \A j \in Ids : j # cmd[w].id => Carried(w)[j] = row[j]
<1>1. cmd[w].id \in Ids /\ cmd[w].seen \in Row /\ cmd[w].op \in Orders
  BY DEF Typed, CommandsOK
<1>2. CASE cmd[w].op = "delete"
  BY <1>1, <1>2 DEF Carried, Typed, RegistryTypeOK
<1>3. CASE cmd[w].op # "delete"
  <2> DEFINE new == Commanded(w, cmd[w].op, cmd[w].seen)
  <2>1. new \in Row /\ new.stock = cmd[w].seen.stock
    BY <1>1, <1>3, OrderedIs
  <2> HIDE DEF new
  <2>2. Carried(w) = Flushed(cmd[w].id, cmd[w].seen, new)
    BY <1>3 DEF Carried, new
  <2>3. \A j \in Ids : j # cmd[w].id => Flushed(cmd[w].id, cmd[w].seen, new)[j] = row[j]
    BY DEF Flushed, Typed, RegistryTypeOK
  <2> DEFINE rows == Flushed(cmd[w].id, cmd[w].seen, new)
  <2>4. RegistryTypeOK
    BY DEF Typed
  <2>5. /\ rows \in [Ids -> Row \cup {NoRow}]
        /\ \A j \in Ids : rows[j] = NoRow <=> row[j] = NoRow
        /\ \A j \in Ids : row[j] # NoRow => rows[j].stock = row[j].stock
    BY <1>1, <2>1, <2>4, FlushedIs
  <2> HIDE DEF rows
  <2>6. Carried(w) = rows /\ \A j \in Ids : j # cmd[w].id => rows[j] = row[j]
    BY <2>2, <2>3 DEF rows
  <2> QED
    BY <2>5, <2>6
<1> QED
  BY <1>2, <1>3

LEMMA CarryTyped ==
  ASSUME Typed, NEW w \in Writers, CarryOut(w)
  PROVE  TypedStep
<1>1. /\ cmd[w].at = "write" /\ cmd[w] \in CommandType /\ cmd[w].id \in Ids
      /\ cmd[w].seen \in Row /\ cmd[w].op \in Orders
  BY DEF CarryOut, Typed, RegistryTypeOK, CommandsOK
<1>2. \/ row' = Carried(w) /\ cmd' = [cmd EXCEPT ![w] = AfterOrder(w)]
      \/ row' = row /\ cmd' = [cmd EXCEPT ![w] = NoCommand]
  BY DEF CarryOut
<1>3. /\ AfterOrder(w) \in CommandType
      /\ \/ AfterOrder(w) = NoCommand
         \/ /\ AfterOrder(w).at = "read" /\ w = Scanner
            /\ AfterOrder(w).id \in Ids /\ AfterOrder(w).op = "resume"
  BY <1>1, NoCommandIs DEF AfterOrder, CommandType, Orders
<1>4. cmd' \in [Writers -> CommandType] /\ CommandsOK'
  BY <1>2, <1>3, NoCommandIs, OneCommand
<1>5. row' \in [Ids -> Row \cup {NoRow}] /\ RowsKeep
  BY <1>1, <1>2, CarriedIs DEF RowsKeep, Typed, RegistryTypeOK
<1>6. scan' \in ScanType
  <2>1. scan' = scan \/ scan' = Opened(w, cmd[w].seen.stock)
    BY DEF CarryOut
  <2>2. cmd[w].seen.stock \in Stocks
    BY <1>1 DEF Row
  <2>3. Opened(w, cmd[w].seen.stock) \in ScanType
    BY <2>2 DEF Opened, Typed, RegistryTypeOK, ScanType
  <2> QED
    BY <2>1, <2>3 DEF Typed, RegistryTypeOK
<1>7. commands' = commands
  BY DEF CarryOut
<1> QED
  BY <1>4, <1>5, <1>6, <1>7 DEF TypedStep, Typed, RegistryTypeOK

LEMMA FillTyped ==
  ASSUME Typed, NEW i \in Ids, EntryFilled(i) \/ ExitFilled(i)
  PROVE  TypedStep
<1>1. row[i] \in Row
  BY RowFacts DEF EntryFilled, ExitFilled, Typed, RegistryTypeOK
<1>2. \E r \in Row : row' = [row EXCEPT ![i] = r] /\ r.stock = row[i].stock
  <2>1. CASE EntryFilled(i)
    <3> DEFINE r == [row[i] EXCEPT !.held = TRUE]
    <3>1. row' = [row EXCEPT ![i] = r]
      BY <2>1 DEF EntryFilled
    <3>2. r \in Row /\ r.stock = row[i].stock
      BY <1>1 DEF Row
    <3> QED
      BY <3>1, <3>2
  <2>2. CASE ExitFilled(i)
    <3> DEFINE r == [row[i] EXCEPT !.held = FALSE, !.status = "paused", !.reason = "autoSell"]
    <3>1. row' = [row EXCEPT ![i] = r]
      BY <2>2 DEF ExitFilled, Typed, RegistryTypeOK
    <3>2. r \in Row /\ r.stock = row[i].stock
      BY <1>1 DEF Row
    <3> QED
      BY <3>1, <3>2
  <2> QED
    BY <2>1, <2>2
<1>3. row' \in [Ids -> Row \cup {NoRow}] /\ RowsKeep
  BY <1>1, <1>2, RowFacts DEF RowsKeep, Typed, RegistryTypeOK
<1>4. UNCHANGED <<cmd, scan, commands>>
  BY DEF EntryFilled, ExitFilled
<1> QED
  BY <1>3, <1>4 DEF TypedStep, Typed, RegistryTypeOK, CommandsOK

(* Steps of the scan that leave commands and rows alone. *)
LEMMA ScanTyped ==
  ASSUME Typed, scan' \in ScanType, UNCHANGED <<row, cmd, commands>>
  PROVE  TypedStep
BY DEF TypedStep, Typed, RegistryTypeOK, CommandsOK, RowsKeep

LEMMA RowsAre ==
  ASSUME Typed
  PROVE  /\ ManualRows \subseteq Ids /\ Stale \subseteq Ids /\ Stale \cap ManualRows = {}
         /\ \A i \in ManualRows : row[i] \in Row
         /\ Protected \subseteq Stocks /\ ActiveStocks \subseteq Stocks
         /\ Resumable \subseteq [id : Ids, stock : Stocks]
         /\ \A q \in Resumable : /\ q.id \in Ids /\ row[q.id] \in Row /\ q.id \notin ManualRows
                                 /\ row[q.id].stock = q.stock
<1>1. \A i \in Ids : Exists(i) => row[i] \in Row
  BY RowFacts DEF Exists, Typed, RegistryTypeOK
<1>2. ManualRows \subseteq Ids /\ Stale \subseteq Ids /\ Stale \cap ManualRows = {}
  BY DEF ManualRows, Stale
<1>3. \A i \in ManualRows : row[i] \in Row
  BY <1>1 DEF ManualRows
<1>4. Protected \subseteq Stocks /\ ActiveStocks \subseteq Stocks
  BY <1>3 DEF Protected, ActiveStocks, Row
<1>5. ASSUME NEW q \in Resumable
      PROVE  /\ q \in [id : Ids, stock : Stocks] /\ q.id \in Ids /\ row[q.id] \in Row
             /\ q.id \notin ManualRows /\ row[q.id].stock = q.stock
  <2>1. PICK i \in Ids : /\ Exists(i) /\ row[i].scheduled
                         /\ q = [id |-> i, stock |-> row[i].stock]
    BY <1>5 DEF Resumable
  <2>2. row[i] \in Row /\ i \notin ManualRows
    BY <1>1, <2>1 DEF ManualRows
  <2> QED
    BY <2>1, <2>2 DEF Row
<1> QED
  BY <1>2, <1>3, <1>4, <1>5

LEMMA StaleTyped ==
  ASSUME Typed, FindStale
  PROVE  TypedStep
<1>1. scan' \in ScanType
  BY RowsAre, NoScanIs DEF FindStale, ScanType
<1> QED
  BY <1>1, ScanTyped DEF FindStale

LEMMA RemoveTyped ==
  ASSUME Typed, RemoveStaleSessions
  PROVE  TypedStep
<1>1. PICK removed \in {{}, {i \in scan.stale : Exists(i) /\ ~row[i].held}} :
         row' = [i \in Ids |-> IF i \in removed THEN NoRow ELSE row[i]]
  BY DEF RemoveStaleSessions
<1>2. row' \in [Ids -> Row \cup {NoRow}] /\ RowsKeep
  BY <1>1 DEF RowsKeep, Typed, RegistryTypeOK
<1>3. Excluded(row') \subseteq Stocks
  <2>1. \A j \in Ids : row'[j] # NoRow => row'[j].stock \in Stocks
    BY <1>2 DEF Row
  <2> QED
    BY <2>1 DEF Excluded
<1>4. scan' \in ScanType
  BY <1>3 DEF RemoveStaleSessions, ScanType, Typed, RegistryTypeOK
<1>5. UNCHANGED <<cmd, commands>>
  BY DEF RemoveStaleSessions
<1> QED
  BY <1>2, <1>4, <1>5 DEF TypedStep, Typed, RegistryTypeOK, CommandsOK

LEMMA RankingsAre ==
  ASSUME NEW S, S \subseteq Stocks, NEW b \in Rankings(S)
  PROVE  b \in Seq(Stocks) /\ Range(b) \subseteq S
<1>1. PICK n \in 0 .. Cardinality(S) : b \in [1 .. n -> S]
  BY DEF Rankings
<1>2. n \in Nat
  BY <1>1
<1>3. b \in [1 .. n -> Stocks]
  BY <1>1
<1>4. b \in Seq(Stocks) /\ DOMAIN b = 1 .. n
  BY <1>2, <1>3, AsList
<1> QED
  BY <1>1, <1>4 DEF Range

(* What the result of a scan is filtered to: no stock of a manual session, and within the limits. *)
LEMMA ChosenIs ==
  ASSUME Typed, ChooseCandidates
  PROVE  \E counted \in {{}, ActiveStocks}, scaling \in Regimes, picked \in Seq(Stocks) :
            /\ scan' = [NoScan EXCEPT
                    !.at = "picked", !.manual = ManualRows, !.base = ActiveStocks,
                    !.counted = counted, !.paused = Resumable, !.regime = scaling,
                    !.picked = picked]
            /\ Range(picked) \cap Protected = {}
            /\ Spread(Range(picked), ActiveStocks, counted, scaling)
<1>1. PICK ranked \in Rankings(Stocks \ scan.excluded), scaling \in Regimes,
           counted \in {{}, ActiveStocks} :
         scan' = [NoScan EXCEPT
                    !.at = "picked", !.manual = ManualRows, !.base = ActiveStocks,
                    !.counted = counted, !.paused = Resumable, !.regime = scaling,
                    !.picked = FilterCandidates(Among(ranked, Stocks \ Protected),
                                                ActiveStocks, counted, scaling)]
  BY DEF ChooseCandidates
<1> DEFINE list == Among(ranked, Stocks \ Protected)
           picked == FilterCandidates(list, ActiveStocks, counted, scaling)
<1>2. ranked \in Seq(Stocks)
  BY RankingsAre
<1>3. list \in Seq(Stocks) /\ Range(list) \subseteq Stocks \ Protected
  BY <1>2, AmongIsPart
<1>4. ActiveStocks \subseteq Stocks /\ counted \subseteq Stocks
  BY RowsAre
<1> HIDE DEF list
<1>5. picked \in Seq(Stocks) /\ Range(picked) \subseteq Range(list)
  BY <1>3, <1>4, FilterKeepsLimits
<1>6. Spread(Range(picked), ActiveStocks, counted, scaling)
  BY <1>3, <1>4, FilterSpreads
<1>7. scan' = [NoScan EXCEPT
                    !.at = "picked", !.manual = ManualRows, !.base = ActiveStocks,
                    !.counted = counted, !.paused = Resumable, !.regime = scaling,
                    !.picked = picked]
  BY <1>1 DEF list
<1> HIDE DEF picked
<1> QED
  BY <1>3, <1>5, <1>6, <1>7

LEMMA ChooseTyped ==
  ASSUME Typed, ChooseCandidates
  PROVE  TypedStep
<1>1. PICK counted \in {{}, ActiveStocks}, scaling \in Regimes, picked \in Seq(Stocks) :
         scan' = [NoScan EXCEPT
                    !.at = "picked", !.manual = ManualRows, !.base = ActiveStocks,
                    !.counted = counted, !.paused = Resumable, !.regime = scaling,
                    !.picked = picked]
  BY ChosenIs
<1>2. scan' \in ScanType
  BY <1>1, RowsAre, NoScanIs DEF ScanType
<1> QED
  BY <1>2, ScanTyped DEF ChooseCandidates

LEMMA EmptyIs ==
  /\ \A S : <<>> \in Seq(S)
  /\ Range(<<>>) = {}
BY DEF Range

(* How the cash is divided, who is resumed and what is started. *)
LEMMA AllottedIs ==
  ASSUME Typed, AllotCash
  PROVE  \/ scan' = ScanEnded
         \/ \E cash \in Nat, given \in Seq(Nat), resume \in Seq(Ids), start \in Seq(Stocks) :
              /\ scan' = [scan EXCEPT
                            !.at = "apply", !.picked = <<>>, !.paused = {}, !.cash = cash,
                            !.given = given, !.resume = resume, !.start = start]
              /\ Total(given) <= cash
              /\ Range(start) \subseteq Range(scan.picked)
              /\ \A i \in Range(resume) :
                    \E q \in scan.paused : q.id = i /\ q.stock \in Range(scan.picked)
<1>1. PICK cash \in Cash, paused \in PausedByStock :
         LET budget == AllocatedBudget(cash, scan.regime)
             chosen == Affordable(budget, scan.picked)
             again == Among(chosen, DOMAIN paused)
         IN  scan' = IF cash = 0 \/ chosen = <<>>
                       THEN ScanEnded
                       ELSE [scan EXCEPT
                               !.at = "apply", !.picked = <<>>, !.paused = {}, !.cash = cash,
                               !.given = Investments(chosen, budget),
                               !.resume = [k \in DOMAIN again |-> paused[again[k]]],
                               !.start = Among(chosen, Stocks \ DOMAIN paused)]
  BY DEF AllotCash
<1> DEFINE budget == AllocatedBudget(cash, scan.regime)
           chosen == Affordable(budget, scan.picked)
           again == Among(chosen, DOMAIN paused)
           given == Investments(chosen, budget)
           resume == [k \in DOMAIN again |-> paused[again[k]]]
           start == Among(chosen, Stocks \ DOMAIN paused)
<1>2. /\ scan.regime \in Regimes \cup {NoScaling} /\ scan.picked \in Seq(Stocks)
      /\ scan.paused \subseteq [id : Ids, stock : Stocks]
  BY DEF Typed, RegistryTypeOK, ScanType
<1>3. cash \in Nat /\ budget \in Nat /\ budget <= cash
  BY <1>2, SessionRegistryAssumption, BudgetWithinCash
<1> HIDE DEF budget
<1>4. /\ chosen \in Seq(Stocks) /\ Range(chosen) \subseteq Range(scan.picked)
      /\ LeftOver(budget, chosen) \in Nat
  BY <1>2, <1>3, AffordableFits
<1> HIDE DEF chosen
<1>5. /\ again \in Seq(Stocks) /\ Range(again) \subseteq Range(chosen) \cap DOMAIN paused
      /\ start \in Seq(Stocks) /\ Range(start) \subseteq Range(chosen)
  BY <1>4, AmongIsPart
<1> HIDE DEF again, start
<1>6. ASSUME NEW k \in DOMAIN again
      PROVE  paused[again[k]] \in Ids /\ \E q \in scan.paused : q.id = paused[again[k]] /\ q.stock = again[k]
  <2>1. again[k] \in DOMAIN paused
    BY <1>5 DEF Range
  <2>2. [id |-> paused[again[k]], stock |-> again[k]] \in scan.paused
    BY <2>1 DEF PausedByStock
  <2> QED
    BY <1>2, <2>2
<1>7. resume \in Seq(Ids)
  <2>1. DOMAIN again = 1 .. Len(again) /\ Len(again) \in Nat
    BY <1>5
  <2>2. resume \in [1 .. Len(again) -> Ids]
    BY <1>6, <2>1
  <2> HIDE DEF resume
  <2> QED
    BY <2>1, <2>2, AsList
<1>8. ASSUME NEW i \in Range(resume)
      PROVE  \E q \in scan.paused : q.id = i /\ q.stock \in Range(scan.picked)
  <2>1. PICK k \in DOMAIN again : i = paused[again[k]]
    BY <1>8 DEF Range
  <2>2. again[k] \in Range(scan.picked)
    BY <1>4, <1>5 DEF Range
  <2> QED
    BY <1>6, <2>1, <2>2
<1>9. CASE scan' = ScanEnded
  BY <1>9
<1>10. CASE scan' # ScanEnded
  <2>1. scan' = [scan EXCEPT
                   !.at = "apply", !.picked = <<>>, !.paused = {}, !.cash = cash,
                   !.given = given, !.resume = resume, !.start = start]
    BY <1>1, <1>10 DEF budget, chosen, again, start
  <2>2. chosen # <<>>
    BY <1>1, <1>10 DEF budget, chosen, again, start
  <2>3. Len(chosen) > 0
    BY <1>4, <2>2
  <2>4. given \in Seq(Nat) /\ Total(given) = budget
    BY <1>3, <1>4, <2>3, InvestmentsAreExact
  <2> HIDE DEF given, resume
  <2>5. Total(given) <= cash /\ Range(start) \subseteq Range(scan.picked)
    BY <1>3, <1>4, <1>5, <2>4
  <2> QED
    BY <1>3, <1>5, <1>7, <1>8, <2>1, <2>4, <2>5
<1> QED
  BY <1>9, <1>10

LEMMA AllotTyped ==
  ASSUME Typed, AllotCash
  PROVE  TypedStep
<1>1. scan' \in ScanType
  <2>1. CASE scan' = ScanEnded
    BY <2>1, NoScanIs
  <2>2. CASE scan' # ScanEnded
    <3>1. PICK cash \in Nat, given \in Seq(Nat), resume \in Seq(Ids), start \in Seq(Stocks) :
            scan' = [scan EXCEPT
                       !.at = "apply", !.picked = <<>>, !.paused = {}, !.cash = cash,
                       !.given = given, !.resume = resume, !.start = start]
      BY <2>2, AllottedIs
    <3>2. scan \in ScanType
      BY DEF Typed, RegistryTypeOK
    <3> QED
      BY <3>1, <3>2, EmptyIs DEF ScanType
  <2> QED
    BY <2>1, <2>2
<1> QED
  BY <1>1, ScanTyped DEF AllotCash

LEMMA TailIs ==
  ASSUME NEW S, NEW q \in Seq(S), q # <<>>
  PROVE  /\ Head(q) \in S /\ Head(q) \in Range(q)
         /\ Tail(q) \in Seq(S) /\ Range(Tail(q)) \subseteq Range(q)
<1>1. Len(q) \in Nat /\ Len(q) > 0
  OBVIOUS
<1>2. Head(q) = q[1] /\ 1 \in DOMAIN q /\ q[1] \in S
  BY <1>1
<1>3. Tail(q) \in Seq(S) /\ Len(Tail(q)) = Len(q) - 1
  BY <1>1
<1>4. \A k \in 1 .. Len(Tail(q)) : Tail(q)[k] = q[k + 1] /\ k + 1 \in DOMAIN q
  BY <1>1, <1>3
<1>5. DOMAIN Tail(q) = 1 .. Len(Tail(q))
  BY <1>3
<1> QED
  BY <1>2, <1>3, <1>4, <1>5 DEF Range

LEMMA ScannerWrites == Scanner \in Writers
BY DEF Writers

LEMMA UpdateTyped ==
  ASSUME Typed, UpdateForResume
  PROVE  TypedStep
<1> DEFINE i == Head(scan.resume)
<1>1. scan.resume \in Seq(Ids) /\ scan \in ScanType
  BY DEF Typed, RegistryTypeOK, ScanType
<1>2. i \in Ids /\ Tail(scan.resume) \in Seq(Ids)
  BY <1>1, TailIs DEF UpdateForResume
<1>3. cmd[Scanner] \in CommandType
  BY ScannerWrites DEF Typed, RegistryTypeOK
<1> HIDE DEF i
<1>4. scan' = [scan EXCEPT !.resume = Tail(scan.resume), !.cash = 0, !.given = <<>>]
  BY DEF UpdateForResume
<1>5. scan' \in ScanType
  BY <1>1, <1>2, <1>4, EmptyIs DEF ScanType
<1>6. cmd' \in [Writers -> CommandType] /\ CommandsOK'
  <2>1. CASE cmd' = cmd
    BY <2>1 DEF Typed, RegistryTypeOK, CommandsOK
  <2>2. CASE Allowed("edit", row[i])
    <3> DEFINE c == [cmd[Scanner] EXCEPT !.op = "edit", !.at = "write", !.id = i, !.seen = row[i]]
    <3>1. cmd' = [cmd EXCEPT ![Scanner] = c]
      BY <2>2 DEF UpdateForResume, i
    <3>2. row[i] \in Row
      BY <1>2, <2>2 DEF Allowed, Typed, RegistryTypeOK
    <3>3. c \in CommandType /\ c.at = "write" /\ c.op \in Orders /\ c.id \in Ids /\ c.seen \in Row
      BY <1>2, <1>3, <3>2 DEF CommandType, Orders
    <3> HIDE DEF c
    <3> QED
      BY <3>1, <3>3, ScannerWrites, OneCommand
  <2> QED
    BY <2>1, <2>2 DEF UpdateForResume, i
<1>7. UNCHANGED <<row, commands>>
  BY DEF UpdateForResume
<1> QED
  BY <1>5, <1>6, <1>7 DEF TypedStep, Typed, RegistryTypeOK, RowsKeep

LEMMA ReadTyped ==
  ASSUME Typed, ReadForResume
  PROVE  TypedStep
<1> DEFINE i == cmd[Scanner].id
           c == [cmd[Scanner] EXCEPT !.at = "write", !.seen = row[i]]
<1>1. i \in Ids /\ cmd[Scanner] \in CommandType /\ cmd[Scanner].op = "resume"
  BY ScannerWrites DEF ReadForResume, Typed, RegistryTypeOK, CommandsOK
<1>2. CASE Exists(i)
  <2>1. cmd' = [cmd EXCEPT ![Scanner] = c]
    BY <1>2, ScannerWrites DEF ReadForResume, Typed, RegistryTypeOK
  <2>2. row[i] \in Row
    BY <1>1, <1>2, RowFacts DEF Exists, Typed, RegistryTypeOK
  <2>3. c \in CommandType /\ c.at = "write" /\ c.op \in Orders /\ c.id \in Ids /\ c.seen \in Row
    BY <1>1, <2>2 DEF CommandType, Orders
  <2> HIDE DEF c
  <2>4. cmd' \in [Writers -> CommandType] /\ CommandsOK'
    BY <2>1, <2>3, ScannerWrites, OneCommand
  <2> QED
    BY <2>4 DEF ReadForResume, TypedStep, Typed, RegistryTypeOK, RowsKeep
<1>3. CASE ~Exists(i)
  <2>1. cmd' = [cmd EXCEPT ![Scanner] = NoCommand]
    BY <1>3 DEF ReadForResume
  <2>2. cmd' \in [Writers -> CommandType] /\ CommandsOK'
    BY <2>1, ScannerWrites, NoCommandIs, OneCommand
  <2> QED
    BY <2>2 DEF ReadForResume, TypedStep, Typed, RegistryTypeOK, RowsKeep
<1> QED
  BY <1>2, <1>3

LEMMA StartTyped ==
  ASSUME Typed, StartScanned
  PROVE  TypedStep
<1> DEFINE policy == [s \in Stocks |-> "update"]
           c == [cmd[Scanner] EXCEPT !.op = "batch", !.at = "check", !.todo = scan.start, !.policy = policy]
<1>1. /\ scan \in ScanType /\ scan.start \in Seq(Stocks) /\ scan.start # <<>>
      /\ cmd[Scanner] \in CommandType
  BY ScannerWrites DEF StartScanned, Typed, RegistryTypeOK, ScanType
<1>2. policy \in [Stocks -> Policies]
  BY DEF Policies
<1>3. cmd' = [cmd EXCEPT ![Scanner] = c]
  BY DEF StartScanned
<1> HIDE DEF policy
<1>4. c \in CommandType /\ c.at = "check" /\ c.todo # <<>>
  BY <1>1, <1>2 DEF CommandType
<1> HIDE DEF c
<1>5. cmd' \in [Writers -> CommandType] /\ CommandsOK'
  BY <1>3, <1>4, ScannerWrites, OneCommand
<1>6. scan' = [scan EXCEPT !.start = <<>>, !.cash = 0, !.given = <<>>]
  BY DEF StartScanned
<1>7. scan' \in ScanType
  BY <1>1, <1>6, EmptyIs DEF ScanType
<1> QED
  BY <1>5, <1>7 DEF StartScanned, TypedStep, Typed, RegistryTypeOK, RowsKeep

LEMMA AppliedTyped ==
  ASSUME Typed, ScanApplied
  PROVE  TypedStep
BY NoScanIs, ScanTyped DEF ScanApplied

LEMMA StepTyped ==
  ASSUME Typed, [RegistryNext]_registryVars
  PROVE  TypedStep
<1>1. CASE UNCHANGED registryVars
  BY <1>1 DEF registryVars, TypedStep, Typed, RegistryTypeOK, CommandsOK, RowsKeep
<1>2. ASSUME NEW w \in Writers,
             \/ CheckConflicts(w) \/ FindSession(w) \/ CreateSession(w)
             \/ OverwriteSession(w) \/ CarryOut(w)
      PROVE  TypedStep
  BY <1>2, CheckTyped, FindTyped, CreateTyped, OverwriteTyped, CarryTyped
<1>3. ASSUME NEW p \in Pages,
             \/ SubmitSessions(p) \/ ConfirmConflict(p) \/ CancelConflict(p)
             \/ \E op \in Orders, i \in Ids : GiveOrder(p, op, i)
      PROVE  TypedStep
  BY <1>3, SubmitTyped, ConfirmTyped, GiveTyped
<1>4. CASE ScannerNext
  BY <1>4, StaleTyped, RemoveTyped, ChooseTyped, AllotTyped, UpdateTyped, ReadTyped, StartTyped,
     AppliedTyped DEF ScannerNext
<1> QED
  BY <1>1, <1>2, <1>3, <1>4, FillTyped DEF RegistryNext

LEMMA InitTyped ==
  ASSUME RegistryInit
  PROVE  Typed
<1>1. row \in [Ids -> Row \cup {NoRow}]
  BY SessionRegistryAssumption DEF RegistryInit
<1>2. cmd \in [Writers -> CommandType] /\ CommandsOK
  BY NoCommandIs DEF RegistryInit, CommandsOK
<1>3. scan \in ScanType /\ commands \in 0 .. MaxCommands
  BY NoScanIs, SessionRegistryAssumption DEF RegistryInit
<1> QED
  BY <1>1, <1>2, <1>3 DEF Typed, RegistryTypeOK

-----------------------------------------------------------------------------
(* Every variable keeps its type, whatever the pages and the scan do: what applyScanResults starts, *)
(* resumes and hands out are stocks, sessions and amounts that exist.                                *)
THEOREM RegistryTypes == RegistrySpec => []RegistryTypeOK
<1>1. RegistryInit => Typed
  BY InitTyped
<1>2. Typed /\ [RegistryNext]_registryVars => Typed'
  BY StepTyped DEF TypedStep, Typed
<1>3. Typed => RegistryTypeOK
  BY DEF Typed
<1> QED
  BY <1>1, <1>2, <1>3, PTL DEF RegistrySpec

-----------------------------------------------------------------------------
(* What the scan decided stays within the limits and away from manual sessions. *)

LEMMA ToOpenAreStocks ==
  ASSUME Typed
  PROVE  ToOpen \subseteq Stocks
<1>1. /\ scan.opened \subseteq Stocks /\ scan.picked \in Seq(Stocks) /\ scan.start \in Seq(Stocks)
      /\ scan.resume \in Seq(Ids) /\ cmd[Scanner].todo \in Seq(Stocks)
  BY ScannerWrites DEF Typed, RegistryTypeOK, ScanType, CommandType
<1>2. Range(scan.picked) \cup Range(scan.start) \cup Range(cmd[Scanner].todo) \subseteq Stocks
  BY <1>1, StocksOfList
<1>3. \A i \in Range(scan.resume) : row[i] # NoRow => row[i].stock \in Stocks
  <2>1. Range(scan.resume) \subseteq Ids
    BY <1>1 DEF Range
  <2> QED
    BY <2>1 DEF Typed, RegistryTypeOK, Row
<1>4. Resuming \subseteq Stocks
  BY DEF Resuming
<1> QED
  BY <1>1, <1>2, <1>3, <1>4 DEF ToOpen

(* A step that leaves what the scan read as it is, and neither widens what it may open nor touches *)
(* a manual session.                                                                               *)
Narrows ==
    /\ scan'.at = scan.at /\ scan'.manual = scan.manual /\ scan'.stale = scan.stale
    /\ scan'.paused = scan.paused /\ scan'.base = scan.base /\ scan'.counted = scan.counted
    /\ scan'.regime = scan.regime
    /\ Range(scan'.resume) \subseteq Range(scan.resume)
    /\ Range(scan'.picked) \cup Range(scan'.start) \cup Range(cmd'[Scanner].todo)
         \subseteq Range(scan.picked) \cup Range(scan.start) \cup Range(cmd[Scanner].todo)
    /\ scan'.opened \subseteq ToOpen
    /\ Resuming' \subseteq ToOpen
    /\ cmd'[Scanner].at \in {"read", "write", "overwrite"} => cmd'[Scanner].id \notin scan.manual
    /\ \/ scan'.given = scan.given /\ scan'.cash = scan.cash
       \/ scan'.given = <<>> /\ scan'.cash = 0
    /\ scan'.at # "apply" => cmd'[Scanner] = NoCommand

LEMMA TotalOfNone == Total(<<>>) = 0
<1>1. <<>> \in Seq(Int) /\ Len(<<>>) = 0
  OBVIOUS
<1>2. PICK f \in [0 .. 0 -> Int] : Sums(f, <<>>) /\ Total(<<>>) = f[0]
  BY <1>1, TotalIs
<1> QED
  BY <1>2 DEF Sums

LEMMA NarrowsSafe ==
  ASSUME Typed, Safe, TypedStep, Narrows
  PROVE  Safe'
<1>1. /\ scan \in ScanType /\ scan' \in ScanType
      /\ scan.manual \subseteq Ids /\ scan.paused \subseteq [id : Ids, stock : Stocks]
      /\ scan.resume \in Seq(Ids)
  BY DEF Typed, TypedStep, RegistryTypeOK, ScanType
<1>2. Range(scan.resume) \subseteq Ids
  BY <1>1 DEF Range
<1>3. ScannerWaits'
  BY DEF Narrows, ScannerWaits
<1>4. ASSUME NEW i \in scan.manual \cup Range(scan.resume) \cup {q.id : q \in scan.paused}, row'[i] # NoRow
      PROVE  row[i] # NoRow /\ row'[i].stock = row[i].stock
  <2>1. i \in Ids
    BY <1>1, <1>2
  <2>2. ~Unused(i)
    BY DEF Unused
  <2> QED
    BY <1>4, <2>1, <2>2 DEF TypedStep, RowsKeep
<1>5. ManualRowsSafe'
  <2>1. scan'.stale \cap scan'.manual = {} /\ \A q \in scan'.paused : q.id \notin scan'.manual
    BY DEF Narrows, Safe, ManualRowsSafe
  <2>2. Range(scan'.resume) \cap scan'.manual = {}
    BY DEF Narrows, Safe, ManualRowsSafe
  <2>3. cmd'[Scanner].at \in {"read", "write", "overwrite"} => cmd'[Scanner].id \notin scan'.manual
    BY DEF Narrows
  <2>4. ASSUME NEW i \in scan'.manual, row'[i] # NoRow
        PROVE  row'[i].stock \notin Range(scan'.picked) \cup Range(scan'.start) \cup Range(cmd'[Scanner].todo)
    <3>1. i \in scan.manual
      BY DEF Narrows
    <3>2. row[i] # NoRow /\ row'[i].stock = row[i].stock
      BY <1>4, <2>4, <3>1
    <3>3. row[i].stock \notin Range(scan.picked) \cup Range(scan.start) \cup Range(cmd[Scanner].todo)
      BY <3>1, <3>2 DEF Safe, ManualRowsSafe
    <3> QED
      BY <3>2, <3>3 DEF Narrows
  <2> QED
    BY <2>1, <2>2, <2>3, <2>4 DEF ManualRowsSafe
<1>6. PausedKeepStock'
  <2>1. ASSUME NEW q \in scan'.paused, row'[q.id] # NoRow
        PROVE  row'[q.id].stock = q.stock
    <3>1. q \in scan.paused
      BY DEF Narrows
    <3>2. row[q.id] # NoRow /\ row'[q.id].stock = row[q.id].stock
      BY <1>4, <2>1, <3>1
    <3> QED
      BY <3>1, <3>2 DEF Safe, PausedKeepStock
  <2> QED
    BY <2>1 DEF PausedKeepStock
<1>7. ToOpen' \subseteq ToOpen
  <2>1. Range(scan'.picked) \cup Range(scan'.start) \cup Range(cmd'[Scanner].todo) \subseteq ToOpen
    BY DEF Narrows, ToOpen
  <2>2. ASSUME NEW i \in Range(scan'.resume), row'[i] # NoRow
        PROVE  row'[i].stock \in ToOpen
    <3>1. i \in Range(scan.resume)
      BY DEF Narrows
    <3>2. row[i] # NoRow /\ row'[i].stock = row[i].stock
      BY <1>4, <2>2, <3>1
    <3> QED
      BY <3>1, <3>2 DEF ToOpen
  <2>3. scan'.opened \subseteq ToOpen /\ Resuming' \subseteq ToOpen
    BY DEF Narrows
  <2>4. ToOpen' = scan'.opened \cup Range(scan'.picked) \cup Range(scan'.start) \cup Range(cmd'[Scanner].todo)
                    \cup {row'[i].stock : i \in {j \in Range(scan'.resume) : row'[j] # NoRow}} \cup Resuming'
    BY DEF ToOpen
  <2> QED
    BY <2>1, <2>2, <2>3, <2>4
<1>8. OpensWithinLimits'
  <2> SUFFICES ASSUME scan'.at \in {"picked", "apply"}
               PROVE  Spread(ToOpen', scan'.base, scan'.counted, scan'.regime)
    BY DEF OpensWithinLimits
  <2>1. Spread(ToOpen, scan.base, scan.counted, scan.regime)
    BY DEF Safe, OpensWithinLimits, Narrows
  <2>2. scan.base \subseteq Stocks /\ scan.counted \subseteq Stocks /\ scan.regime \in Regimes \cup {NoScaling}
    BY <1>1 DEF ScanType
  <2>3. Spread(ToOpen', scan.base, scan.counted, scan.regime)
    BY <1>7, <2>1, <2>2, ToOpenAreStocks, SpreadOfPart
  <2> QED
    BY <2>3 DEF Narrows
<1>9. MoneyWithinCash'
  <2>1. CASE scan'.given = scan.given /\ scan'.cash = scan.cash
    BY <2>1 DEF MoneyWithinCash, WithinCash, Safe, Narrows
  <2>2. CASE scan'.given = <<>> /\ scan'.cash = 0
    BY <2>2, TotalOfNone DEF MoneyWithinCash, WithinCash
  <2> QED
    BY <2>1, <2>2 DEF Narrows
<1> QED
  BY <1>3, <1>5, <1>6, <1>8, <1>9 DEF Safe

(* Steps of the pages and of the sessions. *)
LEMMA QuietSafe ==
  ASSUME Typed, Safe, TypedStep, scan' = scan, cmd'[Scanner] = cmd[Scanner]
  PROVE  Safe'
<1>1. scan \in ScanType /\ cmd[Scanner] \in CommandType
  BY ScannerWrites DEF Typed, RegistryTypeOK
<1>2. scan.opened \subseteq ToOpen
  BY DEF ToOpen
<1>3. Resuming' \subseteq ToOpen
  <2>1. Resuming' \subseteq Resuming
    <3> DEFINE i == cmd[Scanner].id
    <3>1. cmd[Scanner].at \in {"read", "write"} => i \in Ids /\ ~Unused(i)
      BY ScannerWrites DEF Typed, CommandsOK, Unused
    <3>2. cmd[Scanner].at \in {"read", "write"} /\ row'[i] # NoRow =>
             row[i] # NoRow /\ row'[i].stock = row[i].stock
      BY <3>1 DEF TypedStep, RowsKeep
    <3> HIDE DEF i
    <3>3. Resuming' = {s \in Stocks :
             \/ cmd[Scanner].at \in {"read", "write"} /\ row'[i] # NoRow /\ s = row'[i].stock
             \/ cmd[Scanner].at = "write" /\ s = cmd[Scanner].seen.stock}
      BY DEF Resuming, i
    <3>4. Resuming = {s \in Stocks :
             \/ cmd[Scanner].at \in {"read", "write"} /\ row[i] # NoRow /\ s = row[i].stock
             \/ cmd[Scanner].at = "write" /\ s = cmd[Scanner].seen.stock}
      BY DEF Resuming, i
    <3> QED
      BY <3>2, <3>3, <3>4
  <2> QED
    BY <2>1 DEF ToOpen
<1>4. Narrows
  BY <1>2, <1>3 DEF Narrows, Safe, ManualRowsSafe, ScannerWaits
<1> QED
  BY <1>4, NarrowsSafe

(* The scanner's command goes on. *)
LEMMA ScannerBusy ==
  ASSUME Typed, Safe, cmd[Scanner].at # "idle"
  PROVE  scan.at = "apply"
BY NoCommandIs DEF Safe, ScannerWaits

LEMMA CommandSafe ==
  ASSUME Typed, Safe, TypedStep, cmd[Scanner].at # "idle",
         \/ scan' = scan
         \/ \E s \in ToOpen : scan' = [scan EXCEPT !.opened = scan.opened \cup {s}],
         Range(cmd'[Scanner].todo) \subseteq Range(cmd[Scanner].todo),
         cmd'[Scanner].at \in {"read", "write", "overwrite"} => cmd'[Scanner].id \notin scan.manual,
         Resuming' \subseteq ToOpen
  PROVE  Safe'
<1>1. scan \in ScanType /\ scan.at = "apply"
  BY ScannerBusy DEF Typed, RegistryTypeOK
<1>2. /\ scan'.at = scan.at /\ scan'.manual = scan.manual /\ scan'.stale = scan.stale
      /\ scan'.paused = scan.paused /\ scan'.base = scan.base /\ scan'.counted = scan.counted
      /\ scan'.regime = scan.regime /\ scan'.resume = scan.resume /\ scan'.picked = scan.picked
      /\ scan'.start = scan.start /\ scan'.given = scan.given /\ scan'.cash = scan.cash
      /\ scan'.opened \subseteq ToOpen
  <2>1. scan.opened \subseteq ToOpen
    BY DEF ToOpen
  <2>2. CASE scan' = scan
    BY <2>1, <2>2
  <2>3. CASE \E s \in ToOpen : scan' = [scan EXCEPT !.opened = scan.opened \cup {s}]
    <3>1. PICK s \in ToOpen : scan' = [scan EXCEPT !.opened = scan.opened \cup {s}]
      BY <2>3
    <3> QED
      BY <1>1, <2>1, <3>1 DEF ScanType
  <2> QED
    BY <2>2, <2>3
<1>3. Narrows
  BY <1>1, <1>2 DEF Narrows
<1> QED
  BY <1>3, NarrowsSafe

LEMMA BatchSafe ==
  ASSUME Typed, Safe, TypedStep,
         CheckConflicts(Scanner) \/ FindSession(Scanner) \/ CreateSession(Scanner) \/ OverwriteSession(Scanner)
  PROVE  Safe'
<1>1. /\ cmd \in [Writers -> CommandType] /\ cmd[Scanner] \in CommandType
      /\ cmd[Scanner].todo # <<>> /\ cmd[Scanner].at # "idle"
  BY ScannerWrites DEF Typed, RegistryTypeOK, CommandsOK, CheckConflicts, FindSession, CreateSession,
                       OverwriteSession
<1> DEFINE s == Head(cmd[Scanner].todo)
           rest == Following(cmd[Scanner])
<1>2. /\ s \in Stocks /\ s \in Range(cmd[Scanner].todo)
      /\ rest = NoCommand \/ rest.at = "find"
      /\ Range(rest.todo) \subseteq Range(cmd[Scanner].todo)
  BY <1>1, FollowingIs
<1>3. s \in ToOpen
  BY <1>2 DEF ToOpen
<1> HIDE DEF rest
<1>4. /\ cmd'[Scanner].at \notin {"read", "write"}
      /\ Range(cmd'[Scanner].todo) \subseteq Range(cmd[Scanner].todo)
      /\ cmd'[Scanner].at = "overwrite" => cmd'[Scanner].id \notin scan.manual
  <2>1. CASE CheckConflicts(Scanner)
    <3>1. cmd'[Scanner] = [cmd[Scanner] EXCEPT !.at = IF Conflicts(Scanner) = {} THEN "find" ELSE "conflict",
                                               !.asked = Conflicts(Scanner)]
      BY <1>1, <2>1, ScannerWrites DEF CheckConflicts
    <3> QED
      BY <1>1, <3>1 DEF CommandType
  <2>2. CASE cmd'[Scanner] = rest
    BY <1>2, <2>2, NoCommandIs
  <2>3. CASE FindSession(Scanner)
    <3>1. CASE cmd' = [cmd EXCEPT ![Scanner].at = "create"]
      BY <1>1, <3>1, ScannerWrites DEF CommandType
    <3>2. ASSUME NEW i \in Active(s),
               cmd' = [cmd EXCEPT ![Scanner] =
                          CASE cmd[Scanner].policy[s] = "skip" -> Following(@)
                            [] cmd[Scanner].policy[s] = "update" ->
                                 [@ EXCEPT !.at = "overwrite", !.id = i, !.seen = row[i]]
                            [] OTHER -> [@ EXCEPT !.at = "conflict", !.asked = {s}]]
          PROVE  /\ cmd'[Scanner].at \notin {"read", "write"}
                 /\ Range(cmd'[Scanner].todo) \subseteq Range(cmd[Scanner].todo)
                 /\ cmd'[Scanner].at = "overwrite" => cmd'[Scanner].id \notin scan.manual
      <4>1. CASE cmd[Scanner].policy[s] = "skip"
        <5>1. cmd'[Scanner] = rest
          BY <1>1, <3>2, <4>1, ScannerWrites DEF rest
        <5> QED
          BY <2>2, <5>1
      <4>2. CASE cmd[Scanner].policy[s] = "update"
        <5>1. cmd'[Scanner] = [cmd[Scanner] EXCEPT !.at = "overwrite", !.id = i, !.seen = row[i]]
          BY <1>1, <3>2, <4>2, ScannerWrites
        <5>2. cmd'[Scanner].todo = cmd[Scanner].todo /\ cmd'[Scanner].id = i /\ cmd'[Scanner].at = "overwrite"
          BY <1>1, <5>1 DEF CommandType
        <5>3. i \notin scan.manual
          <6>1. row[i] # NoRow /\ row[i].stock = s
            BY <3>2 DEF Active, ActiveRows, NoRow
          <6> QED
            BY <1>2, <6>1 DEF Safe, ManualRowsSafe
        <5> QED
          BY <5>2, <5>3
      <4>3. CASE cmd[Scanner].policy[s] # "skip" /\ cmd[Scanner].policy[s] # "update"
        <5>1. cmd'[Scanner] = [cmd[Scanner] EXCEPT !.at = "conflict", !.asked = {s}]
          BY <1>1, <3>2, <4>3, ScannerWrites
        <5> QED
          BY <1>1, <5>1 DEF CommandType
      <4> QED
        BY <4>1, <4>2, <4>3
    <3> QED
      BY <2>3, <3>1, <3>2 DEF FindSession
  <2>4. CASE CreateSession(Scanner)
    <3>1. cmd'[Scanner] = rest \/ cmd'[Scanner] = NoCommand
      BY <1>1, <2>4, ScannerWrites DEF CreateSession, rest
    <3>2. CASE cmd'[Scanner] = NoCommand
      BY <3>2, NoCommandIs, EmptyIs
    <3> QED
      BY <2>2, <3>1, <3>2
  <2>5. CASE OverwriteSession(Scanner)
    <3>1. cmd'[Scanner] = rest
      BY <1>1, <2>5, ScannerWrites DEF OverwriteSession, rest
    <3> QED
      BY <2>2, <3>1
  <2> QED
    BY <2>1, <2>3, <2>4, <2>5
<1>5. Resuming' \subseteq ToOpen
  BY <1>4 DEF Resuming
<1>6. scan' = scan \/ scan' = [scan EXCEPT !.opened = scan.opened \cup {s}]
  BY DEF CheckConflicts, FindSession, CreateSession, OverwriteSession, Opened
<1> HIDE DEF s
<1> QED
  BY <1>1, <1>3, <1>4, <1>5, <1>6, CommandSafe

(* An update or a resume that the scanner carries out. *)
LEMMA CarrySafe ==
  ASSUME Typed, Safe, TypedStep, CarryOut(Scanner)
  PROVE  Safe'
<1> DEFINE i == cmd[Scanner].id
<1>1. /\ cmd \in [Writers -> CommandType] /\ cmd[Scanner] \in CommandType
      /\ cmd[Scanner].at = "write" /\ i \in Ids /\ cmd[Scanner].seen \in Row
      /\ scan \in ScanType
  BY ScannerWrites DEF Typed, RegistryTypeOK, CommandsOK, CarryOut
<1>2. cmd[Scanner].seen.stock \in ToOpen
  <2>1. cmd[Scanner].seen.stock \in Resuming
    BY <1>1 DEF Resuming, Row
  <2> QED
    BY <2>1 DEF ToOpen
<1>3. scan' = scan \/ scan' = [scan EXCEPT !.opened = scan.opened \cup {cmd[Scanner].seen.stock}]
  BY DEF CarryOut, Opened
<1>4. i \notin scan.manual
  BY <1>1 DEF Safe, ManualRowsSafe
<1>5. \/ cmd'[Scanner] = NoCommand
      \/ cmd'[Scanner] = [NoCommand EXCEPT !.op = "resume", !.at = "read", !.id = i]
  BY <1>1, ScannerWrites DEF CarryOut, AfterOrder
<1>6. /\ cmd'[Scanner].todo = <<>>
      /\ cmd'[Scanner].at = "idle" \/ (cmd'[Scanner].at = "read" /\ cmd'[Scanner].id = i)
  BY <1>1, <1>5, NoCommandIs DEF CommandType
<1>7. Resuming' \subseteq ToOpen
  <2>1. ASSUME NEW s \in Resuming'
        PROVE  s \in Resuming
    <3>1. cmd'[Scanner].at = "read" /\ cmd'[Scanner].id = i /\ row'[i] # NoRow /\ s = row'[i].stock /\ s \in Stocks
      BY <1>6 DEF Resuming
    <3>2. ~Unused(i)
      BY ScannerWrites DEF Unused
    <3>3. row[i] # NoRow /\ row'[i].stock = row[i].stock
      BY <1>1, <3>1, <3>2 DEF TypedStep, RowsKeep
    <3> QED
      BY <1>1, <3>1, <3>3 DEF Resuming
  <2> QED
    BY <2>1 DEF ToOpen
<1> QED
  BY <1>1, <1>2, <1>3, <1>4, <1>6, <1>7, EmptyIs, CommandSafe

LEMMA ReadSafe ==
  ASSUME Typed, Safe, TypedStep, ReadForResume
  PROVE  Safe'
<1> DEFINE i == cmd[Scanner].id
<1>1. /\ cmd \in [Writers -> CommandType] /\ cmd[Scanner] \in CommandType
      /\ cmd[Scanner].at = "read" /\ i \in Ids /\ i \notin scan.manual
  BY ScannerWrites DEF Typed, RegistryTypeOK, CommandsOK, ReadForResume, Safe, ManualRowsSafe
<1>2. scan' = scan /\ row' = row
  BY DEF ReadForResume
<1>3. CASE Exists(i)
  <2>1. cmd'[Scanner] = [cmd[Scanner] EXCEPT !.at = "write", !.seen = row[i]]
    BY <1>1, <1>3, ScannerWrites DEF ReadForResume
  <2>2. /\ cmd'[Scanner].at = "write" /\ cmd'[Scanner].id = i /\ cmd'[Scanner].seen = row[i]
        /\ cmd'[Scanner].todo = cmd[Scanner].todo
    BY <1>1, <2>1 DEF CommandType
  <2>3. row[i] # NoRow
    BY <1>3 DEF Exists, NoRow
  <2>4. Resuming' \subseteq Resuming
    BY <1>1, <1>2, <2>2, <2>3 DEF Resuming
  <2>5. Resuming' \subseteq ToOpen
    BY <2>4 DEF ToOpen
  <2> QED
    BY <1>1, <1>2, <2>2, <2>5, CommandSafe
<1>4. CASE ~Exists(i)
  <2>1. cmd'[Scanner] = NoCommand
    BY <1>1, <1>4, ScannerWrites DEF ReadForResume
  <2>2. cmd'[Scanner].at = "idle" /\ cmd'[Scanner].todo = <<>>
    BY <2>1, NoCommandIs
  <2>3. Resuming' \subseteq ToOpen
    BY <2>2 DEF Resuming
  <2> QED
    BY <1>1, <1>2, <2>2, <2>3, EmptyIs, CommandSafe
<1> QED
  BY <1>3, <1>4

LEMMA UpdateSafe ==
  ASSUME Typed, Safe, TypedStep, UpdateForResume
  PROVE  Safe'
<1> DEFINE i == Head(scan.resume)
<1>1. /\ cmd \in [Writers -> CommandType] /\ cmd[Scanner] \in CommandType /\ cmd[Scanner].at = "idle"
      /\ scan \in ScanType /\ scan.at = "apply" /\ scan.resume \in Seq(Ids) /\ scan.resume # <<>>
  BY ScannerWrites DEF Typed, RegistryTypeOK, ScanType, UpdateForResume, ScannerFree
<1>2. i \in Ids /\ i \in Range(scan.resume) /\ Range(Tail(scan.resume)) \subseteq Range(scan.resume)
  BY <1>1, TailIs
<1>3. i \notin scan.manual
  BY <1>2 DEF Safe, ManualRowsSafe
<1> HIDE DEF i
<1>4. scan' = [scan EXCEPT !.resume = Tail(scan.resume), !.cash = 0, !.given = <<>>] /\ row' = row
  BY DEF UpdateForResume
<1>5. /\ scan'.at = scan.at /\ scan'.manual = scan.manual /\ scan'.stale = scan.stale
      /\ scan'.paused = scan.paused /\ scan'.base = scan.base /\ scan'.counted = scan.counted
      /\ scan'.regime = scan.regime /\ scan'.resume = Tail(scan.resume) /\ scan'.picked = scan.picked
      /\ scan'.start = scan.start /\ scan'.given = <<>> /\ scan'.cash = 0 /\ scan'.opened = scan.opened
  BY <1>1, <1>4 DEF ScanType
<1>6. /\ cmd'[Scanner].todo = cmd[Scanner].todo
      /\ cmd'[Scanner].at \in {"read", "write", "overwrite"} =>
           /\ cmd'[Scanner].at = "write" /\ cmd'[Scanner].id = i
           /\ cmd'[Scanner].seen = row[i] /\ row[i] # NoRow
  <2>1. CASE Allowed("edit", row[i])
    <3>1. cmd'[Scanner] = [cmd[Scanner] EXCEPT !.op = "edit", !.at = "write", !.id = i, !.seen = row[i]]
      BY <1>1, <2>1, ScannerWrites DEF UpdateForResume, i
    <3> QED
      BY <1>1, <2>1, <3>1 DEF CommandType, Allowed
  <2>2. CASE ~Allowed("edit", row[i])
    BY <1>1, <2>2 DEF UpdateForResume, i
  <2> QED
    BY <2>1, <2>2
<1>7. Resuming' \subseteq ToOpen
  <2>1. ASSUME NEW s \in Resuming'
        PROVE  s \in ToOpen
    <3>1. row[i] # NoRow /\ s = row[i].stock
      BY <1>4, <1>6 DEF Resuming
    <3> QED
      BY <1>2, <3>1 DEF ToOpen
  <2> QED
    BY <2>1
<1>8. scan.opened \subseteq ToOpen
  BY DEF ToOpen
<1>9. Narrows
  BY <1>1, <1>2, <1>3, <1>5, <1>6, <1>7, <1>8 DEF Narrows
<1> QED
  BY <1>9, NarrowsSafe

LEMMA StartSafe ==
  ASSUME Typed, Safe, TypedStep, StartScanned
  PROVE  Safe'
<1>1. /\ cmd \in [Writers -> CommandType] /\ cmd[Scanner] \in CommandType
      /\ scan \in ScanType /\ scan.at = "apply"
  BY ScannerWrites DEF Typed, RegistryTypeOK, StartScanned, ScannerFree
<1>2. scan' = [scan EXCEPT !.start = <<>>, !.cash = 0, !.given = <<>>]
  BY DEF StartScanned
<1>3. /\ scan'.at = scan.at /\ scan'.manual = scan.manual /\ scan'.stale = scan.stale
      /\ scan'.paused = scan.paused /\ scan'.base = scan.base /\ scan'.counted = scan.counted
      /\ scan'.regime = scan.regime /\ scan'.resume = scan.resume /\ scan'.picked = scan.picked
      /\ scan'.start = <<>> /\ scan'.given = <<>> /\ scan'.cash = 0 /\ scan'.opened = scan.opened
  BY <1>1, <1>2 DEF ScanType
<1>4. cmd'[Scanner].todo = scan.start /\ cmd'[Scanner].at = "check"
  <2> DEFINE policy == [s \in Stocks |-> "update"]
  <2>1. cmd'[Scanner] = [cmd[Scanner] EXCEPT !.op = "batch", !.at = "check", !.todo = scan.start,
                                             !.policy = policy]
    BY <1>1, ScannerWrites DEF StartScanned
  <2> HIDE DEF policy
  <2> QED
    BY <1>1, <2>1 DEF CommandType
<1>5. Resuming' \subseteq ToOpen
  BY <1>4 DEF Resuming
<1>6. scan.opened \subseteq ToOpen
  BY DEF ToOpen
<1>7. Narrows
  BY <1>1, <1>3, <1>4, <1>5, <1>6, EmptyIs DEF Narrows
<1> QED
  BY <1>7, NarrowsSafe

LEMMA InitSafe ==
  ASSUME RegistryInit
  PROVE  Safe
<1>1. cmd[Scanner] = NoCommand
  BY ScannerWrites DEF RegistryInit
<1>2. /\ scan.at = "off" /\ scan.stale = {} /\ scan.manual = {} /\ scan.paused = {}
      /\ scan.resume = <<>> /\ scan.picked = <<>> /\ scan.start = <<>>
  BY DEF RegistryInit, NoScan
<1>3. ScannerWaits /\ PausedKeepStock /\ OpensWithinLimits /\ MoneyWithinCash
  BY <1>1, <1>2 DEF ScannerWaits, PausedKeepStock, OpensWithinLimits, MoneyWithinCash
<1>4. ManualRowsSafe
  BY <1>1, <1>2, NoCommandIs, EmptyIs DEF ManualRowsSafe
<1> QED
  BY <1>3, <1>4 DEF Safe

LEMMA ScanIdle ==
  ASSUME Typed, Safe, scan.at # "apply" \/ ScannerFree
  PROVE  cmd[Scanner] = NoCommand
BY ScannerWrites DEF Typed, CommandsOK, Safe, ScannerWaits, ScannerFree

LEMMA StaleSafe ==
  ASSUME Typed, Safe, TypedStep, FindStale
  PROVE  Safe'
<1>1. cmd'[Scanner] = NoCommand
  BY ScanIdle DEF FindStale
<1>2. /\ scan'.at = "cleanup" /\ scan'.stale = Stale /\ scan'.manual = ManualRows
      /\ scan'.paused = {} /\ scan'.resume = <<>> /\ scan'.picked = <<>> /\ scan'.start = <<>>
  BY DEF FindStale, NoScan
<1>3. Stale \cap ManualRows = {}
  BY RowsAre
<1>4. ScannerWaits' /\ PausedKeepStock' /\ OpensWithinLimits' /\ MoneyWithinCash'
  BY <1>1, <1>2 DEF ScannerWaits, PausedKeepStock, OpensWithinLimits, MoneyWithinCash
<1>5. ManualRowsSafe'
  BY <1>1, <1>2, <1>3, NoCommandIs, EmptyIs DEF ManualRowsSafe
<1> QED
  BY <1>4, <1>5 DEF Safe

LEMMA RemoveSafe ==
  ASSUME Typed, Safe, TypedStep, RemoveStaleSessions
  PROVE  Safe'
<1>1. cmd[Scanner] = NoCommand /\ cmd' = cmd /\ scan \in ScanType
  BY ScanIdle DEF RemoveStaleSessions, Typed, RegistryTypeOK
<1>2. scan' = [scan EXCEPT !.at = "scanning", !.stale = {}, !.excluded = Excluded(row')]
  BY DEF RemoveStaleSessions
<1>3. /\ scan'.at = "scanning" /\ scan'.stale = {} /\ scan'.manual = scan.manual
      /\ scan'.paused = scan.paused /\ scan'.resume = scan.resume /\ scan'.picked = scan.picked
      /\ scan'.start = scan.start
  BY <1>1, <1>2 DEF ScanType
<1>4. /\ scan.manual \subseteq Ids /\ scan.paused \subseteq [id : Ids, stock : Stocks]
  BY <1>1 DEF ScanType
<1>5. ASSUME NEW i \in Ids, row'[i] # NoRow
      PROVE  row[i] # NoRow /\ row'[i] = row[i]
  <2>1. row'[i] = row[i] \/ row'[i] = NoRow
    BY DEF RemoveStaleSessions
  <2> QED
    BY <1>5, <2>1
<1>6. ManualRowsSafe'
  BY <1>1, <1>3, <1>4, <1>5, NoCommandIs DEF Safe, ManualRowsSafe
<1>7. PausedKeepStock'
  BY <1>3, <1>4, <1>5 DEF Safe, PausedKeepStock
<1>8. ScannerWaits' /\ OpensWithinLimits' /\ MoneyWithinCash'
  BY <1>1, <1>3 DEF ScannerWaits, OpensWithinLimits, MoneyWithinCash
<1> QED
  BY <1>6, <1>7, <1>8 DEF Safe

LEMMA ChooseSafe ==
  ASSUME Typed, Safe, TypedStep, ChooseCandidates
  PROVE  Safe'
<1>1. cmd[Scanner] = NoCommand /\ cmd' = cmd /\ row' = row
  BY ScanIdle DEF ChooseCandidates
<1>2. PICK counted \in {{}, ActiveStocks}, scaling \in Regimes, picked \in Seq(Stocks) :
            /\ scan' = [NoScan EXCEPT
                    !.at = "picked", !.manual = ManualRows, !.base = ActiveStocks,
                    !.counted = counted, !.paused = Resumable, !.regime = scaling,
                    !.picked = picked]
            /\ Range(picked) \cap Protected = {}
            /\ Spread(Range(picked), ActiveStocks, counted, scaling)
  BY ChosenIs
<1>3. /\ scan'.at = "picked" /\ scan'.stale = {} /\ scan'.manual = ManualRows
      /\ scan'.base = ActiveStocks /\ scan'.counted = counted /\ scan'.regime = scaling
      /\ scan'.paused = Resumable /\ scan'.resume = <<>> /\ scan'.picked = picked
      /\ scan'.start = <<>> /\ scan'.opened = {}
  BY <1>2 DEF NoScan
<1>4. cmd'[Scanner].at = "idle" /\ cmd'[Scanner].todo = <<>>
  BY <1>1, NoCommandIs
<1>5. ManualRowsSafe'
  <2>1. \A q \in Resumable : q.id \notin ManualRows
    BY RowsAre
  <2>2. \A i \in ManualRows : row[i].stock \in Protected
    BY DEF Protected
  <2>3. \A i \in ManualRows : row[i].stock \notin Range(picked)
    BY <1>2, <2>2
  <2> QED
    BY <1>1, <1>3, <1>4, <2>1, <2>3, EmptyIs DEF ManualRowsSafe
<1>6. PausedKeepStock'
  BY <1>1, <1>3, RowsAre DEF PausedKeepStock
<1>7. OpensWithinLimits'
  <2>1. Resuming' = {}
    BY <1>4 DEF Resuming
  <2>2. ToOpen' = Range(picked)
    <3>1. ToOpen' = scan'.opened \cup Range(scan'.picked) \cup Range(scan'.start) \cup Range(cmd'[Scanner].todo)
                    \cup {row'[i].stock : i \in {j \in Range(scan'.resume) : row'[j] # NoRow}} \cup Resuming'
      BY DEF ToOpen
    <3> QED
      BY <1>3, <1>4, <2>1, <3>1, EmptyIs
  <2> QED
    BY <1>2, <1>3, <2>2 DEF OpensWithinLimits
<1>8. ScannerWaits' /\ MoneyWithinCash'
  BY <1>1, <1>3 DEF ScannerWaits, MoneyWithinCash
<1> QED
  BY <1>5, <1>6, <1>7, <1>8 DEF Safe

LEMMA AllotSafe ==
  ASSUME Typed, Safe, TypedStep, AllotCash
  PROVE  Safe'
<1>1. cmd[Scanner] = NoCommand /\ cmd' = cmd /\ row' = row /\ scan.at = "picked" /\ scan \in ScanType
  BY ScanIdle DEF AllotCash, Typed, RegistryTypeOK
<1>2. CASE scan' = ScanEnded
  <2>1. /\ scan'.at = "done" /\ scan'.stale = {} /\ scan'.manual = {} /\ scan'.paused = {}
        /\ scan'.resume = <<>> /\ scan'.picked = <<>> /\ scan'.start = <<>>
    BY <1>2 DEF ScanEnded, NoScan
  <2>2. ScannerWaits' /\ PausedKeepStock' /\ OpensWithinLimits' /\ MoneyWithinCash'
    BY <1>1, <2>1 DEF ScannerWaits, PausedKeepStock, OpensWithinLimits, MoneyWithinCash
  <2>3. ManualRowsSafe'
    BY <1>1, <2>1, NoCommandIs, EmptyIs DEF ManualRowsSafe
  <2> QED
    BY <2>2, <2>3 DEF Safe
<1>3. CASE scan' # ScanEnded
  <2>1. PICK cash \in Nat, given \in Seq(Nat), resume \in Seq(Ids), start \in Seq(Stocks) :
              /\ scan' = [scan EXCEPT
                            !.at = "apply", !.picked = <<>>, !.paused = {}, !.cash = cash,
                            !.given = given, !.resume = resume, !.start = start]
              /\ Total(given) <= cash
              /\ Range(start) \subseteq Range(scan.picked)
              /\ \A i \in Range(resume) :
                    \E q \in scan.paused : q.id = i /\ q.stock \in Range(scan.picked)
    BY <1>3, AllottedIs
  <2>2. /\ scan'.at = "apply" /\ scan'.manual = scan.manual /\ scan'.stale = scan.stale
        /\ scan'.paused = {} /\ scan'.base = scan.base /\ scan'.counted = scan.counted
        /\ scan'.regime = scan.regime /\ scan'.resume = resume /\ scan'.picked = <<>>
        /\ scan'.start = start /\ scan'.given = given /\ scan'.cash = cash /\ scan'.opened = scan.opened
    BY <1>1, <2>1 DEF ScanType
  <2>3. cmd'[Scanner].at = "idle" /\ cmd'[Scanner].todo = <<>>
    BY <1>1, NoCommandIs
  <2>4. ManualRowsSafe'
    <3>1. Range(resume) \cap scan.manual = {}
      BY <2>1 DEF Safe, ManualRowsSafe
    <3>2. scan.stale \cap scan.manual = {}
      BY DEF Safe, ManualRowsSafe
    <3>3. \A i \in scan.manual : row[i] # NoRow => row[i].stock \notin Range(start)
      BY <2>1 DEF Safe, ManualRowsSafe
    <3> QED
      BY <1>1, <2>2, <2>3, <3>1, <3>2, <3>3, EmptyIs DEF ManualRowsSafe
  <2>5. ScannerWaits' /\ PausedKeepStock'
    BY <2>2 DEF ScannerWaits, PausedKeepStock
  <2>6. ToOpen' \subseteq ToOpen
    <3>1. Resuming' = {}
      BY <2>3 DEF Resuming
    <3>2. ToOpen' = scan'.opened \cup Range(scan'.picked) \cup Range(scan'.start) \cup Range(cmd'[Scanner].todo)
                      \cup {row'[i].stock : i \in {j \in Range(scan'.resume) : row'[j] # NoRow}} \cup Resuming'
      BY DEF ToOpen
    <3>3. ASSUME NEW i \in Range(resume), row[i] # NoRow
          PROVE  row[i].stock \in ToOpen
      <4>1. PICK q \in scan.paused : q.id = i /\ q.stock \in Range(scan.picked)
        BY <2>1, <3>3
      <4>2. row[i].stock = q.stock
        BY <3>3, <4>1 DEF Safe, PausedKeepStock
      <4> QED
        BY <4>1, <4>2 DEF ToOpen
    <3>4. scan.opened \cup Range(start) \subseteq ToOpen
      BY <2>1 DEF ToOpen
    <3> QED
      BY <1>1, <2>2, <2>3, <3>1, <3>2, <3>3, <3>4, EmptyIs
  <2>7. OpensWithinLimits'
    <3>1. Spread(ToOpen, scan.base, scan.counted, scan.regime)
      BY <1>1 DEF Safe, OpensWithinLimits
    <3>2. scan.base \subseteq Stocks /\ scan.counted \subseteq Stocks /\ scan.regime \in Regimes \cup {NoScaling}
      BY <1>1 DEF ScanType
    <3>3. Spread(ToOpen', scan.base, scan.counted, scan.regime)
      BY <2>6, <3>1, <3>2, ToOpenAreStocks, SpreadOfPart
    <3> QED
      BY <2>2, <3>3 DEF OpensWithinLimits
  <2>8. MoneyWithinCash'
    <3>1. \A k \in DOMAIN given : given[k] >= 0
      OBVIOUS
    <3> QED
      BY <2>1, <2>2, <3>1 DEF MoneyWithinCash, WithinCash
  <2> QED
    BY <2>4, <2>5, <2>7, <2>8 DEF Safe
<1> QED
  BY <1>2, <1>3

LEMMA AppliedSafe ==
  ASSUME Typed, Safe, TypedStep, ScanApplied
  PROVE  Safe'
<1>1. cmd'[Scanner] = NoCommand
  BY ScanIdle DEF ScanApplied
<1>2. /\ scan'.at = "done" /\ scan'.stale = {} /\ scan'.manual = {} /\ scan'.paused = {}
      /\ scan'.resume = <<>> /\ scan'.picked = <<>> /\ scan'.start = <<>>
  BY DEF ScanApplied, ScanEnded, NoScan
<1>3. ScannerWaits' /\ PausedKeepStock' /\ OpensWithinLimits' /\ MoneyWithinCash'
  BY <1>1, <1>2 DEF ScannerWaits, PausedKeepStock, OpensWithinLimits, MoneyWithinCash
<1>4. ManualRowsSafe'
  BY <1>1, <1>2, NoCommandIs, EmptyIs DEF ManualRowsSafe
<1> QED
  BY <1>3, <1>4 DEF Safe

(* The steps that are not the scan's. *)
LEMMA OthersQuiet ==
  ASSUME Typed,
         \/ \E p \in Pages : \/ CheckConflicts(p) \/ FindSession(p) \/ CreateSession(p)
                             \/ OverwriteSession(p) \/ CarryOut(p)
                             \/ SubmitSessions(p) \/ ConfirmConflict(p) \/ CancelConflict(p)
                             \/ \E op \in Orders, i \in Ids : GiveOrder(p, op, i)
         \/ \E i \in Ids : EntryFilled(i) \/ ExitFilled(i)
         \/ UNCHANGED registryVars
  PROVE  scan' = scan /\ cmd'[Scanner] = cmd[Scanner]
<1>1. scan \in ScanType /\ cmd \in [Writers -> CommandType]
  BY DEF Typed, RegistryTypeOK
<1>2. ASSUME NEW p \in Pages, NEW s
      PROVE  Opened(p, s) = scan
  <2>1. p # Scanner
    BY SessionRegistryAssumption
  <2>2. Opened(p, s) = [scan EXCEPT !.opened = scan.opened]
    BY <2>1 DEF Opened
  <2> QED
    BY <1>1, <2>2 DEF ScanType
<1>3. ASSUME NEW p \in Pages, NEW c, cmd' = [cmd EXCEPT ![p] = c]
      PROVE  cmd'[Scanner] = cmd[Scanner]
  BY <1>1, <1>3, ScannerWrites, SessionRegistryAssumption
<1>4. ASSUME NEW p \in Pages, CreateSession(p) \/ CarryOut(p)
      PROVE  scan' = scan /\ cmd'[Scanner] = cmd[Scanner]
  <2>1. CASE CreateSession(p)
    BY <1>2, <1>3, <2>1 DEF CreateSession
  <2>2. CASE CarryOut(p)
    BY <1>2, <1>3, <2>2 DEF CarryOut
  <2> QED
    BY <1>4, <2>1, <2>2
<1>5. ASSUME NEW p \in Pages,
             \/ CheckConflicts(p) \/ FindSession(p) \/ OverwriteSession(p)
             \/ SubmitSessions(p) \/ ConfirmConflict(p) \/ CancelConflict(p)
             \/ \E op \in Orders, i \in Ids : GiveOrder(p, op, i)
      PROVE  scan' = scan /\ cmd'[Scanner] = cmd[Scanner]
  <2>1. p # Scanner /\ Scanner \in Writers
    BY ScannerWrites, SessionRegistryAssumption
  <2>2. scan' = scan
    BY <1>5 DEF CheckConflicts, FindSession, OverwriteSession, SubmitSessions, ConfirmConflict,
                CancelConflict, GiveOrder
  <2>3. CASE CheckConflicts(p)
    BY <1>1, <2>1, <2>3 DEF CheckConflicts
  <2>4. CASE FindSession(p)
    BY <1>1, <2>1, <2>4 DEF FindSession
  <2>5. CASE OverwriteSession(p) \/ CancelConflict(p)
    BY <1>1, <2>1, <2>5 DEF OverwriteSession, CancelConflict
  <2>6. CASE SubmitSessions(p) \/ ConfirmConflict(p)
    BY <1>1, <2>1, <2>6 DEF SubmitSessions, ConfirmConflict
  <2>7. CASE \E op \in Orders, i \in Ids : GiveOrder(p, op, i)
    BY <1>1, <2>1, <2>7 DEF GiveOrder
  <2> QED
    BY <1>5, <2>2, <2>3, <2>4, <2>5, <2>6, <2>7
<1>6. CASE \E i \in Ids : EntryFilled(i) \/ ExitFilled(i)
  BY <1>6 DEF EntryFilled, ExitFilled
<1>7. CASE UNCHANGED registryVars
  BY <1>7 DEF registryVars
<1> QED
  BY <1>4, <1>5, <1>6, <1>7

(* Every step is one of these. *)
LEMMA StepCases ==
  ASSUME [RegistryNext]_registryVars
  PROVE  \/ \/ \E p \in Pages : \/ CheckConflicts(p) \/ FindSession(p) \/ CreateSession(p)
                                \/ OverwriteSession(p) \/ CarryOut(p)
                                \/ SubmitSessions(p) \/ ConfirmConflict(p) \/ CancelConflict(p)
                                \/ \E op \in Orders, i \in Ids : GiveOrder(p, op, i)
            \/ \E i \in Ids : EntryFilled(i) \/ ExitFilled(i)
            \/ UNCHANGED registryVars
         \/ CheckConflicts(Scanner) \/ FindSession(Scanner) \/ CreateSession(Scanner)
              \/ OverwriteSession(Scanner)
         \/ CarryOut(Scanner)
         \/ ScannerNext
BY DEF RegistryNext, Writers

LEMMA StepSafe ==
  ASSUME Typed, Safe, [RegistryNext]_registryVars
  PROVE  Safe'
<1>1. TypedStep
  BY StepTyped
<1>2. CASE ScannerNext
  BY <1>1, <1>2, StaleSafe, RemoveSafe, ChooseSafe, AllotSafe, UpdateSafe, ReadSafe, StartSafe,
     AppliedSafe DEF ScannerNext
<1>3. CASE CarryOut(Scanner)
  BY <1>1, <1>3, CarrySafe
<1>4. CASE CheckConflicts(Scanner) \/ FindSession(Scanner) \/ CreateSession(Scanner) \/ OverwriteSession(Scanner)
  BY <1>1, <1>4, BatchSafe
<1>5. CASE scan' = scan /\ cmd'[Scanner] = cmd[Scanner]
  BY <1>1, <1>5, QuietSafe
<1> QED
  BY <1>2, <1>3, <1>4, <1>5, StepCases, OthersQuiet

LEMMA SafeWithinLimits ==
  ASSUME Typed, Safe
  PROVE  ScanWithinLimits
<1> SUFFICES ASSUME scan.at = "apply"
             PROVE  Diversified /\ WithinCash
  BY DEF ScanWithinLimits
<1>1. WithinCash
  BY DEF Safe, MoneyWithinCash
<1>2. /\ scan.base \subseteq Stocks /\ scan.counted \subseteq Stocks
      /\ scan.regime \in Regimes \cup {NoScaling}
  BY DEF Typed, RegistryTypeOK, ScanType
<1>3. Spread(ToOpen, scan.base, scan.counted, scan.regime) /\ scan.opened \subseteq ToOpen
  BY DEF Safe, OpensWithinLimits, ToOpen
<1>4. Spread(scan.opened, scan.base, scan.counted, scan.regime)
  BY <1>2, <1>3, ToOpenAreStocks, SpreadOfPart
<1>5. Diversified
  BY <1>4 DEF Diversified, Spread, SameSector
<1> QED
  BY <1>1, <1>5

(* The diversification filter of applyScanResults and its division of the cash: whatever the regime, *)
(* the ranking and the sessions of the user, and whichever starts and resumes fail, what a scan has  *)
(* opened is within the limits on holdings and sectors, and what it hands out is within the cash.    *)
THEOREM ScanKeepsLimits == RegistrySpec => []ScanWithinLimits
<1>1. RegistryInit => Typed /\ Safe
  BY InitTyped, InitSafe
<1>2. Typed /\ Safe /\ [RegistryNext]_registryVars => Typed' /\ Safe'
  BY StepTyped, StepSafe DEF TypedStep, Typed
<1>3. Typed /\ Safe => ScanWithinLimits
  BY SafeWithinLimits
<1> QED
  BY <1>1, <1>2, <1>3, PTL DEF RegistrySpec

LEMMA ManualStep ==
  ASSUME Typed, Safe, [RegistryNext]_registryVars, ScannerStep
  PROVE  \A i \in scan.manual : row'[i] = row[i]
<1>1. /\ row \in [Ids -> Row \cup {NoRow}] /\ scan.manual \subseteq Ids
      /\ cmd[Scanner].at \in {"write", "overwrite"} => cmd[Scanner].id \in Ids /\ cmd[Scanner].id \notin scan.manual
  BY ScannerWrites DEF Typed, RegistryTypeOK, ScanType, CommandsOK, Safe, ManualRowsSafe
<1>2. CASE scan' = scan /\ cmd'[Scanner] = cmd[Scanner]
  BY <1>2 DEF ScannerStep
<1>3. CASE CheckConflicts(Scanner) \/ FindSession(Scanner)
  BY <1>3 DEF CheckConflicts, FindSession
<1>4. CASE CreateSession(Scanner)
  <2>1. row' = row \/ row' = [row EXCEPT ![Min(Fresh)] = NewRow(Scanner, Head(cmd[Scanner].todo))]
    BY <1>4 DEF CreateSession
  <2>2. Min(Fresh) \notin scan.manual
    BY <1>4, FreshIs DEF CreateSession, Fresh, Unused
  <2> QED
    BY <1>1, <2>1, <2>2
<1>5. CASE OverwriteSession(Scanner)
  BY <1>1, <1>5 DEF OverwriteSession, Flushed
<1>6. CASE CarryOut(Scanner)
  <2>1. cmd[Scanner].at = "write" /\ (row' = row \/ row' = Carried(Scanner))
    BY <1>6 DEF CarryOut
  <2>2. \A j \in Ids : j # cmd[Scanner].id => Carried(Scanner)[j] = row[j]
    BY <2>1, ScannerWrites, CarriedIs
  <2> QED
    BY <1>1, <2>1, <2>2
<1>7. CASE RemoveStaleSessions
  <2>1. \A i \in scan.manual : i \notin scan.stale
    BY DEF Safe, ManualRowsSafe
  <2>2. \A i \in Ids : i \notin scan.stale => row'[i] = row[i]
    BY <1>7 DEF RemoveStaleSessions
  <2> QED
    BY <1>1, <2>1, <2>2
<1>8. CASE ScannerNext
  BY <1>7, <1>8 DEF ScannerNext, FindStale, ChooseCandidates, AllotCash, UpdateForResume, ReadForResume,
                    StartScanned, ScanApplied
<1> QED
  BY <1>2, <1>3, <1>4, <1>5, <1>6, <1>8, StepCases, OthersQuiet

(* requestScan and applyScanResults leave the sessions alone that were manual when the scan last read *)
(* them, whatever the user does with them or with the others in between.                              *)
THEOREM ManualSessionsAreSafe == RegistrySpec => ManualRowsUntouched
<1>1. RegistryInit => Typed /\ Safe
  BY InitTyped, InitSafe
<1>2. Typed /\ Safe /\ [RegistryNext]_registryVars => Typed' /\ Safe'
  BY StepTyped, StepSafe DEF TypedStep, Typed
<1>3. Typed /\ Safe /\ [RegistryNext]_registryVars =>
        [ScannerStep => \A i \in scan.manual : row'[i] = row[i]]_registryVars
  BY ManualStep
<1> QED
  BY <1>1, <1>2, <1>3, PTL DEF RegistrySpec, ManualRowsUntouched

-----------------------------------------------------------------------------
(* ScheduledScan. *)

Busy == applying \cup releasing

(***************************************************************************)
(* The strengthening.  A request id is fresh until its trigger takes the   *)
(* row; its scan is queued only once the trigger is past its emit, and an  *)
(* event or a handler only comes from a queued scan.  A row that carries a *)
(* request's own mark has not been claimed for it: nobody handles that     *)
(* request and nothing of it was applied.                                  *)
(***************************************************************************)
FreshRequests ==
    \A r \in Requests : trigger[r] = "unsent" =>
        /\ holder # r
        /\ r \notin overtaken
        /\ job[r] = "none"
        /\ applied[r] = 0

EventsOfScans ==
    /\ \A r \in Requests : job[r] # "none" => trigger[r] \in {"failing", "ended"}
    /\ \A i \in Instances, r \in Requests : <<i, r>> \in inbox \cup Busy => job[r] # "none"

UnclaimedMark ==
    /\ mark = "request" =>
         /\ holder \in Requests \ overtaken
         /\ handler = NoOne
         /\ applied[holder] = 0
         /\ \A i \in Instances : <<i, holder>> \notin Busy
    /\ mark = "handling" => holder \in Requests

OneHandler ==
    /\ \A r \in Requests, i, j \in Instances : <<i, r>> \in Busy /\ <<j, r>> \in Busy => i = j
    /\ \A i \in Instances, r \in Requests :
         <<i, r>> \in applying => <<i, r>> \notin releasing /\ applied[r] = 0

IInv ==
    /\ TypeOK
    /\ FreshRequests
    /\ EventsOfScans
    /\ UnclaimedMark
    /\ OneHandler
    /\ WorkerKeepsRow

-----------------------------------------------------------------------------
(* The initial states satisfy the invariant. *)
LEMMA InitIInv == Init => IInv
  BY ScheduledScanAssumption
  DEF Init, IInv, TypeOK, FreshRequests, EventsOfScans, UnclaimedMark, OneHandler,
      WorkerKeepsRow, Busy, Marks, Pairs

(* Time and the market-data service leave the row's owner and its workers alone. *)
LEMMA MarketDataIInv ==
    ASSUME IInv, NEW r \in Requests, MarketData(r)
    PROVE  IInv'
<1> USE DEF IInv, TypeOK, lockVars, scanVars, handlerVars
<1>1. TypeOK'
  BY DEF MarketData, StartScan, ReadMarketRegimeState, WriteMarketRegimeState, ScanThrows,
         EmitBackendEventWithRetry, Pairs
<1>2. /\ UNCHANGED <<lockVars, trigger, handlerVars, overtaken>>
      /\ \A q \in Requests : job'[q] = "none" <=> job[q] = "none"
      /\ \A i \in Instances, q \in Requests : <<i, q>> \in inbox' => <<i, q>> \in inbox \/ q = r
      /\ job[r] # "none"
  BY DEF MarketData, StartScan, ReadMarketRegimeState, WriteMarketRegimeState, ScanThrows,
         EmitBackendEventWithRetry
<1>3. FreshRequests' /\ EventsOfScans'
  BY <1>2 DEF FreshRequests, EventsOfScans, Busy
<1>4. UnclaimedMark' /\ OneHandler' /\ WorkerKeepsRow'
  BY <1>2 DEF UnclaimedMark, OneHandler, WorkerKeepsRow, Busy, OwnedBy
<1>5. QED
  BY <1>1, <1>3, <1>4

(* triggerScan: taking the row, emitting the request, and giving the row back. *)
LEMMA BackendIInv ==
    ASSUME IInv, NEW r \in Requests, Backend(r)
    PROVE  IInv'
<1> USE ScheduledScanAssumption DEF IInv, TypeOK, lockVars, scanVars, handlerVars, Marks
<1>1. CASE TriggerScan(r)
  <2> USE <1>1 DEF TriggerScan, AcquireScanLock
  <2>1. TypeOK'
    BY DEF UnclaimedMark
  <2>2. FreshRequests' /\ EventsOfScans'
    BY DEF FreshRequests, EventsOfScans, UnclaimedMark, Busy
  <2>3. UnclaimedMark'
    BY DEF FreshRequests, EventsOfScans, UnclaimedMark, Busy
  <2>4. OneHandler'
    BY DEF OneHandler, Busy
  <2>5. WorkerKeepsRow'
    BY DEF WorkerKeepsRow, FreshRequests, EventsOfScans, Busy, OwnedBy
  <2>6. QED
    BY <2>1, <2>2, <2>3, <2>4, <2>5
<1>2. CASE RequestScan(r) \/ RequestScanThrows(r)
  BY <1>2
  DEF RequestScan, RequestScanThrows, FreshRequests, EventsOfScans, UnclaimedMark, OneHandler,
      WorkerKeepsRow, Busy, OwnedBy
<1>3. CASE ReleaseAfterThrow(r)
  <2> USE <1>3 DEF ReleaseAfterThrow, ReleaseScanLock, OwnedBy
  <2>1. TypeOK'
    OBVIOUS
  <2>2. FreshRequests' /\ EventsOfScans'
    BY DEF FreshRequests, EventsOfScans, Busy
  <2>3. UnclaimedMark' /\ OneHandler'
    BY DEF UnclaimedMark, OneHandler, Busy
  <2>4. WorkerKeepsRow'
    BY DEF WorkerKeepsRow, UnclaimedMark, Busy
  <2>5. QED
    BY <2>1, <2>2, <2>3, <2>4
<1>4. QED
  BY <1>1, <1>2, <1>3 DEF Backend

(* A result: claimed by at most one instance, applied, and the row released. *)
LEMMA HandleIInv ==
    ASSUME IInv, NEW i \in Instances, NEW r \in Requests, Handle(i, r)
    PROVE  IInv'
<1> USE ScheduledScanAssumption DEF IInv, TypeOK, lockVars, scanVars, handlerVars, Marks
<1>1. CASE ReceiveResult(i, r)
  <2>1. CASE UNCHANGED <<lockVars, applying>>
    BY <1>1, <2>1
    DEF ReceiveResult, FreshRequests, EventsOfScans, UnclaimedMark, OneHandler, WorkerKeepsRow,
        Busy, OwnedBy
  <2>2. CASE Claimable(r) /\ ClaimResultHandlingLock(i, r)
    <3> USE <1>1, <2>2 DEF ReceiveResult, Claimable, ClaimResultHandlingLock
    <3>1. TypeOK'
      BY DEF Pairs
    <3>2. FreshRequests' /\ EventsOfScans'
      BY DEF FreshRequests, EventsOfScans, Busy
    <3>3. UnclaimedMark' /\ OneHandler'
      BY DEF UnclaimedMark, OneHandler, Busy
    <3>4. WorkerKeepsRow'
      BY DEF WorkerKeepsRow, EventsOfScans, Busy, OwnedBy
    <3>5. QED
      BY <3>1, <3>2, <3>3, <3>4
  <2>3. QED
    BY <1>1, <2>1, <2>2 DEF ReceiveResult
<1>2. CASE ApplyScanResults(i, r)
  <2> USE <1>2 DEF ApplyScanResults
  <2>1. TypeOK'
    BY DEF OneHandler, Pairs
  <2>2. Busy' = Busy
    BY DEF Busy
  <2>3. FreshRequests' /\ EventsOfScans'
    BY <2>2 DEF FreshRequests, EventsOfScans, Busy
  <2>4. UnclaimedMark' /\ WorkerKeepsRow'
    BY <2>2 DEF UnclaimedMark, WorkerKeepsRow, Busy, OwnedBy
  <2>5. OneHandler'
    BY <2>2 DEF OneHandler, Busy
  <2>6. QED
    BY <2>1, <2>3, <2>4, <2>5
<1>3. CASE ReleaseAfterHandling(i, r)
  <2> USE <1>3 DEF ReleaseAfterHandling, ReleaseScanLock, OwnedBy
  <2>1. TypeOK'
    OBVIOUS
  <2>2. FreshRequests' /\ EventsOfScans'
    BY DEF FreshRequests, EventsOfScans, Busy
  <2>3. UnclaimedMark' /\ OneHandler'
    BY DEF UnclaimedMark, OneHandler, Busy
  <2>4. WorkerKeepsRow'
    BY DEF WorkerKeepsRow, OneHandler, Busy
  <2>5. QED
    BY <2>1, <2>2, <2>3, <2>4
<1>4. QED
  BY <1>1, <1>2, <1>3 DEF Handle

(* Restarts only take triggers, events and handlers away. *)
LEMMA RestartIInv ==
    ASSUME IInv,
           \/ \E i \in Instances, ran \in SUBSET Requests : BackendRestarts(i, ran)
           \/ MarketDataRestarts
    PROVE  IInv'
<1> USE DEF IInv, TypeOK, lockVars, scanVars, handlerVars
<1>1. CASE \E i \in Instances, ran \in SUBSET Requests : BackendRestarts(i, ran)
  <2> PICK i \in Instances, ran \in SUBSET Requests : BackendRestarts(i, ran)
    BY <1>1
  <2>1. TypeOK'
    BY DEF BackendRestarts, Pairs
  <2>2. /\ inbox' \subseteq inbox /\ applying' \subseteq applying /\ releasing' \subseteq releasing
        /\ \A r \in Requests :
             trigger'[r] = trigger[r] \/ (trigger[r] # "unsent" /\ trigger'[r] = "ended")
        /\ UNCHANGED <<lockVars, scanVars, applied, overtaken>>
    BY DEF BackendRestarts
  <2>3. FreshRequests' /\ EventsOfScans'
    BY <2>2 DEF FreshRequests, EventsOfScans, Busy
  <2>4. UnclaimedMark' /\ OneHandler'
    BY <2>2 DEF UnclaimedMark, OneHandler, Busy
  <2>5. WorkerKeepsRow'
    BY <2>2 DEF WorkerKeepsRow, OwnedBy
  <2>6. QED
    BY <2>1, <2>3, <2>4, <2>5
<1>2. CASE MarketDataRestarts
  BY <1>2
  DEF MarketDataRestarts, FreshRequests, EventsOfScans, UnclaimedMark, OneHandler,
      WorkerKeepsRow, Busy, OwnedBy
<1>3. QED
  BY <1>1, <1>2

(* Every step keeps the invariant. *)
LEMMA NextIInv == IInv /\ [Next]_vars => IInv'
<1> SUFFICES ASSUME IInv, [Next]_vars PROVE IInv'
  OBVIOUS
<1>1. CASE Tick
  BY <1>1, ScheduledScanAssumption
  DEF Tick, IInv, TypeOK, FreshRequests, EventsOfScans, UnclaimedMark, OneHandler,
      WorkerKeepsRow, Busy, OwnedBy, scanVars, handlerVars
<1>2. CASE UNCHANGED vars
  BY <1>2
  DEF vars, IInv, TypeOK, FreshRequests, EventsOfScans, UnclaimedMark, OneHandler,
      WorkerKeepsRow, Busy, OwnedBy
<1>3. QED
  BY <1>1, <1>2, MarketDataIInv, BackendIInv, HandleIInv, RestartIInv DEF Next

LEMMA Invariance == Spec => []IInv
  BY InitIInv, NextIInv, PTL DEF Spec

-----------------------------------------------------------------------------
(* The theorems. *)

(* The row, the tasks and the remaining TTL keep their types. *)
THEOREM TypeCorrect == Spec => []TypeOK
<1>1. IInv => TypeOK
  BY DEF IInv
<1>2. QED
  BY <1>1, Invariance, PTL

(* However many instances receive a scan's result, and however often, one of *)
(* them applies it, once.                                                    *)
THEOREM ResultsAreAppliedOnce == Spec => []AppliedOnce
<1>1. IInv => AppliedOnce
  BY DEF IInv, AppliedOnce, TypeOK, OneHandler, Busy
<1>2. QED
  BY <1>1, Invariance, PTL

(* A late release by a handler whose row was taken over never frees the row of *)
(* the request that took it.                                                   *)
THEOREM WorkersKeepTheRow == Spec => []WorkerKeepsRow
<1>1. IInv => WorkerKeepsRow
  BY DEF IInv
<1>2. QED
  BY <1>1, Invariance, PTL

(* A request whose row was taken over is never claimed afterwards. *)
THEOREM OvertakenResultsAreDropped == Spec => OvertakenNotClaimed
<1>1. IInv /\ [Next]_vars
        => [\A p \in Pairs : p[2] \in overtaken /\ p \notin applying => p \notin applying']_vars
  <2> SUFFICES ASSUME IInv, Next, NEW p \in Pairs, p[2] \in overtaken, p \notin applying,
                      p \in applying'
               PROVE  FALSE
    OBVIOUS
  <2>1. PICK i \in Instances, r \in Requests : ReceiveResult(i, r) /\ applying' # applying
    BY DEF Next, Backend, TriggerScan, RequestScan, RequestScanThrows, ReleaseAfterThrow,
           MarketData, StartScan, ReadMarketRegimeState, WriteMarketRegimeState, ScanThrows,
           EmitBackendEventWithRetry, Handle, ApplyScanResults, ReleaseAfterHandling,
           BackendRestarts, MarketDataRestarts, Tick, handlerVars
  <2>2. Claimable(r) /\ p = <<i, r>>
    BY <2>1 DEF ReceiveResult
  <2>3. r \notin overtaken
    BY <2>2 DEF Claimable, IInv, UnclaimedMark
  <2>4. QED
    BY <2>2, <2>3
<1>2. QED
  BY <1>1, Invariance, PTL DEF Spec, OvertakenNotClaimed

=============================================================================
