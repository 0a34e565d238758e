----------------------- MODULE StockCollectionProofs -----------------------
(***************************************************************************)
(* Theorems about StockCollection for any stocks, any number of            *)
(* collections that overlap, any window and any week.                      *)
(***************************************************************************)
EXTENDS StockCollection, TLAPS

(***************************************************************************)
(* The strengthening: what a collection knows of the stock it works on.    *)
(* Up to the save point it has read, and behind the day it fetches from,   *)
(* every day of the window is settled: stored, or known to be a hole.  Of  *)
(* the days it has fetched each is settled, new or without a close, from   *)
(* the oldest up to the newest.  Nothing of it is lost while other         *)
(* collections run, because days of the window only become settled, and    *)
(* because no day ends before every collection has.                        *)
(***************************************************************************)
Due == {age \in 0 .. Lookback : IsOpen(age)}
Settled(s) == prices[s] \cup holes[s]

ReadIsSettled(r) ==
    /\ run[r].savepoint \in Nat \cup {None}
    /\ run[r].savepoint # None =>
          \A age \in Due : run[r].savepoint <= age => age \in Settled(Current(r))

BehindIsSettled(r) ==
    /\ run[r].from \in Int /\ run[r].from <= Lookback
    /\ \A age \in Due : age > run[r].from => age \in Settled(Current(r))

FetchedIsKnown(r) ==
    /\ run[r].new \subseteq Due
    /\ \A newest \in run[r].new, age \in Due :
          newest <= age => age \in Settled(Current(r)) \cup run[r].new \cup run[r].blank

RunOK(r) ==
    Current(r) \in Stocks =>
        /\ run[r].pc = "oldest" => ReadIsSettled(r)
        /\ run[r].pc = "asking" => BehindIsSettled(r)
        /\ run[r].pc \in {"found", "stored"} => FetchedIsKnown(r)
        /\ run[r].pc = "stored" => run[r].new \subseteq Settled(Current(r))

IsRun(x) ==
    x = [pc |-> x.pc, todo |-> x.todo, loaded |-> x.loaded, from |-> x.from, savepoint |-> x.savepoint,
         new |-> x.new, blank |-> x.blank]

TypeOK ==
    /\ weekday \in 0 .. (Week - 1)
    /\ DOMAIN prices = Stocks /\ prices = [s \in Stocks |-> prices[s]]
    /\ savepoint \in [Stocks -> Nat \cup {None}]
    /\ DOMAIN holes = Stocks /\ holes = [s \in Stocks |-> holes[s]]
    /\ DOMAIN run = Runs /\ run = [r \in Runs |-> run[r]]
    /\ \A r \in Runs : IsRun(run[r])

IInv == TypeOK /\ NoGapBelowSavepoint /\ \A r \in Runs : RunOK(r)

-----------------------------------------------------------------------------
(* The week goes round. *)

LEMMA ModPeriod ==
  ASSUME NEW w \in Nat \ {0}, NEW x \in Int
  PROVE  (x - w) % w = x % w
<1> DEFINE y == x - w
           q == y \div w
           r == y % w
<1>1. y \in Int
  OBVIOUS
<1> HIDE DEF y
<1>2. q \in Int /\ r \in 0 .. w - 1
  BY <1>1
<1>3. r = y - w * q
  BY <1>1
<1> HIDE DEF q, r
<1>4. y = w * q + r
  BY <1>1, <1>2, <1>3
<1>5. x = w * (q + 1) + r /\ q + 1 \in Int
  BY <1>2, <1>4 DEF y
<1> DEFINE p == q + 1
<1>6. x = w * p + r /\ p \in Int
  BY <1>5
<1> HIDE DEF p
<1>7. r = x % w
  BY <1>2, <1>6
<1> QED
  BY <1>7 DEF r, y

(* A day ends: what was open is open, one day older. *)
LEMMA OpenShifts ==
  ASSUME TypeOK, EndOfDay, NEW age \in Int
  PROVE  IsOpen(age)' <=> IsOpen(age - 1)
<1>1. Week \in Nat \ {0} /\ weekday \in Int
  BY CollectionAssumption DEF TypeOK
<1>2. weekday' = IF weekday + 1 = Week THEN 0 ELSE weekday + 1
  BY DEF EndOfDay
<1> DEFINE x == weekday - (age - 1)
<1>3. x \in Int
  BY <1>1
<1>4. CASE weekday + 1 = Week
  <2>1. weekday' - age = x - Week
    BY <1>1, <1>2, <1>4
  <2> HIDE DEF x
  <2>2. (x - Week) % Week = x % Week
    BY <1>1, <1>3, ModPeriod
  <2>3. (weekday' - age) % Week = x % Week
    BY <2>1, <2>2
  <2> QED
    BY <2>3 DEF IsOpen, x
<1>5. CASE weekday + 1 # Week
  <2>1. weekday' - age = x
    BY <1>1, <1>2, <1>5
  <2> QED
    BY <2>1 DEF IsOpen
<1> QED
  BY <1>4, <1>5

-----------------------------------------------------------------------------
(* A step of one collection.  More and more days of the window are settled. *)

SettledThen(s) == prices'[s] \cup holes'[s]

Grows == \A s \in Stocks : Settled(s) \cap (0 .. Lookback) \subseteq SettledThen(s)

LEMMA OthersStay ==
  ASSUME IInv, UNCHANGED weekday, Grows, NEW q \in Runs, run'[q] = run[q]
  PROVE  RunOK(q)'
<1>1. Current(q)' = Current(q) /\ Due' = Due /\ RunOK(q)
  BY DEF Current, Due, IsOpen, IInv
<1>2. Due \subseteq 0 .. Lookback
  BY DEF Due
<1> DEFINE s == Current(q)
<1>3. ASSUME s \in Stocks, NEW age \in Due, age \in Settled(s) PROVE age \in SettledThen(s)
  BY <1>2, <1>3 DEF Grows
<1> SUFFICES ASSUME s \in Stocks PROVE RunOK(q)'
  BY <1>1 DEF RunOK
<1>4. run[q].pc = "oldest" => ReadIsSettled(q)'
  BY <1>1, <1>3 DEF RunOK, ReadIsSettled, Settled, SettledThen
<1>5. run[q].pc = "asking" => BehindIsSettled(q)'
  BY <1>1, <1>3 DEF RunOK, BehindIsSettled, Settled, SettledThen
<1>6. run[q].pc \in {"found", "stored"} => FetchedIsKnown(q)'
  BY <1>1, <1>3 DEF RunOK, FetchedIsKnown, Settled, SettledThen
<1>7. run[q].pc = "stored" => run[q].new \subseteq SettledThen(s)
  BY <1>1, <1>3 DEF RunOK, FetchedIsKnown
<1> QED
  BY <1>1, <1>4, <1>5, <1>6, <1>7 DEF RunOK, Settled, SettledThen

LEMMA GapStays ==
  ASSUME IInv, UNCHANGED <<weekday, savepoint>>, Grows
  PROVE  NoGapBelowSavepoint'
<1>1. ASSUME NEW s \in Stocks PROVE (Owed(s) \ holes[s])' \subseteq Owed(s) \ holes[s]
  BY DEF Owed, IsOpen, Grows, Settled, SettledThen
<1> QED
  BY <1>1 DEF IInv, NoGapBelowSavepoint

LEMMA RunMoves ==
  ASSUME IInv, UNCHANGED weekday, Grows, NEW r \in Runs, NEW x, IsRun(x), run' = [run EXCEPT ![r] = x],
         RunOK(r)', NoGapBelowSavepoint',
         DOMAIN prices' = Stocks, prices' = [s \in Stocks |-> prices'[s]],
         DOMAIN holes' = Stocks, holes' = [s \in Stocks |-> holes'[s]],
         savepoint' \in [Stocks -> Nat \cup {None}]
  PROVE  IInv'
<1>1. \A q \in Runs : q # r => run'[q] = run[q]
  BY DEF IInv, TypeOK
<1>2. \A q \in Runs : RunOK(q)'
  BY <1>1, OthersStay
<1>3. TypeOK'
  BY DEF IInv, TypeOK
<1> QED
  BY <1>2, <1>3 DEF IInv

(* A collection begins, or goes on to the next stock: nothing is claimed of it. *)
LEMMA RunIsFree ==
  ASSUME IInv, UNCHANGED <<weekday, prices, savepoint, holes>>, NEW r \in Runs, NEW x, IsRun(x),
         x.pc \notin {"oldest", "asking", "found", "stored"}, run' = [run EXCEPT ![r] = x]
  PROVE  IInv'
<1>1. run'[r].pc = x.pc
  BY DEF IInv, TypeOK
<1>2. RunOK(r)' /\ Grows
  BY <1>1 DEF RunOK, Grows, Settled, SettledThen
<1> QED
  BY <1>2, GapStays, RunMoves DEF IInv, TypeOK

LEMMA RecordIsRun ==
  ASSUME NEW a, NEW b, NEW c, NEW d, NEW e, NEW f, NEW g, NEW x,
         x = [pc |-> a, todo |-> b, loaded |-> c, from |-> d, savepoint |-> e, new |-> f, blank |-> g]
  PROVE  /\ IsRun(x) /\ x.pc = a /\ x.todo = b /\ x.from = d /\ x.savepoint = e
         /\ x.new = f /\ x.blank = g
  BY DEF IsRun

(* A collection goes on without having learnt anything. *)
LEMMA PcIsRun ==
  ASSUME NEW y, IsRun(y), NEW p, NEW x, x = [y EXCEPT !.pc = p]
  PROVE  /\ IsRun(x) /\ x.pc = p /\ x.todo = y.todo /\ x.from = y.from /\ x.savepoint = y.savepoint
         /\ x.new = y.new /\ x.blank = y.blank
<1>1. y = [pc |-> y.pc, todo |-> y.todo, loaded |-> y.loaded, from |-> y.from, savepoint |-> y.savepoint,
           new |-> y.new, blank |-> y.blank]
  BY DEF IsRun
<1>2. x = [pc |-> p, todo |-> y.todo, loaded |-> y.loaded, from |-> y.from, savepoint |-> y.savepoint,
           new |-> y.new, blank |-> y.blank]
  BY <1>1
<1> QED
  BY <1>2, RecordIsRun

LEMMA IdleIsRun == IsRun(IdleRun) /\ IdleRun.pc = "idle"
  BY RecordIsRun DEF IdleRun

LEMMA NextStockIsRun ==
  ASSUME TypeOK, NEW r \in Runs
  PROVE  IsRun(NextStock(r)) /\ NextStock(r).pc = "next"
<1> DEFINE x == run[r]
           t == x.todo \ {Current(r)}
<1>1. x = [pc |-> x.pc, todo |-> x.todo, loaded |-> x.loaded, from |-> x.from, savepoint |-> x.savepoint,
           new |-> x.new, blank |-> x.blank]
  BY DEF TypeOK, IsRun
<1>2. NextStock(r) = [x EXCEPT !.pc = "next", !.todo = t, !.from = 0, !.savepoint = None, !.new = {},
                               !.blank = {}]
  BY DEF NextStock
<1> HIDE DEF x, t
<1>3. NextStock(r) = [pc |-> "next", todo |-> t, loaded |-> x.loaded, from |-> 0, savepoint |-> None,
                      new |-> {}, blank |-> {}]
  BY <1>1, <1>2
<1> QED
  BY <1>3, RecordIsRun

LEMMA CollectAllInv ==
  ASSUME IInv, UNCHANGED <<weekday, prices, savepoint, holes>>, CollectAll \/ run' = run
  PROVE  IInv'
<1>1. CASE CollectAll
  <2>1. PICK r \in Runs : run' = [run EXCEPT ![r] = Begun]
    BY <1>1 DEF CollectAll
  <2> DEFINE y == IdleRun
             l == [s \in Stocks |-> Absent]
  <2>2. y = [pc |-> "idle", todo |-> {}, loaded |-> l, from |-> 0, savepoint |-> None, new |-> {},
             blank |-> {}]
    BY DEF IdleRun
  <2>3. Begun = [y EXCEPT !.pc = "loaded", !.todo = csv, !.loaded = rows]
    BY DEF Begun
  <2> HIDE DEF y, l
  <2>4. Begun = [pc |-> "loaded", todo |-> csv, loaded |-> rows, from |-> 0, savepoint |-> None, new |-> {},
                 blank |-> {}]
    BY <2>2, <2>3
  <2>5. IsRun(Begun) /\ Begun.pc = "loaded"
    BY <2>4, RecordIsRun
  <2>6. Begun.pc \notin {"oldest", "asking", "found", "stored"}
    BY <2>5
  <2> QED
    BY <2>1, <2>5, <2>6, RunIsFree
<1>2. CASE run' = run
  <2>1. Grows
    BY DEF Grows, Settled, SettledThen
  <2>2. \A q \in Runs : RunOK(q)'
    BY <1>2, <2>1, OthersStay
  <2> QED
    BY <1>2, <2>1, <2>2, GapStays DEF IInv, TypeOK
<1> QED
  BY <1>1, <1>2

LEMMA ReconcileInv ==
  ASSUME IInv, NEW r \in Runs, Reconcile(r)
  PROVE  IInv'
<1> DEFINE x == [run[r] EXCEPT !.pc = "next", !.loaded = IdleRun.loaded]
<1>1. run' = [run EXCEPT ![r] = x] /\ UNCHANGED <<weekday, savepoint, holes>>
  BY DEF Reconcile, calendar
<1>2. IsRun(x) /\ x.pc = "next"
  <2> DEFINE y == run[r]
             l == IdleRun.loaded
  <2>1. y = [pc |-> y.pc, todo |-> y.todo, loaded |-> y.loaded, from |-> y.from,
             savepoint |-> y.savepoint, new |-> y.new, blank |-> y.blank]
    BY DEF IInv, TypeOK, IsRun
  <2>2. x = [y EXCEPT !.pc = "next", !.loaded = l]
    OBVIOUS
  <2> HIDE DEF x, y, l
  <2>3. x = [pc |-> "next", todo |-> y.todo, loaded |-> l, from |-> y.from, savepoint |-> y.savepoint,
             new |-> y.new, blank |-> y.blank]
    BY <2>1, <2>2
  <2> QED
    BY <2>3, RecordIsRun
<1>3. prices' = [s \in Stocks |-> IF ~retain \/ rows'[s].delisted = None THEN prices[s]
                                  ELSE {age \in prices[s] : age <= Retention}]
  BY DEF Reconcile
<1>4. DOMAIN prices' = Stocks /\ prices' = [s \in Stocks |-> prices'[s]] /\ Grows
  <2>1. DOMAIN prices' = Stocks /\ prices' = [s \in Stocks |-> prices'[s]]
    BY <1>3
  <2> SUFFICES ASSUME NEW s \in Stocks PROVE prices[s] \cap (0 .. Lookback) \subseteq prices'[s]
    BY <1>1, <2>1 DEF Grows, Settled, SettledThen
  <2> DEFINE kept == {age \in prices[s] : age <= Retention}
  <2> DEFINE P == ~retain \/ rows'[s].delisted = None
  <2>2. prices'[s] = IF P THEN prices[s] ELSE kept
    BY <1>3
  <2> HIDE DEF P
  <2>3. \A age \in 0 .. Lookback : age <= Retention
    BY CollectionAssumption
  <2> QED
    BY <2>2, <2>3
<1> HIDE DEF x
<1>5. RunOK(r)'
  <2>1. run'[r].pc = "next"
    BY <1>1, <1>2 DEF IInv, TypeOK
  <2> QED
    BY <2>1 DEF RunOK
<1> QED
  BY <1>1, <1>2, <1>4, <1>5, GapStays, RunMoves DEF IInv, TypeOK

(* Before Yahoo is asked. *)

LEMMA FindStockInv ==
  ASSUME IInv, NEW r \in Runs, FindStock(r) \/ InsertStock(r)
  PROVE  IInv'
<1>1. PICK x : /\ \/ \E p \in {"trim", "insert"} : x = [run[r] EXCEPT !.pc = p]
                  \/ x = NextStock(r)
               /\ run' = [run EXCEPT ![r] = x] /\ UNCHANGED <<weekday, prices, savepoint, holes>>
  <2>1. CASE FindStock(r)
    <3>1. \E p \in {"trim", "insert"} : run' = [run EXCEPT ![r] = [run[r] EXCEPT !.pc = p]]
      BY <2>1 DEF FindStock
    <3> QED
      BY <2>1, <3>1 DEF FindStock, calendar, tables
  <2>2. CASE InsertStock(r)
    <3>1. \/ run' = [run EXCEPT ![r] = [run[r] EXCEPT !.pc = "trim"]]
          \/ run' = [run EXCEPT ![r] = NextStock(r)]
      BY <2>2 DEF InsertStock
    <3> QED
      BY <2>2, <3>1 DEF InsertStock, calendar
  <2> QED
    BY <2>1, <2>2
<1>2. IsRun(run[r]) /\ TypeOK
  BY DEF IInv, TypeOK
<1>3. IsRun(x) /\ x.pc \in {"trim", "insert", "next"}
  <2>1. CASE \E p \in {"trim", "insert"} : x = [run[r] EXCEPT !.pc = p]
    BY <1>2, <2>1, PcIsRun
  <2>2. CASE x = NextStock(r)
    BY <1>2, <2>2, NextStockIsRun
  <2> QED
    BY <1>1, <2>1, <2>2
<1> QED
  BY <1>1, <1>3, RunIsFree

LEMMA TrimPricesInv ==
  ASSUME IInv, NEW r \in Runs, TrimPrices(r)
  PROVE  IInv'
<1> DEFINE s == Current(r)
           kept == {age \in prices[s] : age <= Lookback}
           y == run[r]
           x == [y EXCEPT !.pc = "savepoint"]
<1>1. /\ run' = [run EXCEPT ![r] = x] /\ UNCHANGED <<weekday, savepoint, holes>>
      /\ prices' = [prices EXCEPT ![s] = kept]
  BY DEF TrimPrices, calendar
<1>2. TypeOK /\ IsRun(y)
  BY DEF IInv, TypeOK
<1>3. IsRun(x) /\ x.pc = "savepoint"
  BY <1>2, PcIsRun
<1> HIDE DEF s, kept, x
<1>4. /\ \A t \in Stocks : prices'[t] = IF t = s THEN kept ELSE prices[t]
      /\ DOMAIN prices' = Stocks /\ prices' = [t \in Stocks |-> prices'[t]]
  BY <1>1, <1>2 DEF TypeOK
<1>5. prices[s] \cap (0 .. Lookback) \subseteq kept
  BY CollectionAssumption DEF kept
<1>6. Grows
  BY <1>1, <1>4, <1>5 DEF Grows, Settled, SettledThen
<1>7. RunOK(r)'
  <2>1. run'[r].pc = "savepoint"
    BY <1>1, <1>2, <1>3 DEF TypeOK
  <2> QED
    BY <2>1 DEF RunOK
<1> QED
  BY <1>1, <1>2, <1>3, <1>4, <1>6, <1>7, GapStays, RunMoves DEF TypeOK

(* What is behind the save point is settled when it is read. *)
LEMMA FindSavepointInv ==
  ASSUME IInv, NEW r \in Runs, FindSavepoint(r)
  PROVE  IInv'
<1> DEFINE s == Current(r)
           y == run[r]
           saved == savepoint[s]
           x == [y EXCEPT !.pc = "oldest", !.savepoint = saved]
<1>1. run' = [run EXCEPT ![r] = x] /\ UNCHANGED <<weekday, prices, savepoint, holes>>
  BY DEF FindSavepoint, calendar, tables
<1>2. TypeOK /\ IsRun(y)
  BY DEF IInv, TypeOK
<1>3. IsRun(x) /\ x.pc = "oldest" /\ x.savepoint = saved /\ x.todo = y.todo
  <2>1. y = [pc |-> y.pc, todo |-> y.todo, loaded |-> y.loaded, from |-> y.from,
             savepoint |-> y.savepoint, new |-> y.new, blank |-> y.blank]
    BY <1>2 DEF IsRun
  <2>3. x = [y EXCEPT !.pc = "oldest", !.savepoint = saved]
    OBVIOUS
  <2> HIDE DEF y, saved, x
  <2>2. x = [pc |-> "oldest", todo |-> y.todo, loaded |-> y.loaded, from |-> y.from,
             savepoint |-> saved, new |-> y.new, blank |-> y.blank]
    BY <2>1, <2>3
  <2> QED
    BY <2>2, RecordIsRun
<1>4. ASSUME s \in Stocks
      PROVE  /\ saved \in Nat \cup {None}
             /\ saved # None => \A age \in Due : saved <= age => age \in Settled(s)
  <2>1. saved \in Nat \cup {None}
    BY <1>2, <1>4 DEF TypeOK
  <2>2. ASSUME saved # None, NEW age \in Due, saved <= age PROVE age \in Settled(s)
    <3>1. saved # None => \A a \in Owed(s) \ holes[s] : a < saved
      BY <1>4 DEF IInv, NoGapBelowSavepoint
    <3>2. ~(age < saved) /\ age \in 0 .. Lookback /\ IsOpen(age)
      BY <2>1, <2>2 DEF Due, None
    <3> QED
      BY <2>2, <3>1, <3>2 DEF Owed, Settled
  <2> QED
    BY <2>1, <2>2
<1> HIDE DEF x, saved
<1>5. run'[r] = x
  BY <1>1, <1>2 DEF TypeOK
<1>6. RunOK(r)'
  <2>1. Current(r)' = s /\ Due' = Due /\ SettledThen(s) = Settled(s)
    BY <1>1, <1>3, <1>5 DEF Current, Due, IsOpen, Settled, SettledThen
  <2>2. s \in Stocks => ReadIsSettled(r)'
    BY <1>3, <1>4, <1>5, <2>1 DEF ReadIsSettled, Settled, SettledThen
  <2> QED
    BY <1>3, <1>5, <2>1, <2>2 DEF RunOK
<1>7. Grows
  BY <1>1 DEF Grows, Settled, SettledThen
<1> QED
  BY <1>1, <1>2, <1>3, <1>6, <1>7, GapStays, RunMoves DEF TypeOK

LEMMA FindOldestPriceInv ==
  ASSUME IInv, NEW r \in Runs, FindOldestPrice(r)
  PROVE  IInv'
<1> DEFINE s == Current(r)
           y == run[r]
           from == FetchFrom(prices[s], y.savepoint)
           asking == [y EXCEPT !.pc = "asking", !.from = from]
           x == IF \E age \in 0 .. from : IsOpen(age) THEN asking ELSE NextStock(r)
<1>1. /\ run' = [run EXCEPT ![r] = x] /\ UNCHANGED <<weekday, prices, savepoint, holes>>
      /\ y.pc = "oldest"
  BY DEF FindOldestPrice, calendar, tables
<1>2. TypeOK /\ IsRun(y) /\ RunOK(r)
  BY DEF IInv, TypeOK
<1>3. IsRun(asking) /\ asking.pc = "asking" /\ asking.from = from /\ asking.todo = y.todo
  <2>1. y = [pc |-> y.pc, todo |-> y.todo, loaded |-> y.loaded, from |-> y.from,
             savepoint |-> y.savepoint, new |-> y.new, blank |-> y.blank]
    BY <1>2 DEF IsRun
  <2>3. asking = [y EXCEPT !.pc = "asking", !.from = from]
    OBVIOUS
  <2> HIDE DEF y, from, asking
  <2>2. asking = [pc |-> "asking", todo |-> y.todo, loaded |-> y.loaded, from |-> from,
                  savepoint |-> y.savepoint, new |-> y.new, blank |-> y.blank]
    BY <2>1, <2>3
  <2> QED
    BY <2>2, RecordIsRun
<1>4. x = asking \/ x = NextStock(r)
  OBVIOUS
<1>5. ASSUME s \in Stocks
      PROVE  from \in Int /\ from <= Lookback /\ \A age \in Due : age > from => age \in Settled(s)
  <2>1. ReadIsSettled(r) /\ Lookback \in Int
    BY <1>1, <1>2, <1>5, CollectionAssumption DEF RunOK
  <2>2. CASE from = Lookback
    BY <2>1, <2>2 DEF Due
  <2>3. CASE from # Lookback
    <3>1. from = y.savepoint - 1 /\ y.savepoint # None /\ from < Lookback
      BY <2>3 DEF FetchFrom
    <3>2. y.savepoint \in Nat /\ \A age \in Due : y.savepoint <= age => age \in Settled(s)
      BY <2>1, <3>1 DEF ReadIsSettled
    <3>3. \A age \in Due : age \in Int
      BY DEF Due
    <3> QED
      BY <2>1, <3>1, <3>2, <3>3
  <2> QED
    BY <2>2, <2>3
<1> HIDE DEF from, x, asking
<1>6. run'[r] = x /\ IsRun(x)
  BY <1>1, <1>2, <1>3, <1>4, NextStockIsRun DEF TypeOK
<1>7. RunOK(r)'
  <2>1. CASE x = NextStock(r)
    BY <1>2, <1>6, <2>1, NextStockIsRun DEF RunOK
  <2>2. CASE x = asking
    <3>1. Current(r)' = s /\ Due' = Due /\ SettledThen(s) = Settled(s)
      BY <1>1, <1>3, <1>6, <2>2 DEF Current, Due, IsOpen, Settled, SettledThen
    <3>2. s \in Stocks => BehindIsSettled(r)'
      BY <1>3, <1>5, <1>6, <2>2, <3>1 DEF BehindIsSettled, Settled, SettledThen
    <3> QED
      BY <1>3, <1>6, <2>2, <3>1, <3>2 DEF RunOK
  <2> QED
    BY <1>4, <2>1, <2>2
<1>8. Grows
  BY <1>1 DEF Grows, Settled, SettledThen
<1> QED
  BY <1>1, <1>2, <1>6, <1>7, <1>8, GapStays, RunMoves DEF TypeOK

LEMMA YahooAnswersInv ==
  ASSUME IInv, NEW r \in Runs, NEW last \in Nat, NEW blank, YahooAnswers(r, last, blank)
  PROVE  IInv'
<1> DEFINE s == Current(r)
           y == run[r]
           new == (Candles(y.from, last) \ blank) \ prices[s]
           found == [y EXCEPT !.pc = "found", !.new = new, !.blank = blank]
           x == IF new = {} THEN NextStock(r) ELSE found
<1>1. /\ run' = [run EXCEPT ![r] = x] /\ UNCHANGED <<weekday, prices, savepoint, holes>>
      /\ y.pc = "asking"
  BY DEF YahooAnswers, calendar, tables
<1>2. TypeOK /\ IsRun(y) /\ RunOK(r)
  BY DEF IInv, TypeOK
<1>3. /\ IsRun(found) /\ found.pc = "found" /\ found.new = new /\ found.blank = blank
      /\ found.todo = y.todo
  <2>1. y = [pc |-> y.pc, todo |-> y.todo, loaded |-> y.loaded, from |-> y.from,
             savepoint |-> y.savepoint, new |-> y.new, blank |-> y.blank]
    BY <1>2 DEF IsRun
  <2>3. found = [y EXCEPT !.pc = "found", !.new = new, !.blank = blank]
    OBVIOUS
  <2> HIDE DEF y, new, found
  <2>2. found = [pc |-> "found", todo |-> y.todo, loaded |-> y.loaded, from |-> y.from,
                 savepoint |-> y.savepoint, new |-> new, blank |-> blank]
    BY <2>1, <2>3
  <2> QED
    BY <2>2, RecordIsRun
<1>4. CASE x = NextStock(r)
  <2>1. IsRun(NextStock(r)) /\ NextStock(r).pc \notin {"oldest", "asking", "found", "stored"}
    BY <1>2, NextStockIsRun
  <2> HIDE DEF x
  <2> QED
    BY <1>1, <1>4, <2>1, RunIsFree
<1>5. CASE x = found
  <2>1. run'[r] = found
    BY <1>1, <1>2, <1>5 DEF TypeOK
  <2>2. Current(r)' = s /\ Due' = Due /\ SettledThen(s) = Settled(s)
    BY <1>1, <1>3, <2>1 DEF Current, Due, IsOpen, Settled, SettledThen
  <2>3. ASSUME s \in Stocks PROVE FetchedIsKnown(r)'
    <3>1. BehindIsSettled(r)
      BY <1>1, <1>2, <2>3 DEF RunOK
    <3>2. new \subseteq Due
      BY <3>1, CollectionAssumption DEF BehindIsSettled, Candles, Due
    <3>3. ASSUME NEW newest \in new, NEW age \in Due, newest <= age
          PROVE  age \in Settled(s) \cup new \cup blank
      <4>1. newest \in Int /\ last <= newest /\ age \in 0 .. Lookback /\ IsOpen(age)
        BY <3>1 DEF Candles, Due, BehindIsSettled
      <4>2. CASE age > y.from
        BY <3>1, <4>2 DEF BehindIsSettled
      <4>3. CASE ~(age > y.from)
        <5>1. age \in Candles(y.from, last)
          BY <3>1, <3>3, <4>1, <4>3, CollectionAssumption DEF Candles, BehindIsSettled
        <5> QED
          BY <5>1 DEF Settled
      <4> QED
        BY <4>2, <4>3
    <3> HIDE DEF s, new, found, x
    <3> QED
      BY <1>3, <2>1, <2>2, <3>2, <3>3 DEF FetchedIsKnown, Settled, SettledThen
  <2> HIDE DEF s, new, found, x
  <2>4. RunOK(r)'
    BY <1>3, <2>1, <2>2, <2>3 DEF RunOK
  <2>5. Grows
    BY <1>1 DEF Grows, Settled, SettledThen
  <2> QED
    BY <1>1, <1>2, <1>3, <1>5, <2>4, <2>5, GapStays, RunMoves DEF TypeOK
<1> QED
  BY <1>4, <1>5

LEMMA StorePricesInv ==
  ASSUME IInv, NEW r \in Runs, StorePrices(r)
  PROVE  IInv'
<1> DEFINE s == Current(r)
           y == run[r]
           stored == [y EXCEPT !.pc = "stored"]
<1>1. UNCHANGED <<weekday, savepoint>> /\ y.pc = "found"
  BY DEF StorePrices, calendar
<1>2. TypeOK /\ IsRun(y) /\ RunOK(r)
  BY DEF IInv, TypeOK
<1>3. CASE y.new \cap prices[s] # {}
  <2>1. prices' = prices /\ holes' = holes /\ run' = [run EXCEPT ![r] = NextStock(r)]
    BY <1>3 DEF StorePrices
  <2>2. NextStock(r).pc \notin {"oldest", "asking", "found", "stored"} /\ IsRun(NextStock(r))
    BY <1>2, NextStockIsRun
  <2> QED
    BY <1>1, <2>1, <2>2, RunIsFree
<1>4. CASE y.new \cap prices[s] = {}
  <2>1. /\ prices' = [prices EXCEPT ![s] = prices[s] \cup y.new]
        /\ holes' = [holes EXCEPT ![s] = holes[s] \ y.new]
        /\ run' = [run EXCEPT ![r] = stored]
    BY <1>4 DEF StorePrices
  <2>2. /\ IsRun(stored) /\ stored.pc = "stored" /\ stored.new = y.new
        /\ stored.blank = y.blank /\ stored.todo = y.todo
    BY <1>2, PcIsRun
  <2> HIDE DEF stored
  <2>3. run'[r] = stored
    BY <1>2, <2>1 DEF TypeOK
  <2>4. Current(r)' = s /\ Due' = Due
    BY <1>1, <2>2, <2>3 DEF Current, Due, IsOpen
  <2> HIDE DEF s
  <2>5. /\ \A t \in Stocks : /\ prices'[t] = IF t = s THEN prices[s] \cup y.new ELSE prices[t]
                             /\ holes'[t] = IF t = s THEN holes[s] \ y.new ELSE holes[t]
      /\ DOMAIN prices' = Stocks /\ prices' = [t \in Stocks |-> prices'[t]]
      /\ DOMAIN holes' = Stocks /\ holes' = [t \in Stocks |-> holes'[t]]
    BY <1>2, <2>1 DEF TypeOK
  <2>6. ASSUME NEW t \in Stocks
        PROVE  Settled(t) \subseteq SettledThen(t) /\ (t = s => y.new \subseteq SettledThen(t))
    BY <2>5 DEF Settled, SettledThen
  <2>7. Grows
    BY <2>6 DEF Grows
  <2>8. ASSUME s \in Stocks
        PROVE  FetchedIsKnown(r)' /\ y.new \subseteq SettledThen(s)
    <3>1. FetchedIsKnown(r)
      BY <1>1, <1>2, <2>8 DEF RunOK, s
    <3>2. Settled(s) \subseteq SettledThen(s) /\ y.new \subseteq SettledThen(s)
      BY <2>6, <2>8
    <3>3. FetchedIsKnown(r)'
      BY <2>2, <2>3, <2>4, <3>1, <3>2 DEF FetchedIsKnown, Settled, SettledThen, s
    <3> QED
      BY <3>2, <3>3
  <2>9. RunOK(r)'
    BY <2>2, <2>3, <2>4, <2>8 DEF RunOK, Settled, SettledThen
  <2> QED
    BY <1>1, <1>2, <2>1, <2>2, <2>5, <2>7, <2>9, GapStays, RunMoves DEF TypeOK
<1> QED
  BY <1>3, <1>4

(* The save point: everything up to the oldest day of the window is settled behind it. *)
LEMMA SaveSavepointInv ==
  ASSUME IInv, NEW r \in Runs, SaveSavepoint(r)
  PROVE  IInv'
<1> DEFINE s == Current(r)
<1>1. UNCHANGED <<weekday, prices>> /\ run[r].pc = "stored" /\ run' = [run EXCEPT ![r] = NextStock(r)]
  BY DEF SaveSavepoint, calendar
<1>2. TypeOK /\ RunOK(r) /\ NoGapBelowSavepoint
  BY DEF IInv
<1>3. PICK last \in run[r].new : MoveSavepoint(r, last)
  BY DEF SaveSavepoint
<1> DEFINE passed == {age \in run[r].blank : last < age} \ prices[s]
<1>4. \/ savepoint' = savepoint /\ holes' = holes
      \/ savepoint' = [savepoint EXCEPT ![s] = last] /\ holes' = [holes EXCEPT ![s] = holes[s] \cup passed]
  BY <1>3 DEF MoveSavepoint
<1>5. ASSUME s \in Stocks
      PROVE  /\ last \in Due
             /\ \A age \in Due : last < age => age \in Settled(s) \cup passed
             /\ last \in Settled(s)
  <2>1. FetchedIsKnown(r) /\ run[r].new \subseteq Settled(s)
    BY <1>1, <1>2, <1>5 DEF RunOK
  <2>2. last \in Due /\ last \in Settled(s)
    BY <2>1 DEF FetchedIsKnown
  <2>3. ASSUME NEW age \in Due, last < age PROVE age \in Settled(s) \cup passed
    <3>1. last <= age
      BY <2>2, <2>3 DEF Due
    <3>2. age \in Settled(s) \cup run[r].new \cup run[r].blank
      BY <2>1, <3>1 DEF FetchedIsKnown
    <3> QED
      BY <2>1, <2>3, <3>2 DEF Settled
  <2> QED
    BY <2>2, <2>3
<1> HIDE DEF s, passed
<1>6. /\ savepoint' \in [Stocks -> Nat \cup {None}]
      /\ DOMAIN holes' = Stocks /\ holes' = [t \in Stocks |-> holes'[t]]
  BY <1>2, <1>4, <1>5, CollectionAssumption DEF TypeOK, Due
<1>7. \A t \in Stocks : holes[t] \subseteq holes'[t]
  BY <1>2, <1>4 DEF TypeOK
<1>8. ASSUME NEW t \in Stocks, savepoint'[t] # None, NEW age \in (Owed(t) \ holes[t])'
      PROVE  age < savepoint'[t]
  <2>1. Owed(t)' = Owed(t) /\ Owed(t) \subseteq Due /\ age \in Int
    BY <1>1, <1>8 DEF Owed, Due, IsOpen
  <2>2. age \in Owed(t) \ holes[t] /\ age \in Due /\ age \notin prices[t]
    BY <1>7, <1>8, <2>1 DEF Owed
  <2>3. CASE savepoint'[t] = savepoint[t]
    BY <1>2, <1>8, <2>2, <2>3 DEF NoGapBelowSavepoint
  <2>4. CASE savepoint'[t] # savepoint[t]
    <3>1. t = s /\ savepoint'[t] = last /\ holes'[t] = holes[s] \cup passed
      BY <1>2, <1>4, <2>4 DEF TypeOK
    <3>2. age \notin Settled(s) \cup passed
      BY <1>8, <2>2, <3>1 DEF Settled
    <3>3. ~(last < age) /\ age # last /\ last \in Int
      BY <1>5, <2>2, <3>1, <3>2 DEF Due
    <3> QED
      BY <2>1, <3>1, <3>3
  <2> QED
    BY <2>3, <2>4
<1>9. NoGapBelowSavepoint'
  BY <1>8 DEF NoGapBelowSavepoint
<1>10. IsRun(NextStock(r)) /\ NextStock(r).pc = "next" /\ run'[r] = NextStock(r)
  BY <1>1, <1>2, NextStockIsRun DEF TypeOK
<1>11. RunOK(r)'
  BY <1>10 DEF RunOK
<1>12. Grows
  BY <1>1, <1>7 DEF Grows, Settled, SettledThen
<1> QED
  BY <1>1, <1>2, <1>6, <1>9, <1>10, <1>11, <1>12, RunMoves DEF TypeOK

-----------------------------------------------------------------------------
(* A day ends while no collection runs, and the service may end at any time. *)

LEMMA NobodyRuns ==
  ASSUME TypeOK', NoGapBelowSavepoint', \A r \in Runs : run'[r].pc = "idle"
  PROVE  IInv'
<1>1. ASSUME NEW r \in Runs PROVE RunOK(r)'
  BY DEF RunOK
<1> QED
  BY <1>1 DEF IInv

LEMMA CrashInv ==
  ASSUME IInv, Crash
  PROVE  IInv'
<1>1. run' = [r \in Runs |-> IdleRun] /\ UNCHANGED <<weekday, prices, savepoint, holes>>
  BY DEF Crash, calendar, tables
<1>2. \A r \in Runs : run'[r] = IdleRun /\ run'[r].pc = "idle" /\ IsRun(run'[r])
  BY <1>1, IdleIsRun
<1>3. DOMAIN run' = Runs /\ run' = [r \in Runs |-> run'[r]]
  BY <1>1
<1>4. Grows
  BY <1>1 DEF Grows, Settled, SettledThen
<1> QED
  BY <1>1, <1>2, <1>3, <1>4, GapStays, NobodyRuns DEF IInv, TypeOK

LEMMA MinOfTwo ==
  ASSUME NEW a \in Int, NEW b \in Int
  PROVE  Min({a, b}) = IF a <= b THEN a ELSE b
  BY DEF Min

LEMMA OlderIs ==
  ASSUME NEW age \in Nat \cup {None}
  PROVE  /\ Older(age) \in Nat \cup {None} /\ (Older(age) = None <=> age = None)
         /\ age # None => Older(age) = IF age <= Retention THEN age + 1 ELSE Retention + 1
<1>1. Retention \in Nat
  BY CollectionAssumption
<1>2. CASE age = None
  BY <1>2 DEF Older
<1>3. CASE age # None
  <2>1. Older(age) = IF age + 1 <= Retention + 1 THEN age + 1 ELSE Retention + 1
    BY <1>1, <1>3, MinOfTwo DEF Older
  <2> QED
    BY <1>1, <1>3, <2>1 DEF None
<1> QED
  BY <1>2, <1>3

LEMMA EndOfDayInv ==
  ASSUME IInv, EndOfDay
  PROVE  IInv'
<1>1. /\ savepoint' = [s \in Stocks |-> Older(savepoint[s])]
      /\ prices' = [s \in Stocks |-> {Older(age) : age \in prices[s]}]
      /\ holes' = [s \in Stocks |-> {age + 1 : age \in {a \in holes[s] : a < Lookback}}]
      /\ weekday' = (IF weekday + 1 = Week THEN 0 ELSE weekday + 1)
      /\ run' = run /\ \A r \in Runs : run[r].pc = "idle"
  BY DEF EndOfDay
<1>2. TypeOK /\ NoGapBelowSavepoint
  BY DEF IInv
<1>3. TypeOK'
  <2>1. weekday' \in 0 .. (Week - 1)
    BY <1>1, <1>2, CollectionAssumption DEF TypeOK
  <2>2. savepoint' \in [Stocks -> Nat \cup {None}]
    BY <1>1, <1>2, OlderIs DEF TypeOK
  <2>3. /\ DOMAIN prices' = Stocks /\ prices' = [s \in Stocks |-> prices'[s]]
        /\ DOMAIN holes' = Stocks /\ holes' = [s \in Stocks |-> holes'[s]]
    BY <1>1
  <2> QED
    BY <1>1, <1>2, <2>1, <2>2, <2>3 DEF TypeOK
<1>4. ASSUME NEW s \in Stocks, savepoint'[s] # None, NEW age \in (Owed(s) \ holes[s])'
      PROVE  age < savepoint'[s]
  <2>1. /\ age \in 0 .. Lookback /\ IsOpen(age)' /\ age \notin prices'[s] /\ age \notin holes'[s]
        /\ Lookback \in Nat /\ Retention \in Nat /\ Lookback <= Retention
    BY <1>4, CollectionAssumption DEF Owed
  <2>2. savepoint[s] \in Nat /\ savepoint'[s] = IF savepoint[s] <= Retention THEN savepoint[s] + 1
                                                ELSE Retention + 1
    BY <1>1, <1>2, <1>4, OlderIs DEF TypeOK
  <2>3. CASE age = 0
    BY <2>1, <2>2, <2>3
  <2>4. CASE age # 0
    <3>1. age - 1 \in 0 .. Lookback /\ IsOpen(age - 1)
      BY <1>2, <2>1, <2>4, OpenShifts
    <3>2. Older(age - 1) = age
      BY <2>1, <2>4, <3>1, OlderIs DEF None
    <3>3. age - 1 \notin prices[s]
      BY <1>1, <2>1, <3>2
    <3>4. age - 1 \notin holes[s]
      <4> SUFFICES ASSUME age - 1 \in holes[s] PROVE FALSE
        OBVIOUS
      <4>1. age - 1 < Lookback /\ age = (age - 1) + 1
        BY <2>1
      <4> QED
        BY <1>1, <2>1, <4>1
    <3>5. age - 1 < savepoint[s]
      BY <1>2, <2>2, <3>1, <3>3, <3>4 DEF NoGapBelowSavepoint, Owed, None
    <3> QED
      BY <2>1, <2>2, <3>5
  <2> QED
    BY <2>3, <2>4
<1>5. NoGapBelowSavepoint'
  BY <1>4 DEF NoGapBelowSavepoint
<1> QED
  BY <1>1, <1>3, <1>5, NobodyRuns

-----------------------------------------------------------------------------
LEMMA InitInv == Init => IInv
<1> SUFFICES ASSUME Init PROVE IInv
  OBVIOUS
<1>1. \A r \in Runs : run[r] = IdleRun
  BY DEF Init
<1>2. TypeOK
  <2>1. weekday \in 0 .. (Week - 1)
    BY CollectionAssumption DEF Init
  <2>2. /\ DOMAIN prices = Stocks /\ prices = [s \in Stocks |-> prices[s]]
        /\ DOMAIN holes = Stocks /\ holes = [s \in Stocks |-> holes[s]]
    BY DEF Init
  <2>3. savepoint \in [Stocks -> Nat \cup {None}]
    BY DEF Init
  <2>4. DOMAIN run = Runs /\ run = [r \in Runs |-> run[r]]
    BY DEF Init
  <2> QED
    BY <1>1, <2>1, <2>2, <2>3, <2>4, IdleIsRun DEF TypeOK
<1>3. NoGapBelowSavepoint
  BY DEF Init, NoGapBelowSavepoint
<1>4. \A r \in Runs : RunOK(r)
  BY <1>1, IdleIsRun DEF RunOK
<1> QED
  BY <1>2, <1>3, <1>4 DEF IInv

LEMMA GoesOnInv ==
  ASSUME IInv, NEW r \in Runs,
         Finish(r) \/ YahooFails(r) \/ ReconcileFails(r)
  PROVE  IInv'
<1>1. UNCHANGED <<weekday, prices, savepoint, holes>>
  BY DEF Finish, YahooFails, ReconcileFails, calendar, tables
<1>2. CASE Finish(r)
  BY <1>1, <1>2, IdleIsRun, RunIsFree DEF Finish
<1>3. CASE YahooFails(r)
  BY <1>1, <1>3, NextStockIsRun, RunIsFree DEF YahooFails, IInv
<1>4. CASE ReconcileFails(r)
  <2> DEFINE y == run[r]
             l == IdleRun.loaded
             x == [y EXCEPT !.pc = "next", !.loaded = l]
  <2>1. y = [pc |-> y.pc, todo |-> y.todo, loaded |-> y.loaded, from |-> y.from,
             savepoint |-> y.savepoint, new |-> y.new, blank |-> y.blank]
    BY DEF IInv, TypeOK, IsRun
  <2>2. run' = [run EXCEPT ![r] = x]
    BY <1>4 DEF ReconcileFails
  <2>3. x = [y EXCEPT !.pc = "next", !.loaded = l]
    OBVIOUS
  <2> HIDE DEF y, l, x
  <2>4. x = [pc |-> "next", todo |-> y.todo, loaded |-> l, from |-> y.from, savepoint |-> y.savepoint,
             new |-> y.new, blank |-> y.blank]
    BY <2>1, <2>3
  <2>5. IsRun(x) /\ x.pc = "next"
    BY <2>4, RecordIsRun
  <2> QED
    BY <1>1, <2>2, <2>5, RunIsFree
<1> QED
  BY <1>2, <1>3, <1>4

LEMMA StepInv == IInv /\ [Next]_vars => IInv'
<1> SUFFICES ASSUME IInv, [Next]_vars PROVE IInv'
  OBVIOUS
<1>1. CASE StartService \/ Five \/ AskForCollection
  <2>1. UNCHANGED <<weekday, prices, savepoint, holes>> /\ (CollectAll \/ run' = run)
    BY <1>1 DEF StartService, Five, AskForCollection, calendar, tables
  <2> QED
    BY <2>1, CollectAllInv
<1>2. CASE EndOfDay
  BY <1>2, EndOfDayInv
<1>3. ASSUME NEW r \in Runs, Progress(r) PROVE IInv'
  <2>1. ~YahooAnswers(r, 0, {}) \/ IInv'
    BY YahooAnswersInv
  <2> QED
    BY <1>3, <2>1, ReconcileInv, FindStockInv, TrimPricesInv, FindSavepointInv, FindOldestPriceInv,
       StorePricesInv, SaveSavepointInv, GoesOnInv DEF Progress
<1>4. ASSUME NEW list \in Lists, DeployList(list) PROVE IInv'
  <2>1. UNCHANGED <<weekday, prices, savepoint, holes>> /\ run' = run
    BY <1>4 DEF DeployList, calendar, tables
  <2> QED
    BY <2>1, CollectAllInv
<1>5. CASE Trouble
  <2>1. \A last \in 0 .. Lookback : last \in Nat
    OBVIOUS
  <2> QED
    BY <1>5, <2>1, CrashInv, GoesOnInv, YahooAnswersInv DEF Trouble
<1>6. CASE UNCHANGED vars
  <2>1. UNCHANGED <<weekday, prices, savepoint, holes>> /\ run' = run
    BY <1>6 DEF vars, calendar, tables
  <2> QED
    BY <2>1, CollectAllInv
<1> QED
  BY <1>1, <1>2, <1>3, <1>4, <1>5, <1>6 DEF Next

(* What a collection knows holds in every state.  The code never writes it down: it follows from    *)
(* the window that is fetched (fetchFrom in collectStock), the one statement that stores all   *)
(* prices of an answer, and the save point being written after it.                                   *)
THEOREM Invariance == Spec => []IInv
  BY InitInv, StepInv, PTL DEF Spec

(* Whatever is before a save point is stored as far as the window reaches, or is a day Yahoo had no  *)
(* close for, whichever collections overlap and wherever one of them fails or the service ends       *)
(* (collectStock).                                                                                   *)
THEOREM NoGap == Spec => []NoGapBelowSavepoint
<1>1. IInv => NoGapBelowSavepoint
  BY DEF IInv
<1> QED
  BY <1>1, Invariance, PTL
=============================================================================
