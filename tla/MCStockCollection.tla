------------------------- MODULE MCStockCollection -------------------------
EXTENDS StockCollection

MCLists == {Stocks, {}, {Min(Stocks)}}

(* Two collections of one stock that overlap, as Yahoo answers in part or not at all. *)
Overlapping == ~retain /\ Next /\ (up' => csv' = {Min(Stocks)})

(* A list that changes between two collections, while Yahoo answers and no page asks. *)
Relisting ==
    /\ retain
    /\ \/ StartService \/ Five \/ EndOfDay
       \/ Crash /\ run' = run
       \/ \E r \in Runs : Progress(r) \/ ReconcileFails(r)
       \/ \E list \in Lists : DeployList(list)

MCNext == Overlapping \/ Relisting

MCSpec == Init /\ [][MCNext]_vars /\ Fairness
============================================================================
