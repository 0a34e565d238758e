---------------------------- MODULE MCStockTrades ----------------------------
(* Two studies.  With VI handling: two sessions of a stock whose trades are all outside regular      *)
(* trading, halted or not, so that no candle is drawn.  Without it: five minutes of two trades each, *)
(* entries from three completed candles; two minutes back are another day.                           *)
EXTENDS StockTrades

Regular(price, sound, strong) ==
    [kind |-> "regular", halted |-> FALSE, price |-> price, sound |-> sound, strong |-> strong]
Other(halted) == [kind |-> "other", halted |-> halted, price |-> 2, sound |-> TRUE, strong |-> TRUE]
MCQuotes == {Regular(1, TRUE, TRUE), Regular(2, TRUE, TRUE), Regular(2, FALSE, FALSE), Other(TRUE), Other(FALSE)}
MCTimes == 0 .. 9
MCEntryTimes == 2 .. 9
MCFirstMinutes == {0, 1}

Without == {TradeOf(t, q) : t \in Times, q \in Quotes \ {Other(FALSE)}}
With == {TradeOf(0, Other(halted)) : halted \in BOOLEAN}

MCNext ==
    /\ NextWith(IF viHandlingEnabled THEN With ELSE Without)
    /\ viHandlingEnabled /\ seen' # None => seen'.recent

MCSpec == Init /\ [][MCNext]_vars /\ Fairness
==============================================================================
