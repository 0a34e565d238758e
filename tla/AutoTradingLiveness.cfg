CONSTANTS
    Loops = {l1}
    Triggers = {}
    Manuals = {m1}
    Orders = {o1, o2}
    Shares = 1
    Buys = {"entry", "add"}
    Faults <- ExchangeFaults
SPECIFICATION FairSpec
PROPERTIES PendingResolves HoldingCatchesUp
CHECK_DEADLOCK FALSE
