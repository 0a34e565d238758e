CONSTANTS
    Loops = {l1}
    Triggers = {p1}
    Manuals = {}
    Orders = {o1, o2}
    Shares = 3
    Buys = {"entry"}
    Faults <- EveryFault
SPECIFICATION Spec
INVARIANTS SellLockIsOwned OneLiveExit
PROPERTIES StageAfterFill
CHECK_DEADLOCK FALSE
SYMMETRY Symmetry
