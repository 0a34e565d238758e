CONSTANTS
    Requests = {r1, r2}
    Instances = {i1, i2}
    LockTTL = 2
    ClaimTTL = 1
    Faults <- EveryFault
SPECIFICATION FairSpec
INVARIANTS AppliedOnce WorkerKeepsRow
PROPERTIES RowComesFree
CHECK_DEADLOCK FALSE
