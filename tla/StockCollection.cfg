SPECIFICATION MCSpec
CONSTANTS
    Stocks = {1, 2}
    Lists <- MCLists
    Runs = {1, 2}
    Lookback = 2
    Slack = 1
    Retention = 3
    ConfirmDays = 2
    Week = 3
    Closed = {2}
INVARIANTS NoGapBelowSavepoint
PROPERTIES CatchesUp
CHECK_DEADLOCK FALSE
