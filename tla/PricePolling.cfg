SPECIFICATION MCSpec
CONSTANTS
    Stocks = {1, 2, 3}
    Requests = {1, 2}
    Capacity <- MCCapacity
    MaxRps = 1
    MaxRetry = 1
    Threshold = 2
    MaxTokens = 3
    SlotSettings = {1, 2}
PROPERTIES GoodTokenKept OldPriceIsAsked
CHECK_DEADLOCK FALSE
