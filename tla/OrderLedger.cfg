CONSTANTS
    Orders = {o1}
    Quantity = 3
    MaxAttempts = 3
    Faults <- EveryFault
SPECIFICATION FairSpec
INVARIANTS SingleChannelExact FallbackKeepsPolling
PROPERTIES ImplementsFeed ClosedStaysClosed PollingSettles
CHECK_DEADLOCK FALSE
