CONSTANTS
    Stocks = {s1}
    Notice = notice
    Clients = {c1, c2}
    MaxRequests = 2
    Faults <- EveryFault
SPECIFICATION FairSpec
INVARIANTS OneConnectionAttempt TopicsAgree NoLeakedTopic RefusedIsRetried
PROPERTIES WantedComesBack
