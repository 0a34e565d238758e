SPECIFICATION MCSpec
CONSTANTS
    Sessions = {s1, s2}
    Times <- MCTimes
    PerMinute = 2
    Rollback = 2
    MaxCandles = 3
    MinCompleted = 3
    Fast = 2
    Slow = 3
    EntryTimes <- MCEntryTimes
    MinConfirmations = 3
    Quotes <- MCQuotes
    MaxDelay = 2
    FirstMinutes <- MCFirstMinutes
    MaxVolume = 2
    MaxDays = 2
INVARIANTS CandlesAreTodays EntryFollowsLastTrade
PROPERTY HoldIsAnswered
CHECK_DEADLOCK FALSE
