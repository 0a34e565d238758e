CONSTANTS
    s1 = s1
    s2 = s2
    p1 = p1
    p2 = p2
    Sessions = {s1, s2}
    Pages = {p1, p2}
    Followers = {p1}
    Callers <- MCCallers
    Settings = {u1}
    MaxTokens = 2
    MaxImports = 2
    MaxEdits = 1
    Batch = 1
    Providers <- BothProviders
SPECIFICATION Spec
INVARIANTS OneRunningSession AbortStopsAgents ScoredPageIsComplete
PROPERTIES ExpiryMarkKept
CHECK_DEADLOCK FALSE
