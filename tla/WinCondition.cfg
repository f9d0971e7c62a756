CONSTANTS
    Waiters = {w1, w2, w3}
    TimedWaiters = {w1, w2}
    Callers = {c1, c2}
    CallersHoldMutex = TRUE
    MaxTokens = 2
    NoThread = NoThread
SPECIFICATION FairSpec
INVARIANTS BroadcastHandshake
PROPERTIES RefinesCondition WokenReturns
