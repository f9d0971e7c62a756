CONSTANTS
    Waiters = {w1, w2}
    TimedWaiters = {}
    Callers = {c1}
    CallersHoldMutex = FALSE
    MaxTokens = 2
    NoThread = NoThread
SPECIFICATION FairSpec
PROPERTIES BroadcastReturns
CHECK_DEADLOCK FALSE
