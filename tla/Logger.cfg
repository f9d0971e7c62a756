CONSTANTS
    Callers = {c1, c2, c3}
    Loop = Loop
    MessageLevels <- SomeMessageLevels
    RequestedLevels <- SomeRequests
    MaxLines = 4
    NULL = NULL
CHECK_DEADLOCK FALSE
SPECIFICATION FairSpec
INVARIANTS EveryLineOnceInOrder
PROPERTIES UsesQueue EveryLineIsPrinted
