CONSTANTS
    Callers = {c1}
    Loop = Loop
    MessageLevels <- SomeMessageLevels
    RequestedLevels = {}
    MaxLines = 1
    NULL = NULL
CHECK_DEADLOCK FALSE
SPECIFICATION FairSpec
PROPERTY StopEndsLoop
