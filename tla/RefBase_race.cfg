CONSTANTS
    Pointers = {p1, p2, p3, p4}
    NULL = NULL
    INITIAL_STRONG_VALUE = 100
    Lifetimes = {"WEAK"}
    CmpxchgStored = 0
    RawOverWeak = TRUE
SPECIFICATION Spec
CHECK_DEADLOCK FALSE
INVARIANT ExactAtRest
