CONSTANTS
    Pointers = {p1, p2, p3, p4, p5}
    NULL = NULL
    INITIAL_STRONG_VALUE = 100
    Lifetimes = {"STRONG", "WEAK"}
    CmpxchgStored = 0
    RawOverWeak = FALSE
CHECK_DEADLOCK FALSE
SYMMETRY Symmetry
SPECIFICATION Spec
INVARIANTS CountsExact NoUseAfterFree FreedExactlyOnce
PROPERTIES PromoteAcquires RefinesSharedObject
