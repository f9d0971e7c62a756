CONSTANTS
    Producers = {p1, p2}
    Consumers = {c1, c2, c3}
    Items = {i1, i2, i3}
    NULL = NULL
SPECIFICATION FairSpec
INVARIANTS NoLostWakeup OwnedOnce
PROPERTY EventuallyDeQueued
