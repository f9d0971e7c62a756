CONSTANTS
    Queues = {q1, q2}
    Items = {i1, i2, i3}
    NULL = NULL
SYMMETRY Symmetry
SPECIFICATION ListSpec
INVARIANTS CQueueIsSound IteratorStaysInQueue LengthIsExact
PROPERTIES NextIsSuccessor RefinesFifo
