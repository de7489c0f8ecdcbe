SPECIFICATION Spec
CONSTANTS
    N = 2
    W = 4
    Producers = {p1, p2}
    Values = {v1, v2}
    Uninit = Uninit
    ExplicitClose = FALSE
SYMMETRY ProducerSymmetry
INVARIANTS
    FinalNone
    LastDropCloses
PROPERTY
    Fifo
CHECK_DEADLOCK FALSE
