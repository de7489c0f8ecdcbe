SPECIFICATION Spec
CONSTANTS
    N = 2
    W = 4
    Producers = {p1, p2}
    Values = {v1}
    Uninit = Uninit
    ExplicitClose = FALSE
SYMMETRY ProducerSymmetry
PROPERTIES
    BusyMeansReserved
CHECK_DEADLOCK FALSE
