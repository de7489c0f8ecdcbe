SPECIFICATION Spec
CONSTANTS
    N = 2
    W = 4
    Producers = {p1, p2}
    Values = {v1}
    Uninit = Uninit
    ExplicitClose = TRUE
SYMMETRY ProducerSymmetry
INVARIANTS
    TypeOK
    NoOvercommit
    CreditsAddUp
    CellExclusive
    ResidueExact
CHECK_DEADLOCK FALSE
