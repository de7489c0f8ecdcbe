SPECIFICATION PartSpec
CONSTANTS
    N = 2
    W = 4
    Values = {v1, v2}
    Uninit = Uninit
    ConsumerCloses = FALSE
    a1 = a1
    a2 = a2
    a3 = a3
    p1 = p1
    p2 = p2
    b1 = b1
    Null = Null
    None = None
    Junk = Junk
    Absent = Absent
INVARIANTS
    CursorInv
    Ownership
    FinalNone
PROPERTIES
    Fifo
    Flow
    CallsAnswered
    SourcesFollowed
CHECK_DEADLOCK FALSE
