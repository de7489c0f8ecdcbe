SPECIFICATION LiveSpec
CONSTANTS
    N = 2
    W = 4
    Producers = {p1, p2}
    Values = {v1}
    Uninit = Uninit
    ExplicitClose = FALSE
PROPERTIES
    CallsReturn
    TicketsLeave
CHECK_DEADLOCK FALSE
