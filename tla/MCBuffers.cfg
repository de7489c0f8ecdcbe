SPECIFICATION PartSpec
CONSTANTS
    Asked = 5
    Cap = 8
    NeedsDrop = TRUE
    Values = {v1, v2}
    Uninit = Uninit
    Addr = {a1, a2, a3, a4}
    MaxVersion = 6
    Null = Null
    N = 2
    W = 8
    p1 = p1
    p2 = p2
    Producers = {p1, p2}
    MaxMsgs = 4
    NoData = NoData
    WindowSize = 3
    Samples <- FewSamples
    Unit = 6
    IMin <- LeastValue
    IMax = 2047
    F64 <- Rounded
    Exact = 16
    Limit = 5
    NoSample = NoSample
    None = None
SYMMETRY BufferSymmetry
INVARIANTS
    ExactlyWindow
    WindowWalks
PROPERTIES
    IsDeque
    SnapshotSound
    ReferenceIsFifo
    StatisticsFollow
CHECK_DEADLOCK FALSE
