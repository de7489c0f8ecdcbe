SPECIFICATION BoundedSpec
CONSTANTS
    None = None
    Producers = {p1, p2}
    Builders = {b1, b2}
    Cap = 2
    MaxMsgs = 2
    SpawnMayFail = TRUE
    MayFreeze = TRUE
    v1 = v1
    v2 = v2
    Uninit = Uninit
SYMMETRY ThreadSymmetry
INVARIANTS
    Delivered
    OneWorker
PROPERTIES
    ChannelUsed
    TightRings
CHECK_DEADLOCK FALSE
