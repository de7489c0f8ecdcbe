SPECIFICATION FairSpec
CONSTANTS
    Producers = {p1, p2}
    Builders = {b1}
    Cap = 2
    MaxMsgs = 1
    None = None
    SpawnMayFail = FALSE
    MayFreeze = FALSE
PROPERTIES
    DrainedIsFlushed
CHECK_DEADLOCK FALSE
