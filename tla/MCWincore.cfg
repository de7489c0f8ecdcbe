SPECIFICATION PartSpec
CONSTANTS
    Tids = {1, 2, 3}
    Handles = {h1, h2, h3}
    Watchers = {w1, w2}
    Configs = {c1}
    Nothing = Nothing
    MaxGen = 2
    QueriesFail = TRUE
    Bits = 2
    Groups = {0}
    MayDie = TRUE
    None = None
    Threads = {t1}
    Privileged = FALSE
    MaxCalls = 2
    Values <- MemoryValues
    PageSize = 4
    Cap = 3
SYMMETRY WincoreSymmetry
INVARIANTS
    NothingPartial
    ReportComplete
    DeniedIsDowngraded
    PagesFollowGuards
PROPERTIES
    RegistrySound
CHECK_DEADLOCK FALSE
