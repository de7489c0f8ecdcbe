SPECIFICATION PartSpec
CONSTANTS
    Dated = TRUE
    BufLen = 3
    MaxSize = 4
    FooterLen = 1
    Lengths = {1, 3}
    MidnightInCalls = TRUE
    MaxDay = 2
    MaxGiven = 7
    MaxFaults = 1
    \* Years of every kind, each with its 1st of March
    Years = {1970, 1971, 1972, 1999, 2000, 2001, 2023, 2024, 2025,
             2099, 2100, 2101, 2399, 2400, 2401}
    Readings = {0, 45296, 86399}
    Levels = {0, 1, 3}
    Default = 1
    MaxEdits = 3
    MaxLevelFaults = 0
    None = None
    Junk = Junk
    Absent = Absent
    p1 = p1
    p2 = p2
    Processes = {p1, p2}
    Pieces <- AnyText
    Paths <- CallPaths
    Lines = {"L10", "L20"}
    Descs = {"d1", "d2"}
    NoFile = None
    MaxTime = 4
    MaxTaskFaults = 1
    Unset = None
    Spellings <- AnyText
    TypedRows <- CallRows
    MaxRows = 7
SYMMETRY ProcessSymmetry
INVARIANTS
    LevelHolds
    Accounted
    CallIsExact
    UtcIsGregorian
PROPERTIES
    Durable
    RotatedFilesStopGrowing
    RotatedInTime
    DocumentHolds
CHECK_DEADLOCK FALSE
