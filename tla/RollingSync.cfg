CONSTANTS
    Calls = {"a"}
    Data <- CallData
    Newline <- LineBreaks
    ConfigMaxSize = 3
    DefaultMaxSize = 3
    RotationInterval = 0
    BaseSeq = 0
    Midnights = {0, 2}
    Granularity = 2
    MaxClock = 1
    MaxSkew = 0
    MaxFaults = 0
    MaxScanFaults = 0
    MaxStarts = 1
    MaxRotates = 0
    MaxSeq = 6
    Namings <- MCNamings
    Layouts <- MCLayouts
    None = None
SPECIFICATION Spec
CHECK_DEADLOCK FALSE
INVARIANTS
    SyncIsDurable
