CONSTANTS
    Calls = {"a", "b"}
    Data <- CallData
    Newline <- LineBreaks
    ConfigMaxSize = 3
    DefaultMaxSize = 3
    RotationInterval = 0
    BaseSeq = 0
    Midnights = {0, 1}
    Granularity = 1
    MaxClock = 2
    MaxSkew = 0
    MaxFaults = 1
    MaxScanFaults = 0
    MaxStarts = 2
    MaxRotates = 0
    MaxSeq = 6
    None = None
    MaxAge = 1
    MaxBackups = 2
    MaxTotalSize = 4
    MaxDirSize = 5
    OtherLogs = 2
    MaxPasses = 1
SPECIFICATION FairCleanerSpec
CHECK_DEADLOCK FALSE
INVARIANTS
    ActiveFileStays
    
PROPERTIES
    OldestFirst
    CloseReturns
