CONSTANTS
    Calls = {"d", "e"}
    Data <- CallData
    Newline <- LineBreaks
    ConfigMaxSize = 3
    DefaultMaxSize = 3
    RotationInterval = 1
    BaseSeq = 1
    Midnights = {0, 2}
    Granularity = 2
    MaxClock = 2
    MaxSkew = 1
    MaxFaults = 1
    MaxScanFaults = 1
    MaxStarts = 2
    MaxRotates = 1
    MaxSeq = 6
    Namings <- MCNamings
    Layouts <- MCLayouts
    None = None
SPECIFICATION FairSpec
CHECK_DEADLOCK FALSE
INVARIANTS
    
    
    FilesReadInOrder
    ActiveFile
    
    DateIsRight
PROPERTIES
    WriteReturns
