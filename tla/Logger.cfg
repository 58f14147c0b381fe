\* Three loggers derived in every way, two calls, one fault.
SPECIFICATION Spec
CONSTANTS
    a = a
    b = b
    h1 = h1
    h2 = h2
    n1 = n1
    None = None
    Sinks = {a, b}
    Bases <- MCBases
    Names <- MCNames
    Hooks = {h1}
    BranchHooks = {h2}
    LogLevels <- MCLogLevels
    Arguments <- MCArguments
    MaxArguments = 5
    MaxLoggers = 3
    MaxCalls = 2
    MaxTime = 1
    MaxFaults = 1
    MaxBad = 1
INVARIANTS
    EntriesFollowTheirLogger
    HooksSeeWhatIsWritten
    
    EveryArgumentAccounted
    LevelIsHonest
CHECK_DEADLOCK FALSE
