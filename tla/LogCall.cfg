CONSTANTS
    c1 = c1
    c2 = c2
    None = None
    Calls = {c1, c2}
    Outputs <- TwoOutputs
    Wanted <- LevelsUsed
    Settings <- LevelsSet
    Loggers <- BuiltAndRaised
    Development = TRUE
    OnPanic = "none"
    OnFatal = "noop"
    MaxFaults = 2
    MaxSettings = 3
SPECIFICATION Spec
CHECK_DEADLOCK FALSE
SYMMETRY SymCalls
INVARIANTS
    NoEntryShared
    OnlyWhereEnabled
    NoOutputMissed
    NoReturnFromTerminal
    SevereIsDurable
    FailureIsReported
