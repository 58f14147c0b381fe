\* A tee of a JSON and a template core, a rich goroutine and a neighbour.
SPECIFICATION Spec
CONSTANTS
    Goroutines = {"w", "n"}
    Buffers = {b1, b2}
    b1 = b1
    b2 = b2
    Slices = {s1, s2}
    s1 = s1
    s2 = s2
    Withs <- MCWiths
    Calls <- MCCalls
    CtxCalls <- MCCtxCalls
    Infos <- MCInfos
    Traces <- MCTraces
    Entry <- MCEntry
    MaxLoggers = 2
    MaxCalls = 1
    None = None
    Keys <- MCKeys
    KeyOrder <- MCKeyOrder
    Columns <- MCColumns
    Separator = "|"
    NoEscape = FALSE
    ServiceID <- MCServiceID
    Rendered <- MCRendered
INVARIANTS
    LineSaysTheCall
    FailuresShow
    RowSplits
SYMMETRY MCPools
CHECK_DEADLOCK FALSE
