SPECIFICATION Spec
CONSTANTS
    Callers = {c1, c2}
    Lines = {l1}
    Configs <- MCConfigs
    StdLevels = {"info", "invalid"}
    Spellings <- MCSpellings
    Normalized <- MCNormalized
    Refusable <- MCRefusable
    MaxBuilds = 2
    MaxUndos = 2
INVARIANTS
    HandlesAreAccountedFor
    
    RefusalsAreReported
    
SYMMETRY MCSymmetry
CHECK_DEADLOCK FALSE
