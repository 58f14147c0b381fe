CONSTANTS
    c1 = c1
    c2 = c2
    c3 = c3
    c4 = c4
    Calls = {c1, c2, c3, c4}
    Tick = 2
    First = 2
    Thereafter = 0
    MaxClock = 3
SPECIFICATION Spec
CHECK_DEADLOCK FALSE
SYMMETRY SymCalls
INVARIANTS
    
    OneFirstEntry
    OversamplingIsBounded
