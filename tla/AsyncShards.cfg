CONSTANTS
    e1 = e1
    e2 = e2
    e3 = e3
    p1 = p1
    p2 = p2
    None = None
    Producers = {p1, p2}
    Entries = {e1, e2, e3}
    Level <- MixedLevels
    Syncers = {}
    NShards = 2
    QueueSize = 2
    BatchSize = 2
    BlockOnFull = FALSE
    BlockLevel = 2
    MaxWriteErrors = 1
SPECIFICATION Spec
SYMMETRY SymMixed
INVARIANTS
    ShardFifo
    CountersReconcile
    SevereIsNeverDropped
PROPERTIES
    ImplementsLogStream
