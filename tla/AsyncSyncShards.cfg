CONSTANTS
    e1 = e1
    e2 = e2
    e3 = e3
    p1 = p1
    p2 = p2
    None = None
    Producers = {p1}
    Entries = {e1}
    Level <- InfoOnly
    Syncers = {"c1"}
    NShards = 2
    QueueSize = 2
    BatchSize = 2
    BlockOnFull = FALSE
    BlockLevel = 0
    MaxWriteErrors = 0
SPECIFICATION Spec
INVARIANTS
    SyncBarrier
