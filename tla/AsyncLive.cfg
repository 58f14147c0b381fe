CONSTANTS
    e1 = e1
    e2 = e2
    e3 = e3
    p1 = p1
    p2 = p2
    None = None
    Producers = {p1, p2}
    Entries = {e1, e2}
    Level <- InfoOnly
    Syncers = {"c1"}
    NShards = 1
    QueueSize = 1
    BatchSize = 2
    BlockOnFull = TRUE
    BlockLevel = 0
    MaxWriteErrors = 1
SPECIFICATION FairSpec
INVARIANTS
    SyncBarrier
PROPERTIES
    CloseTerminates
    CallsReturn
    AcceptedIsWritten
