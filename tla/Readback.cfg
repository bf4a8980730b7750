CONSTANTS
    v = v
    d = d
    r = r
    None = None
    Ids = {v, d, r}
    Volume = v
    Parent <- Parents
    Records <- TheRecord
    Entries <- TheFile
    BatchLimit = 4
    WorkerCount = 2
    MaxScopes = 1
    MaxChanges = 1
    MaxFaults = 1
SPECIFICATION FairSpec
INVARIANTS
    BorrowedOutlivesThreads
    TerminalMeansQuiet
    BracketedRead
    QueriesAreExclusive
PROPERTIES
    ChunkDrains
CHECK_DEADLOCK FALSE
