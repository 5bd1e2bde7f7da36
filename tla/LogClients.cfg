\* A lone replica writes three records, with every fault, under a client.
SPECIFICATION LcSpec
CONSTANTS
    Consumers = {c1}
    Partitions = {p1}
    TraceIds = {1, 2, 3}
    Entries = {e1, e2}
    None = None
    Malformed = Malformed
    MaxRetries = 2
    MaxRecords = 3
    Limit = 1
INVARIANTS
    StatsCountWhatIsListed
    PagingMissesNothing
    ClearIsThorough
