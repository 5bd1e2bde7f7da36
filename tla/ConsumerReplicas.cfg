\* Two replicas of the consumer group over two partitions; every fault, then none.
SPECIFICATION MCSpec
CONSTANTS
    Consumers = {c1, c2}
    p1 = p1
    p2 = p2
    t1 = t1
    t2 = t2
    Partitions <- MCPartitions
    TraceIds <- MCTraceIds
    Entries = {e1}
    None = None
    Malformed = Malformed
    MaxRetries = 2
    MaxRecords = 2
INVARIANTS
    TypeOK
    CommittedIsStored
    NoDanglingIndex
    OneRecordAtRisk
PROPERTIES
    CommitNeverRegresses
    ImplementsDelivery
    EventuallyDrained
