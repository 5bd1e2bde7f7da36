\* Two uploads through one partition to one replica; every fault, then none of the consumer's.
SPECIFICATION MCSpec
CONSTANTS
    t1 = t1
    t2 = t2
    TraceIds <- MCTraceIds
    Entries <- MCEntries
    Batches <- MCBatches
    Consumers = {c1}
    Partitions = {p1}
    None = None
    Malformed = Malformed
    MaxRetries = 1
    MaxRecords = 2
    MaxUploads = 2
    MaxSends = 2
    MaxConnects = 2
INVARIANTS
    LatestUploadWins
    AnswerNeverOverstates
    UploadsStayInOrder
PROPERTIES
    DeliversInTurn
    PublishedGetsListed
    UploadGetsAnAnswer
