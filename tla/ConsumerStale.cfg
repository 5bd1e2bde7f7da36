\* Two replicas on one partition: a stale one may write last.
SPECIFICATION Spec
CONSTANTS
    Consumers = {c1, c2}
    Partitions = {p1}
    TraceIds = {t1}
    Entries = {e1, e2}
    None = None
    Malformed = Malformed
    MaxRetries = 2
    MaxRecords = 2
INVARIANTS
    NewestEntryWins
