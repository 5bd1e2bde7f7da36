\* One upload of logs before a baseline is built is enough.
SPECIFICATION SourcesSpec
CONSTANTS
    Writers = {Ingestion}
    Ingestion = Ingestion
    Templates = {a, b}
    Requests = {q}
    MaxDetectors = 1
    MaxSeen = 3
    Missing = Missing
    ScrollLimit = 2
    Dir = Dir
    Saved = Saved
INVARIANTS
    BaselineIsWhatWasUploaded
