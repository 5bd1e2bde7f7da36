\* AUTOENCODER_DIR names a directory in which nothing was saved, or nothing at all.
SPECIFICATION Spec
CONSTANTS
    Writers = {Ingestion}
    Ingestion = Ingestion
    Templates = {a, b, c}
    Requests = {q}
    MaxDetectors = 2
    MaxSeen = 3
    Missing = Missing
    ScrollLimit = 3
    Dir = Dir
    Saved = Saved
INVARIANTS
    CachedUntilBaselineChanges
