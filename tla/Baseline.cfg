\* Any sequence of uploads and crashes of the ingestion service under one request.
SPECIFICATION Spec
CONSTANTS
    Writers = {Ingestion}
    Ingestion = Ingestion
    Templates = {a, b, c}
    Requests = {q}
    MaxDetectors = 2
    MaxSeen = 3
    Missing = Missing
    ScrollLimit = 2
    Dir = Dir
    Saved = Saved
INVARIANTS
    TypeOK
    NormalByOneBaseline
    UndisturbedIsLatest
SYMMETRY Symmetry
