\* One request at a time, under two replicas that start and are killed.
SPECIFICATION FairSpec
CONSTANTS
    Writers = {r1, r2}
    Templates = {0, 1, 2, 3}
    Kb = {0, 1, 2, 3}
    Missing = Missing
    Texts <- MCTexts
    Whole <- MCWhole
    Distance <- MCDistance
    K = 3
    RAG_MAX_DISTANCE = 5
    RAG_MAX_QUERY_LINES = 2
    LLM_MAX_RETRIES = 2
    LogPaths <- MCLogPaths
    KbPaths <- MCKbPaths
    Fixes <- MCFixes
    NotText = NotText
INVARIANTS
    TypeOK
    NearestAreRetrieved
    NothingFarIsRetrieved
    GuardedFix
    RetriesAreSpent
    OneCopyPerReplica
    WholeWhenAllServe
PROPERTIES
    EveryDiagnosisEnds
    StartupsSettle
