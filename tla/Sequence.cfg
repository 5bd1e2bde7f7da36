\* Two uploads at once, over loads that fail and restarts.
SPECIFICATION FairSpec
CONSTANTS
    Window = 2
    Vocabulary = {1, 4}
    Surprise <- MCSurprise
    RateNum = 1
    RateDen = 4
    Threads = {t1, t2}
    NoThread = NoThread
    Files <- MCFiles
    Validations <- MCValidations
    MAX_CONTEXT_LINES = 2
INVARIANTS
    TypeOK
    FailsOnlyAfterAFailedLoad
    VerdictsAreTheirBlocks
    EntriesAccountForTheirLines
    RankFlagsAtMostTarget
PROPERTIES
    EveryUploadIsAnswered
