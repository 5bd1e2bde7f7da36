\* A threshold by quantile, for two or four or seven validation sessions.
SPECIFICATION Spec
CONSTANTS
    Window = 2
    Vocabulary = {1, 4}
    Surprise <- MCSurprise
    RateNum = 1
    RateDen = 4
    Threads = {t1}
    NoThread = NoThread
    Files <- MCFiles
    Validations <- MCValidations
    MAX_CONTEXT_LINES = 2
INVARIANTS
    FlagsAtMostTarget
