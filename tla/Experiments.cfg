\* Three programs in a row, of every kind, stopped anywhere.
SPECIFICATION ExpSpec
CONSTANTS
    Window = 2
    Nothing = Nothing
    Torn = Torn
    Committed = Committed
    Labels <- MCLabels
    TrainingLogs <- MCTrainingLogs
    BlockLimits = {4, 99}
    Splits <- MCSplits
    ParityLines = 5
    Shuffled <- MCShuffled
    EvalLog <- MCEvalLog
    Seeds = {7, 13}
    Sampled <- MCSampled
    JudgeAttempts = 3
    GoldenCases <- MCGoldenCases
    ReviewSizes = {1, 2}
    MaxStarts = 3
INVARIANTS
    TrainedForServing
    BlocksAreAccountedFor
    JudgeGivesUpLast
    ReviewIsAnswerable
    GoldenCasesAreCounted
PROPERTIES
    EveryProgramEnds
CHECK_DEADLOCK FALSE
