CONSTANTS
    MaxSends = 1
    Calls = {c1, c2}
    Concurrency = 1
    MaxSteps = 2
    MaxInterrupts = 1
    MaxTimeouts = 1
    MaxFaults = 1
    MaxCrashes = 2
    MaxTroubles = 2
    MaxEvents = 3
    MaxNumber = 3
    MaxEnds = 2
    MaxFailures = 1
    TodoIds = {t1, t2}
    TodoChanges = {1, 2}
    MaxTodos = 2
    RemindEvery = 2
    MaxRounds = 2
    MaxTokens = 4
    CompressToTokens = 2
    KeepRecentMultimodal = 2
    TextSizes = {1, 3}
    MediaSize = 2
    MaxContext = 4
    MaxBreaks = 1
SPECIFICATION ResumableSpec
INVARIANTS
    StoredIsPrefix
    RecordsAgree
    NeverReexecuted
    ConsentBeforeExecution
    DoneResumes
    BoardKept
    ContextKept
SYMMETRY Symmetry
CHECK_DEADLOCK FALSE
