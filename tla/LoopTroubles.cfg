\* Any two of: an interrupt, a step that outlives PROCESSING_TIMEOUT, two faults.
CONSTANTS
    MaxSends = 2
    Calls = {c1}
    Concurrency = 1
    MaxSteps = 2
    MaxInterrupts = 1
    MaxTimeouts = 1
    MaxFaults = 2
    MaxCrashes = 0
    MaxTroubles = 2
SPECIFICATION FairSpec
INVARIANTS
    SingleRunner
PROPERTIES
    ChatSurvivesFaults
CHECK_DEADLOCK FALSE
