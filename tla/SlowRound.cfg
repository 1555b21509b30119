\* A step that takes longer than PROCESSING_TIMEOUT, once.
CONSTANTS
    MaxSends = 2
    Calls = {c1}
    Concurrency = 1
    MaxSteps = 2
    MaxInterrupts = 0
    MaxTimeouts = 1
    MaxFaults = 0
    MaxCrashes = 0
    MaxTroubles = 1
SPECIFICATION FairSpec
PROPERTIES
    EveryChatReturns
CHECK_DEADLOCK FALSE
