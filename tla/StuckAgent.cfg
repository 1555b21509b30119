\* One fault: a hook that throws for one of two calls of a round.
CONSTANTS
    MaxSends = 2
    Calls = {c1, c2}
    Concurrency = 1
    MaxSteps = 2
    MaxInterrupts = 0
    MaxTimeouts = 0
    MaxFaults = 1
    MaxCrashes = 0
    MaxTroubles = 1
SPECIFICATION FairSpec
PROPERTIES
    EveryChatReturns
CHECK_DEADLOCK FALSE
