\* No trouble at all: two sends and one save are enough.
CONSTANTS
    MaxSends = 2
    Calls = {c1}
    Concurrency = 1
    MaxSteps = 2
    MaxInterrupts = 0
    MaxTimeouts = 0
    MaxFaults = 0
    MaxCrashes = 0
    MaxTroubles = 0
SPECIFICATION FairSpec
INVARIANTS
    NoMessageLost
CHECK_DEADLOCK FALSE
