CONSTANTS
    MaxSends = 2
    Calls = {c1, c2}
    Concurrency = 1
    MaxSteps = 2
    MaxInterrupts = 0
    MaxTimeouts = 0
    MaxFaults = 0
    MaxCrashes = 0
    MaxTroubles = 0
SPECIFICATION FairSpec
INVARIANTS
    MessagesGetThrough
    ModelSeesAnsweredCalls
PROPERTIES
    EveryChatReturns
    
CHECK_DEADLOCK FALSE
