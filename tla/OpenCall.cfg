\* One crash and one resume.
CONSTANTS
    MaxSends = 1
    Calls = {c1, c2}
    Concurrency = 1
    MaxSteps = 2
    MaxInterrupts = 0
    MaxTimeouts = 0
    MaxFaults = 0
    MaxCrashes = 1
    MaxTroubles = 1
SPECIFICATION RecoverySpec
INVARIANTS
    CrashLeavesNoOpenCall
CHECK_DEADLOCK FALSE
