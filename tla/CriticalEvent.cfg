\* Two appends fail, and so does the first append of the retry that follows.
CONSTANTS
    Live = {}
    Replaying = {}
    MaxEvents = 3
    MaxFaults = 3
    RetryBatch = 2
    MaxFailedBuffer = 3
    TimelineLimit = 3
    TimelineKeep = 2
SPECIFICATION Spec
INVARIANTS
    CriticalKept
CHECK_DEADLOCK FALSE
