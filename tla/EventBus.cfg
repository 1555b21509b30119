\* A buffer of two, batches of two and a timeline of two, so that three events and
\* three faults reach every limit.
CONSTANTS
    Live = {l1}
    Replaying = {r1}
    MaxEvents = 3
    MaxFaults = 3
    RetryBatch = 2
    MaxFailedBuffer = 2
    TimelineLimit = 2
    TimelineKeep = 1
SPECIFICATION MCSpec
INVARIANTS
    EventsAreKept
PROPERTIES
    FlushKeepsWord
    EveryEventArrives
    
CHECK_DEADLOCK FALSE
