\* Two saves, loads or recoveries of the file at a time, two flushes of the channel.
CONSTANTS
    MaxSaves = 2
    MaxFileFaults = 1
    MaxOverlap = 2
    MaxAppends = 2
    MaxLogFaults = 1
    Flushes = {f1, f2}
    MaxStoreCrashes = 2
SPECIFICATION MCSpec
CONSTRAINT Explored
INVARIANTS
    SavesHold
    EventsHold
PROPERTIES
    ImplementsRegister
    EveryEventIsFiled
CHECK_DEADLOCK FALSE
