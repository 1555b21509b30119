CONSTANTS
    Tasks = {t1, t2, t3, t4}
    Concurrency = 2
    Ids = {1, 2}
    NoId = none
    Callers = {1, 2}
    MaxAgents = 1
    MaxCalls = 3
    MaxRestarts = 2
    MaxFaults = 1
    ForkCallers = {f1, f2}
    SubIds <- MCSubIds
    Depth = 1
    MaxForkDepth = 2
    MaxTurns = 2
    MaxInstants = 1
    MaxCrashes = 1
    OnlineNames = {"x", "y"}
    ZipNames = {"x", "bad"}
    TempPlaces = {"temp1"}
    Workers = {u1, u2}
    Loaders = {l1, l2}
    AllowedNames = {"x"}
    Platforms = {"posix", "win32"}
    MaxRequests = 2
SPECIFICATION ServicesSpec
CHECK_DEADLOCK FALSE
INVARIANTS
    RunnerExact
    PoolKept
    
    
PROPERTIES
    
    ImplementsPool
    ShutdownEnds
