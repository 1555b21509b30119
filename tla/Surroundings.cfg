CONSTANTS
    Agents = {a, b}
    SqliteCalls = {k}
    SnapshotIds = {sn}
    MaxStored = 1
    MaxForks = 1
    MaxLive = 2
    MaxCrashes = 1
    NoRow = NoRow
    Callers = {w1, w2, w3}
    Sessions = {a}
    NewSessions = {f}
    PoolSize = 2
    MaxRows = 1
    MaxCalls = 3
    NoSession = NoSession
    RowIds = {1, 2}
    Values = {"x", "y"}
    MaxStamp = 2
    MaxPage = 2
    Workers = {u1, u2, u3}
    Clients = {l1, l2}
    LockStores = {"sqlite", "postgres"}
    Nobody = Nobody
    StreamProviders = {"anthropic", "openai", "gemini"}
    RawCalls = {0, 1}
    MaxPieces = 4
    Readers = {"lines", "frames"}
    MaxFrames = 3
    Apis = {"chat", "responses", "anthropic", "gemini"}
    CallIds = {"c1", "c2"}
    MaxBlocks = 2
    MaxRequests = 2
    MaxWords = 6
    MediaConfigs <- MCMediaConfigs
    Messages <- MCMessages
    Contents = {"x", "y"}
    NoContent = ""
    Encoded <- MCEncoded
    MaxBase64Bytes = 6
    AllowMimeTypes = {"image/png", "video/mp4"}
    Uploaders = {"anthropic", "openai"}
    MediaProviders = {"anthropic", "openai"}
    MaxSends = 3
    MaxAtOnce = 2
    MaxTroubles = 2
    MaxRetries = 2
    BaseDelay = 10
    MaxDelay = 15
    Jitter = 20
    Timeout = 40
    RetryAfters = {0, 30}
    CallTimes = {0, 20}
    ForkCalls = {"k1", "k2"}
    ResumeProviders = {"anthropic"}
    MaxMessages = 4
    Tokens = {0, 1, 7}
    MaxResponses = 1
    Repeating = {"often"}
    Daily = {"daily"}
    Intervals = {1, 9}
    MinuteOfDay = 1
    Day = 2
    DelayLimit = 4
    MaxTime = 3
    MaxLag = 1
    MaxTicks = 2
    Settings <- MCSettings
    Every = 2
    MaxSteps = 6
    FileSlots = {f1, f2}
    MaxFileCalls = 3
    MaxOutsideEdits = 1
    Inits = {1, 2, 3}
    Paths = {1, 2}
    MaxFileChanges = 2
    Alice = Alice
    Bob = Bob
    MemberNames = {Alice, Bob, Carol}
    Senders = {Alice}
    MentionLists <- MCMentionLists
    Speeches = {s1}
    MaxEntries = 3
    MaxMoves = 1
SPECIFICATION SurroundingsSpec
CHECK_DEADLOCK FALSE
INVARIANTS
    TablesAgree
    CallsGoOn
    LockHolds
    RetriesWell
    
    
    
    CadenceKept
    OutsideEditsKept
    
    SteadyMembersHear
PROPERTIES
    ImplementsTable
