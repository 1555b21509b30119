--------------------------- MODULE MCSurroundings ---------------------------
(***************************************************************************)
(* What surrounds an agent: the SQL stores, the model providers, media     *)
(* that are uploaded, its timers, the files it reads, its remote sandbox,  *)
(* and rooms.  In the instances checked here they share no state, so that  *)
(* one of them works at a time, chosen at the start; the others stay in a  *)
(* fixed initial state.                                                    *)
(***************************************************************************)
EXTENDS SqliteStore, PostgresStore, SessionQuery, AgentLock, StreamAssembly, StreamFraming,
        MessageConversion, ProviderRetry, ForkPoints, UsageAccounting, ThinkTags, MediaUploads,
        Timers, FilePool, SandboxWatch, Rooms

CONSTANTS Alice, Bob
VARIABLE part

Surroundings ==
    {"sqlite", "postgres", "query", "lock", "stream", "framing", "conversion", "think", "retry",
     "upload", "fork", "usage", "clock", "steps", "files", "watch", "remote", "room"}

MCSettings == {-1, 1}
MCMentionLists == {<<>>, <<Bob, Alice, Bob>>}

MCMessages ==
    LET image(c) == Attached("image", "", 0, c, "image/png")
    IN {<<image("x")>>, <<image("y"), Attached("image", "gs", 0, "", "")>>,
        <<Attached("audio", "http", 0, "", ""), Attached("video", "", 0, "x", "video/mp4"),
          image("y"), Attached("file", "gs", Theirs, "", "")>>}
MCMediaConfigs == {[mode |-> "url", callbacks |-> FALSE], [mode |-> "url+base64", callbacks |-> TRUE]}
MCEncoded == [c \in {"x", "y"} |-> [length |-> 8, padding |-> 2]]

Unqueried == /\ table = {} /\ pages = <<>>
             /\ query = [store |-> "sqlite", of |-> "sessions", sortBy |-> "createdAt",
                         desc |-> TRUE, agentId |-> NoFilter, templateId |-> NoFilter,
                         role |-> NoFilter, toolName |-> NoFilter, state |-> NoFilter,
                         startDate |-> 0, endDate |-> 0, limit |-> 0, offset |-> 0]
Unread == /\ reader = "lines" /\ body = [symbols |-> <<>>, frames |-> <<>>]
          /\ position = 0 /\ buffer = <<>> /\ dataLines = <<>> /\ delivered = <<>>
          /\ outcome = "reading"
Unsent == /\ history = <<>> /\ transport = "text" /\ requests = 0
          /\ request = [api |-> "none", entries |-> <<>>]
          /\ unmarked = [api \in Apis |-> Request(api)]

SurroundingsInit ==
    /\ part \in Surroundings
    /\ SqliteInit /\ ForkInit /\ UsageInit
    /\ PostgresInit /\ (part # "postgres" => counts = [a \in AllSessions |-> NoSession])
    /\ LockInit /\ (part # "lock" => lockStore = "sqlite")
    /\ StreamInit /\ (part # "stream" => provider = "anthropic" /\ messageTransport = "text")
    /\ RetryInit /\ (part # "retry" => mode = "retry")
    /\ ThinkInit /\ (part # "think" => thinkTransport = "text")
    /\ UploadInit /\ (part # "upload" => multimodal.mode = "url")
    /\ TimerInit /\ FileInit /\ SandboxInit /\ RoomInit
    /\ (watching = "idle") = (part = "watch")
    /\ \A i \in Inits : (initCall[i].step = "done") = (part # "remote" /\ (part # "watch" \/ i # 1))
    /\ IF part = "query" THEN QueryInit ELSE Unqueried
    /\ IF part = "framing" THEN FramingInit ELSE Unread
    /\ IF part = "conversion" THEN ConversionInit ELSE Unsent

Stores == <<sqliteVars, postgresVars, queryVars, lockVars>>
Transport == <<streamVars, framingVars, conversionVars, thinkVars, retryVars, uploadVars>>
History == <<forkVars, usageVars>>
Services == <<timerVars, fileVars, watcherVars, roomVars>>

StoresNext ==
    \/ part = "sqlite" /\ SqliteNext /\ UNCHANGED <<postgresVars, queryVars, lockVars>>
    \/ part = "postgres" /\ PostgresNext /\ UNCHANGED <<sqliteVars, queryVars, lockVars>>
    \/ part = "query" /\ QueryNext /\ UNCHANGED <<sqliteVars, postgresVars, lockVars>>
    \/ part = "lock" /\ LockNext /\ UNCHANGED <<sqliteVars, postgresVars, queryVars>>

TransportNext ==
    \/ part = "stream" /\ StreamNext
       /\ UNCHANGED <<framingVars, conversionVars, thinkVars, retryVars, uploadVars>>
    \/ part = "framing" /\ FramingNext
       /\ UNCHANGED <<streamVars, conversionVars, thinkVars, retryVars, uploadVars>>
    \/ part = "conversion" /\ ConversionNext
       /\ UNCHANGED <<streamVars, framingVars, thinkVars, retryVars, uploadVars>>
    \/ part = "think" /\ ThinkNext
       /\ UNCHANGED <<streamVars, framingVars, conversionVars, retryVars, uploadVars>>
    \/ part = "retry" /\ RetryNext
       /\ UNCHANGED <<streamVars, framingVars, conversionVars, thinkVars, uploadVars>>
    \/ part = "upload" /\ UploadNext
       /\ UNCHANGED <<streamVars, framingVars, conversionVars, thinkVars, retryVars>>

HistoryNext ==
    \/ part = "fork" /\ ForkNext /\ UNCHANGED usageVars
    \/ part = "usage" /\ UsageNext /\ UNCHANGED forkVars

ServicesNext ==
    \/ /\ \/ part = "clock" /\ ClockNext
          \/ part = "steps" /\ StepNext
       /\ UNCHANGED <<fileVars, watcherVars, roomVars>>
    \/ part = "files" /\ FileNext /\ UNCHANGED <<timerVars, watcherVars, roomVars>>
    \/ part \in {"watch", "remote"} /\ SandboxNext /\ UNCHANGED <<timerVars, fileVars, roomVars>>
    \/ part = "room" /\ RoomNext /\ UNCHANGED <<timerVars, fileVars, watcherVars>>

SurroundingsNext ==
    /\ part' = part
    /\ \/ StoresNext /\ UNCHANGED <<Transport, History, Services>>
       \/ TransportNext /\ UNCHANGED <<Stores, History, Services>>
       \/ HistoryNext /\ UNCHANGED <<Stores, Transport, Services>>
       \/ ServicesNext /\ UNCHANGED <<Stores, Transport, History>>

SurroundingsSpec ==
    SurroundingsInit /\ [][SurroundingsNext]_<<part, Stores, Transport, History, Services>>

-----------------------------------------------------------------------------
\* What is read, received and sent is whole.  The pages of a query cover its rows,
\* and whoever waits for nobody in PostgreSQL is answered; a stream is cut into
\* events as it was sent, they become the message that the model gave, and its
\* costs are the sums of their parts; and what was said goes into the next request
\* whole, thinking included.  What is not at work stays as it was at the start.
AnswersAreWhole ==
    /\ part = "query" => PagesCover
    /\ part = "postgres" => AnsweredGoOn
    /\ part = "framing" => EventsAreSent
    /\ part = "stream" => AnswerArrives
    /\ part = "usage" => CostsAddUp
    /\ part = "conversion" => ConversationIsSent
    /\ part = "think" => ThinkingIsKept
=============================================================================
