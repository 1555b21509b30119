------------------------ MODULE Surroundings_proofs -------------------------
(***************************************************************************)
(* Theorems about the parts around an agent, each for any values of its    *)
(* constants: the session locks of the SQL stores, the bookmarks of its    *)
(* events, the todo list, the files that it edits, the rooms it speaks in, *)
(* the watch of a remote sandbox, its timers, the media it uploads, the    *)
(* points where a conversation may be cut, how it is compressed, and the   *)
(* retries of its requests.                                                *)
(***************************************************************************)
EXTENDS AgentLock, EventCursor, TodoBoard, FilePool, Rooms, SandboxWatch, Timers,
        MediaUploads, ForkPoints, ContextWindow, ProviderRetry,
        FiniteSetTheorems, SequenceTheorems, WellFoundedInduction, TLAPS

-----------------------------------------------------------------------------
(* Session locks (AgentLock).                                              *)

LockTypeOK == /\ lockStore \in LockStores
              /\ workerPhase \in [Workers -> {"out", "in", "late"}]
              /\ clientOf \in [Workers -> Clients \cup {Nobody}]

\* What marks w as the one who has the lock: itself, or the client it was given.
Mark(w) == IF lockStore = "sqlite" THEN w ELSE clientOf[w]

\* The lock is of a worker in time, by the mark of the store at hand.  The
\* property allows either mark; that alone is not inductive, since a worker may
\* bear the name of a client that it does not have.
MarkedInTime == held # Nobody => \E w \in InTime : held = Mark(w)

\* Until somebody releases late, every worker in time has the lock, and its
\* client is out of the pool: a second one would need the same client.
InTimeHolds ==
    ~released => \A w \in InTime : /\ held = Mark(w) /\ held # Nobody
                                   /\ lockStore # "sqlite" => held \in checkedOut
                                   /\ \A v \in InTime : v = w

LockIInv == LockTypeOK /\ MarkedInTime /\ InTimeHolds

-----------------------------------------------------------------------------
\* Nobody has the lock.
LEMMA LockInitHolds == LockInit => LockIInv
BY DEF LockInit, LockIInv, LockTypeOK, MarkedInTime, InTimeHolds, InTime

\* The entry is made where there is none; the timer of its maker takes it back.
LEMMA SqliteStep ==
    ASSUME LockIInv, NEW w \in Workers,
           SqliteAcquire(w) \/ SqliteDeadline(w) \/ SqliteRelease(w)
    PROVE  LockIInv'
<1> USE LockAssumption DEF LockIInv, LockTypeOK, MarkedInTime, InTimeHolds, InTime, Mark, Becomes
<1>1. CASE SqliteAcquire(w)
  BY <1>1 DEF SqliteAcquire
<1>2. CASE SqliteDeadline(w)
  BY <1>2 DEF SqliteDeadline
<1>3. CASE SqliteRelease(w)
  BY <1>3 DEF SqliteRelease
<1>4. QED
  BY <1>1, <1>2, <1>3

\* The lock of a client's session, given back with the client.
LEMMA PostgresStep ==
    ASSUME LockIInv, NEW w \in Workers,
           PostgresAcquire(w) \/ PostgresDeadline(w) \/ PostgresRelease(w)
    PROVE  LockIInv'
<1> USE LockAssumption DEF LockIInv, LockTypeOK, MarkedInTime, InTimeHolds, InTime, Mark, Becomes
<1>1. CASE PostgresAcquire(w)
  BY <1>1 DEF PostgresAcquire
<1>2. CASE PostgresDeadline(w)
  BY <1>2 DEF PostgresDeadline, UnlockAndReturn
<1>3. CASE PostgresRelease(w)
  BY <1>3 DEF PostgresRelease, UnlockAndReturn
<1>4. QED
  BY <1>1, <1>2, <1>3

\* Every step keeps the invariant.
LEMMA LockStep == LockIInv /\ [LockNext]_lockVars => LockIInv'
<1> SUFFICES ASSUME LockIInv, [LockNext]_lockVars
             PROVE  LockIInv'
  OBVIOUS
<1>1. CASE LockNext
  BY <1>1, SqliteStep, PostgresStep DEF LockNext
<1>2. CASE UNCHANGED lockVars
  BY <1>2 DEF lockVars, LockIInv, LockTypeOK, MarkedInTime, InTimeHolds, InTime, Mark
<1>3. QED
  BY <1>1, <1>2

\* One worker in time makes at most one.
LEMMA LockInvariantImplies == LockIInv => LockHolds
<1> SUFFICES ASSUME LockIInv PROVE LockHolds
  OBVIOUS
<1>1. NoLockWithoutHolder
  BY DEF LockIInv, MarkedInTime, Mark, NoLockWithoutHolder
<1>2. ExclusiveUntilLateRelease
  <2> SUFFICES ASSUME ~released PROVE Cardinality(InTime) <= 1
    BY DEF ExclusiveUntilLateRelease
  <2>1. CASE InTime = {}
    BY <2>1, FS_EmptySet
  <2>2. CASE InTime # {}
    <3>1. PICK w \in InTime : TRUE
      BY <2>2
    <3>2. InTime = {w}
      BY <3>1 DEF LockIInv, InTimeHolds
    <3>3. QED
      BY <3>2, FS_Singleton
  <2>3. QED
    BY <2>1, <2>2
<1>3. QED
  BY <1>1, <1>2 DEF LockHolds

-----------------------------------------------------------------------------
\* Of the locks of both SQL stores, with any number of workers and clients:
\* workers in time never share the agent until somebody releases late, and
\* no lock outlives the worker it was given to (acquireAgentLock).
THEOREM LockIsHeld == LockSpec => []LockHolds
<1>1. LockSpec => []LockIInv
  BY LockInitHolds, LockStep, PTL DEF LockSpec
<1>2. QED
  BY <1>1, LockInvariantImplies, PTL

-----------------------------------------------------------------------------
(* Bookmarks (EventCursor).                                                *)

\* No done event among these has a number above b.
Covers(b, events) == \A i \in DOMAIN events : events[i].kind = "done" => events[i].seq <= b

\* The process that numbers events knows the newest bookmark, and is past it.
KnowsNewest == bus.at \in Up => Covers(bus.last, emitted) /\ bus.last < bus.seq

\* What a resume has found, or will find, is the newest bookmark.
FindsNewest == /\ bus.at \in {"found", "blank"} => Covers(bus.found, emitted)
               /\ bus.at = "down" => Covers(ResumeBookmark, emitted)

\* The record has the bookmark of the process or none, but between a done event
\* and the save that follows it.
RecordFollows == /\ bus.at \in {"synced", "ready", "round"} => info \in {NoBookmark, bus.last}
                 /\ bus.at = "found" => info \in {NoBookmark, bus.found}
                 /\ bus.at = "blank" => info = NoBookmark

\* The file ends with its newest done event.
LogEndsNewest == \A d \in Members(doneLog) : d <= LastDone

NumberingGoesOn == KnowsNewest /\ FindsNewest /\ RecordFollows /\ LogEndsNewest /\ DoneResumes
CursorIInv == CursorTypeOK /\ (~unguarded => NumberingGoesOn)

-----------------------------------------------------------------------------
\* What the bounds of the numbers give.
LEMMA NumberTypes ==
    /\ MaxNumber \in Nat /\ MaxEnds \in Nat /\ MaxFailures \in Nat
    /\ Numbers \subseteq Int /\ Numbers \subseteq Bookmarks /\ Bookmarks \subseteq Int
    /\ NoBookmark \in Bookmarks /\ \A n \in Numbers : n + 1 \in 0..(MaxNumber + 1) /\ n >= 0
    /\ NoBookmark = -1 /\ \A b \in Bookmarks : b + 1 \in 0..(MaxNumber + 1)
BY CursorAssumption DEF Bookmarks, Numbers, NoBookmark

\* Types of what the steps read.
LEMMA CursorTypes ==
    ASSUME CursorTypeOK
    PROVE  /\ LastDone \in Bookmarks /\ ResumeBookmark \in Bookmarks /\ info \in Bookmarks
           /\ bus.last \in Bookmarks /\ bus.found \in Bookmarks /\ bus.seq \in Nat
           /\ Members(doneLog) \subseteq Numbers
           /\ \A i \in DOMAIN emitted : emitted[i].seq \in Numbers /\ i \in Nat
<1>1. doneLog \in Seq(Numbers) /\ info \in Bookmarks /\ emitted \in Seq(Recorded)
  BY DEF CursorTypeOK
<1>2. LastDone \in Bookmarks
  BY <1>1 DEF LastDone, Bookmarks
<1>3. ResumeBookmark \in Bookmarks
  BY <1>1, <1>2 DEF ResumeBookmark
<1>4. \A i \in DOMAIN emitted : i \in Nat /\ emitted[i] \in Recorded
  BY <1>1
<1>5. \A e \in Recorded : e.seq \in Numbers
  BY DEF Recorded
<1>6. Members(doneLog) \subseteq Numbers
  BY <1>1 DEF Members
<1>7. bus.last \in Bookmarks /\ bus.found \in Bookmarks /\ bus.seq \in Nat
  BY NumberTypes DEF CursorTypeOK
<1>8. QED
  BY <1>1, <1>2, <1>3, <1>4, <1>5, <1>6, <1>7

\* The same as integers, and what orders them.
LEMMA CursorInts ==
    ASSUME CursorTypeOK
    PROVE  /\ bus.last \in Int /\ bus.found \in Int /\ bus.seq \in Int /\ info \in Int
           /\ LastDone \in Int /\ ResumeBookmark \in Int /\ Members(doneLog) \subseteq Int
           /\ \A i \in DOMAIN emitted : emitted[i].seq \in Int
           /\ \A b, c \in Int : Covers(b, emitted) /\ b <= c => Covers(c, emitted)
<1>1. Numbers \subseteq Int /\ Bookmarks \subseteq Int
  BY NumberTypes
<1>2. \A i \in DOMAIN emitted : emitted[i].seq \in Int
  BY <1>1, CursorTypes
<1>3. \A b, c \in Int : Covers(b, emitted) /\ b <= c => Covers(c, emitted)
  BY <1>2 DEF Covers
<1>4. /\ bus.last \in Bookmarks /\ bus.found \in Bookmarks /\ info \in Bookmarks
      /\ LastDone \in Bookmarks /\ ResumeBookmark \in Bookmarks /\ bus.seq \in Nat
  BY CursorTypes
<1>5. Members(doneLog) \subseteq Int
  BY <1>1, CursorTypes
<1>6. bus.last \in Int /\ bus.found \in Int /\ info \in Int
  BY <1>1, <1>4
<1>7. LastDone \in Int /\ ResumeBookmark \in Int
  BY <1>1, <1>4
<1>8. bus.seq \in Int
  BY <1>4
<1>9. QED
  BY <1>2, <1>3, <1>5, <1>6, <1>7, <1>8

\* A file that grows by one done event.
LEMMA LogGrows ==
    ASSUME NEW q \in Seq(Numbers), NEW h \in Numbers
    PROVE  LET r == Append(q, h)
           IN  Members(r) = Members(q) \cup {h} /\ r # <<>> /\ r[Len(r)] = h
<1> DEFINE r == Append(q, h)
<1>1. /\ Len(q) \in Nat /\ DOMAIN q = 1..Len(q) /\ DOMAIN r = 1..(Len(q) + 1)
      /\ r[Len(q) + 1] = h /\ Len(r) = Len(q) + 1 /\ r # <<>>
      /\ \A i \in 1..Len(q) : r[i] = q[i]
  OBVIOUS
<1>2. Members(r) = Members(q) \cup {h}
  BY <1>1 DEF Members
<1>3. QED
  BY <1>1, <1>2

\* A new agent has given no number.
LEMMA CursorInitHolds == CursorInit => CursorIInv
<1> SUFFICES ASSUME CursorInit PROVE CursorIInv
  OBVIOUS
<1>1. bus \in [at : Up \cup {"down", "found", "blank"}, seq : 0..(MaxNumber + 1),
               last : Bookmarks, found : Bookmarks]
  BY NumberTypes DEF CursorInit, Up
<1>2. /\ sending \in Seq(Numbers) /\ failed \in Seq(Numbers) /\ doneLog \in Seq(Numbers)
      /\ emitted \in Seq(Recorded)
  BY DEF CursorInit
<1>3. CursorTypeOK
  <2>1. ends \in 0..MaxEnds /\ failures \in 0..MaxFailures
    BY NumberTypes DEF CursorInit
  <2>2. info \in Bookmarks /\ streams \subseteq Numbers /\ unguarded \in BOOLEAN
    BY NumberTypes DEF CursorInit
  <2>3. QED
    BY <1>1, <1>2, <2>1, <2>2 DEF CursorTypeOK
<1>4. DOMAIN emitted = {} /\ Members(doneLog) = {}
  BY DEF CursorInit, Members
<1>5. NumberingGoesOn
  BY <1>4 DEF CursorInit, NumberingGoesOn, KnowsNewest, FindsNewest, RecordFollows, LogEndsNewest, DoneResumes,
     Covers, Up, NoBookmark
<1>6. QED
  BY <1>3, <1>5 DEF CursorIInv

\* What is recorded has its type.
LEMMA EmittedTypes ==
    ASSUME emitted \in Seq(Recorded), NEW k \in {"chunk", "done", "resumed"}, Numbered, Emits(k)
    PROVE  emitted' \in Seq(Recorded)
<1>1. [seq |-> bus.seq, kind |-> k] \in Recorded
  BY DEF Numbered, Recorded
<1>2. QED
  BY <1>1 DEF Emits

\* Every step keeps the types.
LEMMA CursorTypeStep == CursorTypeOK /\ [CursorNext]_cursorVars => CursorTypeOK'
<1> SUFFICES ASSUME CursorTypeOK, [CursorNext]_cursorVars PROVE CursorTypeOK'
  OBVIOUS
<1> USE NumberTypes DEF CursorTypeOK, Up
<1>1. CASE EmitMonitor
  BY <1>1 DEF EmitMonitor, Takes, Numbered
<1>2. CASE BeginRound
  BY <1>2 DEF BeginRound
<1>3. CASE EmitChunk
  BY <1>3, EmittedTypes DEF EmitChunk, Takes, Numbered
<1>4. CASE EmitDoneEvent
  <2>1. emitted' \in Seq(Recorded)
    BY <1>4, EmittedTypes DEF EmitDoneEvent
  <2>2. bus.seq \in Numbers /\ sending \in Seq(Numbers) /\ streams \subseteq Numbers
    BY <1>4 DEF EmitDoneEvent, Numbered
  <2>3. sending' \in Seq(Numbers)
    BY <1>4, <2>2 DEF EmitDoneEvent
  <2>4. streams' \subseteq Numbers
    BY <1>4, <2>2 DEF EmitDoneEvent
  <2>5. bus' \in [at : Up \cup {"down", "found", "blank"}, seq : 0..(MaxNumber + 1),
                 last : Bookmarks, found : Bookmarks]
    BY <1>4, <2>2 DEF EmitDoneEvent
  <2>6. QED
    BY <1>4, <2>1, <2>3, <2>4, <2>5 DEF EmitDoneEvent
<1>5. CASE InfoRecordSaved
  BY <1>5 DEF InfoRecordSaved
<1>6. CASE Landed
  BY <1>6 DEF Landed
<1>7. CASE AppendFails
  BY <1>7 DEF AppendFails
<1>8. CASE AppendRetried
  BY <1>8 DEF AppendRetried
<1>9. CASE \E d \in streams : StreamGoesOn(d)
  BY <1>9 DEF StreamGoesOn
<1>10. CASE ProcessEnds
  BY <1>10 DEF ProcessEnds
<1>11. CASE BookmarkFound
  BY <1>11, CursorTypes DEF BookmarkFound
<1>12. CASE Initialized
  BY <1>12 DEF Initialized
<1>13. CASE Synced
  BY <1>13, CursorTypes DEF Synced, SyncCursor
<1>14. CASE AgentResumed
  BY <1>14, EmittedTypes DEF AgentResumed, Numbered
<1>15. CASE UNCHANGED cursorVars
  BY <1>15 DEF cursorVars
<1>16. QED
  BY <1>1, <1>2, <1>3, <1>4, <1>5, <1>6, <1>7, <1>8, <1>9, <1>10, <1>11, <1>12, <1>13, <1>14, <1>15 DEF CursorNext

\* An event that is recorded has a number above those of all done events.
LEMMA EmittedAbove ==
    ASSUME CursorIInv, ~unguarded, NEW k \in {"chunk", "done", "resumed"}, bus.at \in Up,
           Numbered, Emits(k), unguarded' = unguarded
    PROVE  /\ DoneResumes'
           /\ \A b \in Int : Covers(b, emitted') <=> Covers(b, emitted) /\ (k = "done" => bus.seq <= b)
<1> DEFINE e == [seq |-> bus.seq, kind |-> k]
<1>1. emitted \in Seq(Recorded) /\ e \in Recorded
  BY DEF CursorIInv, CursorTypeOK, Numbered, Recorded
<1>2. /\ emitted' = Append(emitted, e)
      /\ DOMAIN emitted' = DOMAIN emitted \cup {Len(emitted) + 1}
      /\ \A i \in DOMAIN emitted : emitted'[i] = emitted[i] /\ i \in Nat /\ i <= Len(emitted)
      /\ emitted'[Len(emitted) + 1] = e /\ Len(emitted) \in Nat
  BY <1>1 DEF Emits
<1>3. DoneResumes /\ Covers(bus.last, emitted) /\ bus.last < bus.seq
  BY DEF CursorIInv, NumberingGoesOn, KnowsNewest
<1>4. bus.last \in Int /\ bus.seq \in Int /\ \A i \in DOMAIN emitted : emitted[i].seq \in Int
  BY CursorInts DEF CursorIInv
<1>5. ASSUME NEW i \in DOMAIN emitted', NEW j \in DOMAIN emitted', i < j,
             emitted'[i].kind = "done"
      PROVE  emitted'[i].seq < emitted'[j].seq
  <2>1. i \in DOMAIN emitted
    BY <1>2, <1>5
  <2>2. CASE j \in DOMAIN emitted
    BY <1>2, <1>3, <1>5, <2>1, <2>2 DEF DoneResumes
  <2>3. CASE j = Len(emitted) + 1
    BY <1>2, <1>3, <1>4, <1>5, <2>1, <2>3 DEF Covers
  <2>4. QED
    BY <1>2, <2>2, <2>3
<1>6. DoneResumes'
  BY <1>5 DEF DoneResumes
<1>7. ASSUME NEW b \in Int PROVE Covers(b, emitted') <=> Covers(b, emitted) /\ (k = "done" => bus.seq <= b)
  BY <1>2 DEF Covers
<1>8. QED
  BY <1>6, <1>7

\* A process that is up: events, rounds and saves of the record.
LEMMA UpStep ==
    ASSUME CursorIInv, ~unguarded,
           EmitMonitor \/ BeginRound \/ EmitChunk \/ EmitDoneEvent \/ InfoRecordSaved \/ AgentResumed
    PROVE  NumberingGoesOn'
<1>0. NumberingGoesOn /\ CursorTypeOK
  BY DEF CursorIInv
<1> /\ bus.last \in Int /\ bus.found \in Int /\ bus.seq \in Int /\ info \in Int
    /\ LastDone \in Int /\ ResumeBookmark \in Int /\ Members(doneLog) \subseteq Int
  BY <1>0, CursorInts
<1> USE <1>0 DEF NumberingGoesOn, KnowsNewest, FindsNewest, RecordFollows, LogEndsNewest, Up, Takes,
        ResumeBookmark, LastDone
<1>1. CASE EmitMonitor
  BY <1>1 DEF EmitMonitor, CursorTypeOK, DoneResumes
<1>2. CASE BeginRound
  BY <1>2 DEF BeginRound, CursorTypeOK, DoneResumes
<1>3. CASE InfoRecordSaved
  BY <1>3 DEF InfoRecordSaved, CursorTypeOK, DoneResumes
<1>4. CASE EmitChunk
  <2>1. DoneResumes' /\ \A b \in Int : Covers(b, emitted') <=> Covers(b, emitted)
    BY <1>4, EmittedAbove DEF EmitChunk
  <2>2. QED
    BY <1>4, <2>1 DEF EmitChunk, CursorTypeOK
<1>5. CASE EmitDoneEvent
  <2>1. DoneResumes' /\ \A b \in Int : Covers(b, emitted') <=> Covers(b, emitted) /\ bus.seq <= b
    BY <1>5, EmittedAbove DEF EmitDoneEvent
  <2>2. Covers(bus.last, emitted) /\ bus.last < bus.seq
    BY <1>5 DEF EmitDoneEvent
  <2>3. Covers(bus.seq, emitted)
    BY <1>0, <2>2, CursorInts
  <2>4. QED
    BY <1>5, <2>1, <2>2, <2>3 DEF EmitDoneEvent, CursorTypeOK
<1>6. CASE AgentResumed
  <2>1. DoneResumes' /\ \A b \in Int : Covers(b, emitted') <=> Covers(b, emitted)
    BY <1>6, EmittedAbove DEF AgentResumed
  <2>2. QED
    BY <1>6, <2>1 DEF AgentResumed, CursorTypeOK
<1>7. QED
  BY <1>1, <1>2, <1>3, <1>4, <1>5, <1>6

\* Appends, and the stream that sets the bookmark.
LEMMA AppendStep ==
    ASSUME CursorIInv, ~unguarded',
           Landed \/ AppendFails \/ AppendRetried \/ \E d \in streams : StreamGoesOn(d)
    PROVE  ~unguarded /\ NumberingGoesOn'
<1>x. ~unguarded
  BY DEF Landed, AppendFails, AppendRetried, StreamGoesOn
<1>0. NumberingGoesOn /\ CursorTypeOK
  BY <1>x DEF CursorIInv
<1> /\ bus.last \in Int /\ bus.found \in Int /\ bus.seq \in Int /\ info \in Int
    /\ LastDone \in Int /\ ResumeBookmark \in Int /\ Members(doneLog) \subseteq Int
  BY <1>0, CursorInts
<1> USE <1>0 DEF NumberingGoesOn, KnowsNewest, FindsNewest, RecordFollows, LogEndsNewest, Up
<1>1. CASE Landed
  <2> DEFINE h == Head(sending)
  <2>1. /\ sending \in Seq(Numbers) /\ sending # <<>> /\ doneLog \in Seq(Numbers)
        /\ doneLog' = Append(doneLog, h)
    BY <1>1 DEF Landed, CursorTypeOK
  <2>2. h \in Numbers
    BY <2>1
  <2>3. LastDone' = h /\ Members(doneLog') = Members(doneLog) \cup {h}
    BY <2>1, <2>2, LogGrows DEF LastDone
  <2>4. h \in Int /\ \A d \in Members(doneLog) : d <= h
    <3>1. h \in Int
      BY <2>2, NumberTypes
    <3>2. \A d \in Members(doneLog) : ~(d > h)
      BY <1>1 DEF Landed
    <3>3. QED
      BY <3>1, <3>2
  <2>5. LastDone <= h
    BY <2>1, <2>2, <2>4, NumberTypes DEF LastDone, Members
  <2>6. LogEndsNewest'
    BY <2>3, <2>4
  <2>7. ResumeBookmark <= ResumeBookmark' /\ ResumeBookmark' \in Int
    BY <1>1, <2>3, <2>4, <2>5 DEF Landed, ResumeBookmark
  <2>8. bus.at = "down" => Covers(ResumeBookmark', emitted)
    BY <1>0, <2>7, CursorInts
  <2>9. QED
    BY <1>1, <2>6, <2>8 DEF Landed, DoneResumes
<1>2. CASE AppendFails \/ AppendRetried
  BY <1>2 DEF AppendFails, AppendRetried, DoneResumes, ResumeBookmark, LastDone
<1>3. CASE \E d \in streams : StreamGoesOn(d)
  BY <1>3 DEF StreamGoesOn, CursorTypeOK, DoneResumes, ResumeBookmark, LastDone
<1>4. QED
  BY <1>1, <1>2, <1>3

\* The end of a process, and the resume up to its first event.
LEMMA ResumeStep ==
    ASSUME CursorIInv, ~unguarded',
           ProcessEnds \/ BookmarkFound \/ Initialized \/ Synced
    PROVE  ~unguarded /\ NumberingGoesOn'
<1>x. ~unguarded
  BY DEF ProcessEnds, BookmarkFound, Initialized, Synced
<1>0. NumberingGoesOn /\ CursorTypeOK
  BY <1>x DEF CursorIInv
<1> /\ bus.last \in Int /\ bus.found \in Int /\ bus.seq \in Int /\ info \in Int
    /\ LastDone \in Int /\ ResumeBookmark \in Int /\ Members(doneLog) \subseteq Int
  BY <1>0, CursorInts
<1> USE <1>0 DEF NumberingGoesOn, KnowsNewest, FindsNewest, RecordFollows, LogEndsNewest, Up
<1>1. CASE ProcessEnds
  <2>1. ~unguarded /\ DoneIsSaved
    BY <1>1 DEF ProcessEnds
  <2>2. Covers(LastDone, emitted)
    <3> SUFFICES ASSUME NEW i \in DOMAIN emitted, emitted[i].kind = "done"
                 PROVE  emitted[i].seq <= LastDone
      BY DEF Covers
    <3>1. PICK d \in Members(doneLog) : emitted[i].seq <= d
      BY <2>1 DEF DoneIsSaved
    <3>2. d <= LastDone /\ d \in Int
      BY <3>1
    <3>3. emitted[i].seq \in Int
      BY <1>0, CursorInts
    <3>4. QED
      BY <3>1, <3>2, <3>3
  <2>3. Covers(ResumeBookmark, emitted)
    BY <1>1, <2>1, <2>2 DEF ProcessEnds, DoneIsSaved, ResumeBookmark, CursorTypeOK
  <2>4. QED
    BY <1>1, <2>1, <2>3 DEF ProcessEnds, DoneResumes, ResumeBookmark, LastDone
<1>2. CASE BookmarkFound
  BY <1>2 DEF BookmarkFound, CursorTypeOK, DoneResumes, ResumeBookmark, LastDone
<1>3. CASE Initialized
  BY <1>3 DEF Initialized, CursorTypeOK, DoneResumes, LastDone
<1>4. CASE Synced
  <2>1. bus.found < SyncCursor(bus.seq, bus.found)
    BY DEF SyncCursor
  <2>2. QED
    BY <1>4, <2>1 DEF Synced, CursorTypeOK, DoneResumes, LastDone
<1>5. QED
  BY <1>1, <1>2, <1>3, <1>4

\* Every step keeps the invariant; a run that is unguarded stays so.
LEMMA CursorStep == CursorIInv /\ [CursorNext]_cursorVars => CursorIInv'
<1> SUFFICES ASSUME CursorIInv, [CursorNext]_cursorVars, ~unguarded' PROVE NumberingGoesOn'
  BY CursorTypeStep DEF CursorIInv
<1>1. CASE EmitMonitor \/ BeginRound \/ EmitChunk \/ EmitDoneEvent \/ InfoRecordSaved \/ AgentResumed
  <2>1. ~unguarded
    BY <1>1 DEF EmitMonitor, BeginRound, EmitChunk, EmitDoneEvent, InfoRecordSaved, AgentResumed
  <2>2. QED
    BY <1>1, <2>1, UpStep
<1>2. CASE Landed \/ AppendFails \/ AppendRetried \/ \E d \in streams : StreamGoesOn(d)
  BY <1>2, AppendStep
<1>3. CASE ProcessEnds \/ BookmarkFound \/ Initialized \/ Synced
  BY <1>3, ResumeStep
<1>4. CASE UNCHANGED cursorVars
  BY <1>4 DEF cursorVars, CursorIInv, NumberingGoesOn, KnowsNewest, FindsNewest, RecordFollows,
     LogEndsNewest, DoneResumes, ResumeBookmark, LastDone
<1>5. QED
  BY <1>1, <1>2, <1>3, <1>4 DEF CursorNext

-----------------------------------------------------------------------------
\* However often a session's process ends, at any await, and is resumed, also
\* in the middle of a resume: what comes after a done event has a number above
\* its own (syncCursor, Agent.resume), under the exceptions that DoneResumes names.
THEOREM NumbersGoOn == CursorSpec => []DoneResumes
<1>1. CursorIInv => DoneResumes
  BY DEF CursorIInv, NumberingGoesOn, DoneResumes
<1>2. QED
  BY <1>1, CursorInitHolds, CursorStep, PTL DEF CursorSpec

-----------------------------------------------------------------------------
(* The todo list (TodoBoard).                                              *)

\* The least element of a set of naturals, for an induction.
LEMMA LeastOf ==
    ASSUME NEW T \in SUBSET Nat, T # {}
    PROVE  \E n \in T : \A m \in T : n <= m
<1>1. PICK x \in T : \A y \in T : ~(<<y, x>> \in OpToRel(<, Nat))
  BY NatLessThanWellFounded, WFMin
<1>2. \A y \in T : ~(y < x)
  BY <1>1 DEF OpToRel
<1> QED BY <1>2

TodoLists == Seq(Todo)
Filed == [todos : TodoLists, version : Nat]
ChangeStates == [status : {"idle", "refused", "saving", "saved", "failed", "done"}, saving : Filed]
TodoTypes == /\ board \in TodoLists /\ version \in Nat /\ filed \in Filed
             /\ change \in [TodoChanges -> ChangeStates]
             /\ sinceReminder \in Nat /\ silentRounds \in Nat /\ troubled \in BOOLEAN

\* Every list that may come to be the board or the stored one is valid.
AllValid == /\ Valid(board) /\ Valid(filed.todos)
            /\ \A c \in TodoChanges : Valid(change[c].saving.todos)

\* What bears the newest version is the board; and until something fails, that
\* is stored or is handed to the store.
NewestKept ==
    /\ filed.version <= version /\ (filed.version = version => filed.todos = board)
    /\ \A c \in TodoChanges : change[c].status = "saving" =>
          /\ change[c].saving.version <= version
          /\ change[c].saving.version = version => change[c].saving.todos = board
    /\ ~troubled =>
          \/ filed.version = version
          \/ \E c \in TodoChanges : change[c].status = "saving" /\ change[c].saving.version = version

Shown == ~troubled /\ Settled => announced = board
Counted == silentRounds <= sinceReminder /\ silentRounds < RemindEvery

TodoInv == TodoTypes /\ AllValid /\ NewestKept /\ Shown /\ Counted

\* remove() leaves a part of the list, in its order.
LEMMA RemovedHolds ==
    ASSUME NEW q \in TodoLists, Valid(q), NEW id
    PROVE  Removed(q, id) \in TodoLists /\ Valid(Removed(q, id))
<1> DEFINE N == Len(q)
           Step(f, n) == IF n = 0 THEN <<>>
                         ELSE IF q[n].id # id THEN Append(f[n - 1], q[n]) ELSE f[n - 1]
           Part(r, n) == /\ r \in TodoLists /\ Valid(r)
                         /\ \A i \in 1..Len(r) : \E j \in 1..n : r[i] = q[j]
           Is(f, n) == f \in [0..n -> TodoLists] /\ \A i \in 0..n : f[i] = Step(f, i)
           F == CHOOSE f : f = [n \in 0..N |-> Step(f, n)]
<1>1. N \in Nat /\ \A n \in 1..N : q[n] \in Todo
  BY DEF TodoLists
<1>2. Removed(q, id) = F[N]
  BY DEF Removed
<1> HIDE DEF F
<1>3. ASSUME NEW n \in 1..N, NEW g \in TodoLists
      PROVE  (IF q[n].id # id THEN Append(g, q[n]) ELSE g) \in TodoLists
  <2>1. Append(g, q[n]) \in TodoLists
    BY <1>1, AppendProperties DEF TodoLists
  <2> QED BY <2>1
<1>e. <<>> \in TodoLists
  BY DEF TodoLists
<1>4. \A n \in 0..N : \E f : Is(f, n)
  <2> DEFINE T == {n \in 0..N : ~\E f : Is(f, n)}
  <2> SUFFICES ASSUME T # {} PROVE FALSE
    OBVIOUS
  <2>1. PICK n \in T : \A m \in T : n <= m
    <3>1. T \in SUBSET Nat
      OBVIOUS
    <3> HIDE DEF T
    <3> QED BY <3>1, LeastOf
  <2>a. n \in 0..N /\ ~(\E f : Is(f, n)) /\ \A m \in 0..N : m < n => \E f : Is(f, m)
    <3> DEFINE P(m) == \E f : Is(f, m)
    <3>1. n \in 0..N /\ ~P(n) /\ \A m \in 0..N : ~P(m) => n <= m
      BY <2>1
    <3> HIDE DEF P
    <3>2. \A m \in 0..N : m < n => P(m)
      BY <3>1, <1>1
    <3> QED BY <3>1, <3>2 DEF P
  <2> HIDE DEF T
  <2>2. CASE n = 0
    <3> DEFINE f == [i \in 0..0 |-> <<>>]
    <3>1. f \in [0..0 -> TodoLists] /\ \A i \in 0..0 : i = 0 /\ f[i] = <<>>
      BY <1>e
    <3> QED BY <2>a, <2>2, <3>1
  <2>3. CASE n # 0
    <3>1. n \in 1..N /\ n - 1 \in 0..N /\ n - 1 < n
      BY <2>a, <2>3, <1>1
    <3>2. PICK f : Is(f, n - 1)
      BY <2>a, <3>1
    <3> DEFINE g == [i \in 0..n |-> IF i < n THEN f[i] ELSE Step(f, n)]
    <3>3. f[n - 1] \in TodoLists
      BY <3>1, <3>2
    <3>4. Step(f, n) \in TodoLists
      BY <1>3, <3>1, <3>3, <2>3
    <3>5. g \in [0..n -> TodoLists]
      BY <3>2, <3>4, <2>a
    <3>6. ASSUME NEW i \in 0..n PROVE g[i] = Step(g, i)
      <4>1. CASE i < n
        <5>1. i \in 0..(n - 1) /\ g[i] = f[i] /\ (i # 0 => i - 1 \in 0..n /\ i - 1 < n)
          BY <4>1, <2>a
        <5>2. i # 0 => g[i - 1] = f[i - 1]
          BY <5>1
        <5> QED BY <3>2, <5>1, <5>2
      <4>2. CASE i = n
        <5>1. g[i] = Step(f, n) /\ g[n - 1] = f[n - 1]
          BY <4>2, <3>1
        <5> QED BY <4>2, <5>1
      <4> QED BY <3>1, <4>1, <4>2
    <3>7. Is(g, n)
      BY <3>5, <3>6
    <3> QED BY <2>a, <3>7
  <2> QED BY <2>2, <2>3
<1>5. \A n \in 0..N : F[n] = Step(F, n)
  <2>1. PICK f : Is(f, N)
    BY <1>1, <1>4
  <2>2. f = [n \in 0..N |-> Step(f, n)]
    BY <2>1
  <2>3. F = [n \in 0..N |-> Step(F, n)]
    BY <2>2 DEF F
  <2> QED BY <2>3
<1>6. \A n \in 0..N : Part(F[n], n)
  <2> DEFINE T == {n \in 0..N : ~Part(F[n], n)}
  <2> SUFFICES ASSUME T # {} PROVE FALSE
    OBVIOUS
  <2>1. PICK n \in T : \A m \in T : n <= m
    <3>1. T \in SUBSET Nat
      OBVIOUS
    <3> HIDE DEF T
    <3> QED BY <3>1, LeastOf
  <2>2. /\ n \in 0..N /\ ~Part(F[n], n) /\ F[n] = Step(F, n)
        /\ \A m \in 0..N : m < n => Part(F[m], m)
    <3> DEFINE P(m) == Part(F[m], m)
    <3>1. n \in 0..N /\ ~P(n) /\ \A m \in 0..N : ~P(m) => n <= m
      BY <2>1
    <3>2. F[n] = Step(F, n)
      BY <1>5, <3>1
    <3> HIDE DEF P, Step
    <3>3. \A m \in 0..N : m < n => P(m)
      BY <3>1, <1>1
    <3> QED BY <3>1, <3>2, <3>3 DEF P
  <2> HIDE DEF T
  <2>3. CASE n = 0
    <3>1. F[n] = <<>>
      BY <2>2, <2>3
    <3>2. PICK r : r = <<>> /\ Len(r) = 0 /\ DOMAIN r = {}
      OBVIOUS
    <3>3. r \in TodoLists
      BY <1>e, <3>2
    <3>4. Part(r, 0)
      BY <3>2, <3>3 DEF Valid
    <3> QED BY <2>2, <2>3, <3>1, <3>2, <3>4
  <2>4. CASE n # 0
    <3>1. n \in 1..N /\ n - 1 \in 0..N /\ n - 1 < n
      BY <2>2, <2>4, <1>1
    <3>2. PICK g : g = F[n - 1]
      OBVIOUS
    <3>3. g \in TodoLists /\ Valid(g) /\ \A i \in 1..Len(g) : \E j \in 1..(n - 1) : g[i] = q[j]
      BY <2>2, <3>1, <3>2
    <3>4. F[n] = IF q[n].id # id THEN Append(g, q[n]) ELSE g
      BY <2>2, <3>1, <3>2, <2>4
    <3>5. \A j \in 1..(n - 1) : j \in 1..n
      BY <3>1
    <3>6. CASE F[n] = g
      <4>1. Part(g, n)
        BY <3>3, <3>5
      <4> QED BY <2>2, <3>6, <4>1
    <3>7. CASE F[n] = Append(g, q[n])
      <4>1. PICK r : r = F[n]
        OBVIOUS
      <4>2. /\ r \in TodoLists /\ Len(r) = Len(g) + 1 /\ Len(g) \in Nat
            /\ \A i \in 1..Len(g) : r[i] = g[i]
            /\ r[Len(g) + 1] = q[n]
        BY <1>1, <3>1, <3>3, <3>7, <4>1, AppendProperties DEF TodoLists
      <4>3. ASSUME NEW i \in 1..Len(r) PROVE \E j \in 1..n : r[i] = q[j] /\ (j = n <=> i = Len(r))
        <5>1. CASE i = Len(g) + 1
          BY <3>1, <4>2, <5>1
        <5>2. CASE i \in 1..Len(g)
          <6>1. PICK j \in 1..(n - 1) : g[i] = q[j]
            BY <3>3, <5>2
          <6>2. r[i] = q[j] /\ j \in 1..n /\ j # n /\ i # Len(r)
            BY <3>1, <3>5, <4>2, <5>2, <6>1
          <6> QED BY <6>2
        <5> QED BY <4>2, <5>1, <5>2
      <4>4. DOMAIN r = 1..Len(r) /\ DOMAIN g = 1..Len(g) /\ DOMAIN q = 1..N
        BY <3>3, <4>2 DEF TodoLists
      <4>5. ASSUME NEW i \in DOMAIN r, NEW k \in DOMAIN r,
                   r[i].id = r[k].id \/ (r[i].status = "in_progress" /\ r[k].status = "in_progress")
            PROVE  i = k
        <5>1. CASE i \in 1..Len(g) /\ k \in 1..Len(g)
          BY <3>3, <4>2, <4>4, <4>5, <5>1 DEF Valid
        <5>2. CASE i = Len(r) \/ k = Len(r)
          <6>1. PICK j \in 1..n, l \in 1..n : /\ r[i] = q[j] /\ r[k] = q[l]
                                               /\ (j = n <=> i = Len(r)) /\ (l = n <=> k = Len(r))
            BY <4>3, <4>4
          <6>2. j \in 1..N /\ l \in 1..N
            BY <3>1, <1>1
          <6>3. j = l
            BY <4>4, <4>5, <6>1, <6>2 DEF Valid
          <6> QED BY <5>2, <6>1, <6>3
        <5> QED BY <4>2, <4>4, <5>1, <5>2
      <4>6. Valid(r)
        BY <4>5 DEF Valid
      <4>7. Part(r, n)
        BY <4>2, <4>3, <4>6
      <4> QED BY <2>2, <4>1, <4>7
    <3> QED BY <3>4, <3>6, <3>7
  <2> QED BY <2>3, <2>4
<1>7. Part(F[N], N)
  BY <1>1, <1>6
<1> QED BY <1>2, <1>7

\* An empty list, of which the agent was told nothing, needs no reminder.
LEMMA TodoInitHolds == TodoInit => TodoInv
<1> SUFFICES ASSUME TodoInit PROVE TodoInv
  OBVIOUS
<1>1. PICK e : e = <<>> /\ e \in TodoLists /\ DOMAIN e = {}
  <2>1. PICK e : e = <<>> /\ Len(e) = 0
    OBVIOUS
  <2>2. e \in TodoLists
    BY <2>1 DEF TodoLists
  <2>3. DOMAIN e = 1..Len(e)
    BY <2>2 DEF TodoLists
  <2> QED BY <2>1, <2>2, <2>3
<1>2. /\ board = e /\ version = 1 /\ filed = [todos |-> e, version |-> 1]
      /\ change = [c \in TodoChanges |-> [status |-> "idle", saving |-> filed]]
      /\ announced = e /\ sinceReminder = 0 /\ silentRounds = 0 /\ troubled = FALSE
  BY <1>1 DEF TodoInit
<1>3. Valid(e)
  BY <1>1 DEF Valid
<1>4. TodoTypes
  BY <1>1, <1>2 DEF TodoTypes, Filed, ChangeStates
<1>5. AllValid
  BY <1>2, <1>3 DEF AllValid
<1>6. NewestKept /\ Shown
  BY <1>2 DEF NewestKept, Shown
<1>7. Counted
  BY <1>2, TodoAssumption DEF Counted
<1> QED BY <1>4, <1>5, <1>6, <1>7 DEF TodoInv

\* The new list is in memory and on its way to the store.
LEMMA ReplaceStep ==
    ASSUME TodoInv, NEW c \in TodoChanges, NEW todos \in TodoLists, Valid(todos), Replace(c, todos)
    PROVE  TodoInv'
<1> USE DEF TodoInv
<1>1. PICK v : v = version + 1 /\ v \in Nat /\ v > version
  BY DEF TodoTypes
<1>2. PICK T : T = [status |-> "saving", saving |-> [todos |-> todos, version |-> v]]
  OBVIOUS
<1>3. T \in ChangeStates /\ T.status = "saving" /\ T.saving.todos = todos /\ T.saving.version = v
  BY <1>1, <1>2 DEF ChangeStates, Filed
<1>4. /\ board' = todos /\ version' = v /\ change' = [change EXCEPT ![c] = T]
      /\ UNCHANGED <<filed, announced, sinceReminder, silentRounds, troubled>>
  BY <1>1, <1>2 DEF Replace
<1>5. change'[c] = T /\ \A d \in TodoChanges : d # c => change'[d] = change[d]
  BY <1>4 DEF TodoTypes
<1>6. TodoTypes'
  BY <1>1, <1>3, <1>4 DEF TodoTypes
<1>7. AllValid'
  BY <1>3, <1>4, <1>5 DEF AllValid
<1>8. NewestKept'
  <2>1. filed.version \in Nat /\ version \in Nat /\ \A d \in TodoChanges : change[d].saving.version \in Nat
    BY DEF TodoTypes, Filed, ChangeStates
  <2>2. filed.version < v
    BY <1>1, <2>1 DEF NewestKept
  <2>3. \A d \in TodoChanges : change[d].status = "saving" => change[d].saving.version < v
    BY <1>1, <2>1 DEF NewestKept
  <2>4. filed'.version <= version' /\ filed'.version # version'
    BY <1>1, <1>4, <2>1, <2>2
  <2>5. ASSUME NEW d \in TodoChanges, change'[d].status = "saving"
        PROVE  /\ change'[d].saving.version <= version'
               /\ change'[d].saving.version = version' => change'[d].saving.todos = board'
    <3>1. CASE d = c
      BY <1>1, <1>3, <1>4, <1>5, <3>1
    <3>2. CASE d # c
      BY <1>1, <1>4, <1>5, <2>1, <2>3, <2>5, <3>2
    <3> QED BY <3>1, <3>2
  <2>6. \E d \in TodoChanges : change'[d].status = "saving" /\ change'[d].saving.version = version'
    BY <1>3, <1>4, <1>5
  <2> QED BY <2>4, <2>5, <2>6 DEF NewestKept
<1>9. Shown'
  BY <1>3, <1>5 DEF Shown, Settled
<1>10. Counted'
  BY <1>4 DEF Counted
<1> QED BY <1>6, <1>7, <1>8, <1>9, <1>10

\* A change that begins is one that has not been made yet.
LEMMA BeginsIdle ==
    ASSUME NEW c \in TodoChanges, Begins(c) PROVE change[c].status = "idle"
BY TodoAssumption DEF Begins

\* What changes no more than the status of one change that is not being saved.
LEMMA StatusStep ==
    ASSUME TodoInv, NEW c \in TodoChanges, NEW st \in {"refused", "saved", "failed", "done"},
           change' = [change EXCEPT ![c].status = st]
    PROVE  /\ change' \in [TodoChanges -> ChangeStates]
           /\ change'[c].status = st /\ change'[c].saving = change[c].saving
           /\ \A d \in TodoChanges : d # c => change'[d] = change[d]
BY DEF TodoInv, TodoTypes, ChangeStates

\* A change that is refused, or that finds nothing to change, leaves the list.
LEMMA RefusedStep ==
    ASSUME TodoInv, NEW c \in TodoChanges, change[c].status = "idle", TodoRefused(c)
    PROVE  TodoInv'
<1> USE DEF TodoInv
<1>1. /\ change' = [change EXCEPT ![c].status = "refused"]
      /\ UNCHANGED <<board, version, filed, announced, sinceReminder, silentRounds, troubled>>
  BY DEF TodoRefused
<1>2. /\ change' \in [TodoChanges -> ChangeStates]
      /\ change'[c].status = "refused" /\ change'[c].saving = change[c].saving
      /\ \A d \in TodoChanges : d # c => change'[d] = change[d]
  BY <1>1, StatusStep
<1>3. TodoTypes' /\ AllValid' /\ Counted'
  BY <1>1, <1>2 DEF TodoTypes, AllValid, Counted
<1>4. NewestKept'
  BY <1>1, <1>2 DEF NewestKept
<1>5. Shown'
  BY <1>1, <1>2 DEF Shown, Settled
<1> QED BY <1>3, <1>4, <1>5

\* The store has the list of a change: a newer one only if another is awaited.
LEMMA LandsStep ==
    ASSUME TodoInv, NEW c \in TodoChanges, SaveLands(c)
    PROVE  TodoInv'
<1> USE DEF TodoInv
<1>1. /\ change[c].status = "saving" /\ change' = [change EXCEPT ![c].status = "saved"]
      /\ filed' = change[c].saving /\ troubled' = (troubled \/ filed.version > change[c].saving.version)
      /\ UNCHANGED <<board, version, announced, sinceReminder, silentRounds>>
  BY DEF SaveLands
<1>2. /\ change' \in [TodoChanges -> ChangeStates]
      /\ change'[c].status = "saved" /\ change'[c].saving = change[c].saving
      /\ \A d \in TodoChanges : d # c => change'[d] = change[d]
  BY <1>1, StatusStep
<1>3. change[c].saving \in Filed /\ troubled' \in BOOLEAN
  <2>1. change[c] \in ChangeStates /\ troubled \in BOOLEAN
    BY DEF TodoTypes
  <2>2. troubled' \in BOOLEAN
    BY <1>1, <2>1
  <2> QED BY <2>1, <2>2 DEF ChangeStates
<1>4. TodoTypes' /\ AllValid' /\ Counted'
  BY <1>1, <1>2, <1>3 DEF TodoTypes, AllValid, Counted
<1>5. NewestKept'
  <2>1. PICK v, w, n \in Nat : v = version /\ w = filed.version /\ n = change[c].saving.version
    BY <1>3 DEF TodoTypes, Filed
  <2>2. n <= v /\ (n = v => change[c].saving.todos = board) /\ w <= v
    BY <1>1, <2>1 DEF NewestKept
  <2>3. filed'.version <= version' /\ (filed'.version = version' => filed'.todos = board')
    BY <1>1, <2>1, <2>2
  <2>4. ASSUME ~troubled' PROVE \/ filed'.version = version'
                                \/ \E d \in TodoChanges : change'[d].status = "saving" /\ change'[d].saving.version = version'
    <3>1. ~troubled /\ ~(w > n)
      BY <1>1, <2>1, <2>4
    <3>2. CASE n = v
      BY <1>1, <2>1, <3>2
    <3>3. CASE n # v
      <4>1. w # v
        BY <2>2, <3>1, <3>3, <2>1
      <4>2. PICK d \in TodoChanges : change[d].status = "saving" /\ change[d].saving.version = v
        BY <2>1, <3>1, <4>1 DEF NewestKept
      <4>3. d # c
        BY <2>1, <3>3, <4>2
      <4> QED BY <1>1, <1>2, <2>1, <4>2, <4>3
    <3> QED BY <3>2, <3>3
  <2>5. \A d \in TodoChanges : change'[d].status = "saving" => change[d].status = "saving" /\ change'[d] = change[d]
    BY <1>2
  <2>6. \A d \in TodoChanges : change'[d].status = "saving" =>
          /\ change'[d].saving.version <= version'
          /\ change'[d].saving.version = version' => change'[d].saving.todos = board'
    BY <1>1, <2>5 DEF NewestKept
  <2> QED BY <2>3, <2>4, <2>6 DEF NewestKept
<1>6. Shown'
  BY <1>2 DEF Shown, Settled
<1> QED BY <1>4, <1>5, <1>6

\* A save that fails leaves the list as it was.
LEMMA FailsStep ==
    ASSUME TodoInv, NEW c \in TodoChanges, TodoSaveFails(c)
    PROVE  TodoInv'
<1> USE DEF TodoInv
<1>1. /\ change' = [change EXCEPT ![c].status = "failed"] /\ troubled' = TRUE
      /\ UNCHANGED <<board, version, filed, announced, sinceReminder, silentRounds>>
  BY DEF TodoSaveFails
<1>2. /\ change' \in [TodoChanges -> ChangeStates]
      /\ change'[c].status = "failed" /\ change'[c].saving = change[c].saving
      /\ \A d \in TodoChanges : d # c => change'[d] = change[d]
  BY <1>1, StatusStep
<1>3. TodoTypes' /\ AllValid' /\ Counted'
  BY <1>1, <1>2 DEF TodoTypes, AllValid, Counted
<1>4. NewestKept' /\ Shown'
  BY <1>1, <1>2 DEF NewestKept, Shown
<1> QED BY <1>3, <1>4

\* publishChange() shows the list of now.
LEMMA AnnounceStep ==
    ASSUME TodoInv, NEW c \in TodoChanges, Announce(c)
    PROVE  TodoInv'
<1> USE DEF TodoInv
<1>1. /\ change[c].status = "saved" /\ change' = [change EXCEPT ![c].status = "done"]
      /\ announced' = board /\ sinceReminder' = 0 /\ silentRounds' = 0
      /\ UNCHANGED <<board, version, filed, troubled>>
  BY DEF Announce
<1>2. /\ change' \in [TodoChanges -> ChangeStates]
      /\ change'[c].status = "done" /\ change'[c].saving = change[c].saving
      /\ \A d \in TodoChanges : d # c => change'[d] = change[d]
  BY <1>1, StatusStep
<1>3. TodoTypes' /\ AllValid'
  BY <1>1, <1>2 DEF TodoTypes, AllValid
<1>4. NewestKept'
  BY <1>1, <1>2 DEF NewestKept
<1>5. Shown'
  BY <1>1 DEF Shown
<1>6. Counted'
  BY <1>1, TodoAssumption DEF Counted
<1> QED BY <1>3, <1>4, <1>5, <1>6

\* A step of the agent counts, or reminds.
LEMMA CountStep ==
    ASSUME TodoInv, OnStep
    PROVE  TodoInv'
<1> USE DEF TodoInv
<1>1. UNCHANGED <<board, version, filed, change, announced, troubled>>
  BY DEF OnStep
<1>2. sinceReminder \in Nat /\ silentRounds \in Nat /\ RemindEvery \in Nat \ {0}
  BY TodoAssumption DEF TodoTypes
<1>3. sinceReminder' \in Nat /\ silentRounds' \in Nat /\ silentRounds' <= sinceReminder' /\ silentRounds' < RemindEvery
  <2>1. CASE sinceReminder + 1 >= RemindEvery /\ Unfinished(board) # {}
    BY <1>2, <2>1 DEF OnStep
  <2>2. CASE ~(sinceReminder + 1 >= RemindEvery) /\ Unfinished(board) # {}
    <3>1. sinceReminder' = sinceReminder + 1 /\ silentRounds' = silentRounds + 1
      BY <2>2 DEF OnStep
    <3>2. silentRounds <= sinceReminder /\ sinceReminder + 1 < RemindEvery
      BY <1>2, <2>2 DEF Counted
    <3> QED BY <1>2, <3>1, <3>2
  <2>3. CASE Unfinished(board) = {}
    <3>1. sinceReminder' = sinceReminder + 1 /\ silentRounds' = 0
      BY <2>3 DEF OnStep
    <3> QED BY <1>2, <3>1
  <2> QED BY <2>1, <2>2, <2>3
<1>4. TodoTypes' /\ AllValid' /\ NewestKept' /\ Counted'
  BY <1>1, <1>3 DEF TodoTypes, AllValid, NewestKept, Counted
<1>5. Shown'
  BY <1>1 DEF Shown, Settled
<1> QED BY <1>4, <1>5

\* After a restart the list is the one of the store, and nothing is under way.
LEMMA ReloadStep ==
    ASSUME TodoInv, Reload
    PROVE  TodoInv'
<1> USE DEF TodoInv
<1>1. /\ board' = filed.todos /\ version' = filed.version /\ announced' = filed.todos
      /\ sinceReminder' = 0 /\ silentRounds' = 0 /\ UNCHANGED <<filed, troubled>>
  BY DEF Reload
<1>2. ASSUME NEW c \in TodoChanges
      PROVE  /\ change'[c] \in ChangeStates /\ change'[c].saving = change[c].saving
             /\ change'[c].status \notin {"saving", "saved"}
  <2>1. change[c] \in ChangeStates
    BY DEF TodoTypes
  <2>2. change'[c] = IF change[c].status \in {"saving", "saved"}
                     THEN [change[c] EXCEPT !.status = "failed"] ELSE change[c]
    BY DEF Reload
  <2>3. CASE change[c].status \in {"saving", "saved"}
    <3>1. PICK r : r = [change[c] EXCEPT !.status = "failed"]
      OBVIOUS
    <3>2. r \in ChangeStates /\ r.status = "failed" /\ r.saving = change[c].saving
      BY <2>1, <3>1 DEF ChangeStates
    <3> QED BY <2>2, <2>3, <3>1, <3>2
  <2>4. CASE change[c].status \notin {"saving", "saved"}
    BY <2>1, <2>2, <2>4
  <2> QED BY <2>3, <2>4
<1>3. change' \in [TodoChanges -> ChangeStates]
  <2>1. change' = [c \in TodoChanges |-> change'[c]]
    BY DEF Reload
  <2> QED BY <1>2, <2>1
<1>4. filed.todos \in TodoLists /\ filed.version \in Nat
  BY DEF TodoTypes, Filed
<1>5. TodoTypes'
  BY <1>1, <1>3, <1>4 DEF TodoTypes
<1>6. AllValid' /\ NewestKept' /\ Shown'
  BY <1>1, <1>2, <1>4 DEF AllValid, NewestKept, Shown
<1>7. Counted'
  BY <1>1, TodoAssumption DEF Counted
<1> QED BY <1>5, <1>6, <1>7

\* Every step keeps the list valid, and the count of reminders right.
LEMMA TodoStep == TodoInv /\ [TodoNext]_todoVars => TodoInv'
<1> SUFFICES ASSUME TodoInv, [TodoNext]_todoVars PROVE TodoInv'
  OBVIOUS
<1>0. board \in TodoLists /\ Valid(board)
  BY DEF TodoInv, TodoTypes, AllValid
<1>1. ASSUME NEW c \in TodoChanges, NEW todos \in Lists, SetTodos(c, todos) PROVE TodoInv'
  <2>1. todos \in TodoLists
    BY DEF Lists, TodoLists
  <2>2. change[c].status = "idle"
    BY <1>1, BeginsIdle DEF SetTodos
  <2> QED BY <1>1, <2>1, <2>2, ReplaceStep, RefusedStep DEF SetTodos
<1>2. ASSUME NEW c \in TodoChanges, NEW todo \in Todo, Update(c, todo) PROVE TodoInv'
  <2>1. PICK next : next = [i \in DOMAIN board |-> IF board[i].id = todo.id THEN todo ELSE board[i]]
    OBVIOUS
  <2>2. next \in TodoLists
    BY <1>0, <2>1 DEF TodoLists
  <2>3. change[c].status = "idle"
    BY <1>2, BeginsIdle DEF Update
  <2>4. (Valid(next) /\ Replace(c, next)) \/ TodoRefused(c)
    BY <1>2, <2>1 DEF Update
  <2> QED BY <2>2, <2>3, <2>4, ReplaceStep, RefusedStep
<1>3. ASSUME NEW c \in TodoChanges, NEW id \in TodoIds, RemoveTodo(c, id) PROVE TodoInv'
  <2>1. PICK next : next = Removed(board, id)
    OBVIOUS
  <2>2. next \in TodoLists /\ Valid(next)
    BY <1>0, <2>1, RemovedHolds
  <2>3. Replace(c, next)
    BY <1>3, <2>1 DEF RemoveTodo
  <2> QED BY <2>2, <2>3, ReplaceStep
<1>4. ASSUME NEW c \in TodoChanges, SaveLands(c) \/ TodoSaveFails(c) \/ Announce(c) PROVE TodoInv'
  BY <1>4, LandsStep, FailsStep, AnnounceStep
<1>5. CASE UNCHANGED todoVars
  <2>1. UNCHANGED <<board, version, filed, change, announced, sinceReminder, silentRounds, troubled>>
    BY <1>5 DEF todoVars
  <2>2. (TodoTypes /\ AllValid /\ NewestKept /\ Counted)'
    BY <2>1 DEF TodoInv, TodoTypes, AllValid, NewestKept, Counted
  <2>3. Shown'
    BY <2>1 DEF TodoInv, Shown, Settled
  <2> QED BY <2>2, <2>3 DEF TodoInv
<1> QED BY <1>1, <1>2, <1>3, <1>4, <1>5, CountStep, ReloadStep DEF TodoNext

\* For any number of changes, saves that land in any order or fail, and restarts:
\* no list with a repeated id or two todos in progress is held or stored; once
\* the changes have ended what was shown and what is stored is the list, unless a
\* save failed or was overtaken; and open todos are spoken of within the interval.
THEOREM BoardHolds == TodoSpec => []BoardKept
<1>1. TodoInv => BoardKept
  <2> SUFFICES ASSUME TodoInv PROVE ListsAreValid /\ ShownAndFiled /\ RemindsInTime
    BY DEF BoardKept
  <2>1. ListsAreValid /\ RemindsInTime
    BY DEF TodoInv, AllValid, Counted, ListsAreValid, RemindsInTime
  <2>2. ShownAndFiled
    BY DEF TodoInv, Shown, NewestKept, Settled, ShownAndFiled
  <2> QED BY <2>1, <2>2
<1> QED BY <1>1, TodoInitHolds, TodoStep, PTL DEF TodoSpec

-----------------------------------------------------------------------------
(* Files that the tools read and edit (FilePool).                          *)

FileTools == {"fs_read", "fs_write", "fs_edit", "fs_multi_edit"}
FileSteps == {"validate", "read", "write", "stat", "watch", "wait"}
FileRecords == [read : BOOLEAN, readMtime : Nat, knownMtime : Nat]

\* A call with these fields, on one of n records.
ACall(c, n) ==
    /\ c = [tool |-> c.tool, id |-> c.id, object |-> c.object, content |-> c.content,
            more |-> c.more, step |-> c.step]
    /\ c.tool \in FileTools /\ c.step \in FileSteps /\ c.object \in 0..n /\ c.more \in BOOLEAN
    /\ c.step = "stat" => c.object # 0
    /\ c.step \in {"validate", "write"} => c.tool # "fs_read"
    /\ c.more => c.tool = "fs_multi_edit"

FileTypes ==
    /\ file.mtime \in Nat \ {0} /\ objects \in Seq(FileRecords) /\ tracked \in 0..Len(objects)
    /\ watch \in {"none", "pending", "set"} /\ watchersMade \in {0, 1}
    /\ fileCall = [s \in FileSlots |-> fileCall[s]]
    /\ \A s \in FileSlots : fileCall[s] = NoFileCall \/ ACall(fileCall[s], Len(objects))

IsAt(s, at) == fileCall[s] # NoFileCall /\ fileCall[s].step = at

\* One call opens the watcher, and none once there is one.
OneOpens ==
    /\ \A s \in FileSlots : IsAt(s, "watch") => watch = "pending"
    /\ \A s, t \in FileSlots : IsAt(s, "watch") /\ IsAt(t, "watch") => s = t
    /\ watchersMade = 1 => watch = "set"

\* A record that was read has the time of a read, unless one is about to set it.
ReadsTimed ==
    \A o \in 1..Len(objects) :
        /\ objects[o].readMtime <= file.mtime
        /\ objects[o].read =>
              \/ objects[o].readMtime # 0
              \/ \E s \in FileSlots : IsAt(s, "stat") /\ fileCall[s].tool = "fs_read" /\ fileCall[s].object = o

\* While an edit of others is unread, no record is fresh, so that no call may
\* write without having read the file with that edit.
Unread == quiet \ seen
Cautious(c, unread) ==
    /\ c.step = "stat" => c.tool # "fs_read"
    /\ c.step = "validate" => c.object # 0
    /\ c.step = "write" => unread \subseteq c.content
UnreadKept ==
    Unread # {} =>
        /\ Unread \subseteq file.edits /\ tracked # 0
        /\ \A o \in 1..Len(objects) :
              objects[o].readMtime < file.mtime /\ (objects[o].read => objects[o].readMtime # 0)
        /\ \A s \in FileSlots : fileCall[s] # NoFileCall => Cautious(fileCall[s], Unread)

FileInv == FileTypes /\ OneOpens /\ ReadsTimed /\ UnreadKept

\* Before any call nothing is read, so nothing can be lost.
LEMMA FileInitHolds == FileInit => FileInv
<1> SUFFICES ASSUME FileInit PROVE FileInv
  OBVIOUS
<1>1. PICK e : e = objects /\ Len(e) = 0 /\ e \in Seq(FileRecords)
  <2>1. PICK e : e = <<>> /\ Len(e) = 0
    OBVIOUS
  <2>2. e \in Seq(FileRecords)
    BY <2>1
  <2> QED BY <2>1, <2>2 DEF FileInit
<1>2. FileTypes
  <2>1. file.mtime = 1 /\ watch = "none" /\ watchersMade = 0 /\ tracked = 0
        /\ fileCall = [s \in FileSlots |-> NoFileCall]
    BY DEF FileInit
  <2> QED BY <1>1, <2>1 DEF FileTypes
<1>3. OneOpens /\ UnreadKept
  BY DEF FileInit, OneOpens, UnreadKept, Unread, IsAt
<1>4. ReadsTimed
  BY <1>1 DEF ReadsTimed
<1> QED BY <1>2, <1>3, <1>4 DEF FileInv

\* A step of one call, which is in its slot afterwards as c.
Moves(s, c) == /\ fileCall' = [fileCall EXCEPT ![s] = c]
               /\ c = NoFileCall \/ ACall(c, Len(objects)')

\* A step of one call leaves the others as they are.
LEMMA OneMoves ==
    ASSUME FileTypes, NEW s \in FileSlots, NEW c, Moves(s, c), Len(objects) <= Len(objects'), objects' \in Seq(FileRecords)
    PROVE  /\ fileCall' = [t \in FileSlots |-> fileCall'[t]]
           /\ \A t \in FileSlots : fileCall'[t] = NoFileCall \/ ACall(fileCall'[t], Len(objects'))
           /\ fileCall'[s] = c /\ \A t \in FileSlots : t # s => fileCall'[t] = fileCall[t]
<1>1. fileCall'[s] = c /\ \A t \in FileSlots : t # s => fileCall'[t] = fileCall[t]
  BY DEF FileTypes, Moves
<1>2. fileCall' = [t \in FileSlots |-> fileCall'[t]]
  BY DEF FileTypes, Moves
<1>3. PICK m, n : m = Len(objects) /\ n = Len(objects') /\ m \in Nat /\ n \in Nat /\ m <= n
  BY DEF FileTypes
<1>4. ASSUME NEW d, ACall(d, m) PROVE ACall(d, n)
  BY <1>3, <1>4 DEF ACall
<1>5. ASSUME NEW t \in FileSlots PROVE fileCall'[t] = NoFileCall \/ ACall(fileCall'[t], Len(objects'))
  <2>1. CASE t = s
    BY <1>1, <2>1 DEF Moves
  <2>2. CASE t # s
    BY <1>1, <1>3, <1>4, <2>2 DEF FileTypes
  <2> QED BY <2>1, <2>2
<1> QED BY <1>1, <1>2, <1>5

\* A call ends or goes on with its next edit.
LEMMA ReturnsMoves ==
    ASSUME NEW s \in FileSlots, NEW r, NEW n \in Nat, r \in 0..n, ACall(fileCall[s], n),
           fileCall = [t \in FileSlots |-> fileCall[t]], Returns(s, r)
    PROVE  \E c : /\ fileCall' = [fileCall EXCEPT ![s] = c]
                  /\ \/ c = NoFileCall
                     \/ ACall(c, n) /\ c.step = "validate" /\ c.object = r /\ c # NoFileCall
<1>1. PICK d : d = fileCall[s] /\ ACall(d, n)
  OBVIOUS
<1>2. PICK c : c = IF d.more THEN NextEdit(d, r) ELSE NoFileCall
  OBVIOUS
<1>3. fileCall' = [fileCall EXCEPT ![s] = c]
  BY <1>1, <1>2 DEF Returns
<1>4. CASE d.more
  <2>1. PICK i, j : i = Append(d.id, "next") /\ j = {}
    OBVIOUS
  <2>2. c = [tool |-> d.tool, id |-> i, object |-> r, content |-> j, more |-> FALSE, step |-> "validate"]
    BY <1>1, <1>2, <1>4, <2>1 DEF NextEdit, ACall
  <2>3. ACall(c, n) /\ c.step = "validate" /\ c.object = r
    BY <1>1, <1>4, <2>2 DEF ACall, FileSteps
  <2>4. c # NoFileCall
    BY <2>3 DEF ACall, FileTools, NoFileCall
  <2> QED BY <1>3, <2>3, <2>4
<1>5. CASE ~d.more
  BY <1>2, <1>3, <1>5
<1> QED BY <1>4, <1>5

\* A step of a call that changes no record and neither reads nor writes the file.
LEMMA QuietStep ==
    ASSUME FileInv, NEW s \in FileSlots, NEW c, Moves(s, c),
           UNCHANGED <<file, objects, tracked, seen, quiet>>,
           ~(IsAt(s, "stat") /\ fileCall[s].tool = "fs_read"),
           Unread # {} => c = NoFileCall \/ Cautious(c, Unread),
           watch' \in {"none", "pending", "set"}, watchersMade' \in {0, 1}
    PROVE  FileTypes' /\ ReadsTimed' /\ UnreadKept'
<1> USE DEF FileInv
<1>1. objects' \in Seq(FileRecords) /\ Len(objects) <= Len(objects')
  BY DEF FileTypes
<1>2. /\ fileCall' = [t \in FileSlots |-> fileCall'[t]]
      /\ \A t \in FileSlots : fileCall'[t] = NoFileCall \/ ACall(fileCall'[t], Len(objects'))
      /\ fileCall'[s] = c /\ \A t \in FileSlots : t # s => fileCall'[t] = fileCall[t]
  BY <1>1, OneMoves
<1>3. FileTypes'
  BY <1>2 DEF FileTypes
<1>4. ReadsTimed'
  <2>1. ASSUME NEW o \in 1..Len(objects'), objects'[o].read, objects'[o].readMtime = 0
        PROVE  \E t \in FileSlots : IsAt(t, "stat")' /\ fileCall'[t].tool = "fs_read" /\ fileCall'[t].object = o
    <3>1. PICK t \in FileSlots : IsAt(t, "stat") /\ fileCall[t].tool = "fs_read" /\ fileCall[t].object = o
      BY <2>1 DEF ReadsTimed
    <3>2. fileCall'[t] = fileCall[t]
      BY <1>2, <3>1
    <3> QED BY <3>1, <3>2 DEF IsAt
  <2> QED BY <2>1 DEF ReadsTimed
<1>5. UnreadKept'
  <2>1. Unread' = Unread
    BY DEF Unread
  <2>2. ASSUME Unread # {}, NEW t \in FileSlots, fileCall'[t] # NoFileCall PROVE Cautious(fileCall'[t], Unread')
    <3>1. Cautious(fileCall'[t], Unread)
      <4>0. c # NoFileCall \/ t # s
        BY <1>2, <2>2
      <4>1. CASE t = s
        BY <1>2, <2>2, <4>0, <4>1
      <4>2. CASE t # s
        BY <1>2, <2>2, <4>2 DEF UnreadKept
      <4> QED BY <4>1, <4>2
    <3> QED BY <2>1, <3>1
  <2> QED BY <2>1, <2>2 DEF UnreadKept
<1> QED BY <1>3, <1>4, <1>5

\* A step of a call that does not touch the watcher.
LEMMA OpensKept ==
    ASSUME FileInv, NEW s \in FileSlots, NEW c, fileCall' = [fileCall EXCEPT ![s] = c],
           c = NoFileCall \/ c.step # "watch", UNCHANGED <<watch, watchersMade>>
    PROVE  OneOpens'
<1>1. fileCall'[s] = c /\ \A t \in FileSlots : t # s => fileCall'[t] = fileCall[t]
  BY DEF FileInv, FileTypes
<1>2. \A t \in FileSlots : IsAt(t, "watch")' => IsAt(t, "watch")
  BY <1>1 DEF IsAt
<1> QED BY <1>2 DEF FileInv, OneOpens

\* A new call has the record that the map has.
LEMMA CallToolStep ==
    ASSUME FileInv, Busy # FileSlots, NEW s \in FileSlots, NEW tool \in FileTools, CallTool(s, tool)
    PROVE  FileInv'
<1> USE DEF FileInv
<1>1. fileCall[s] = NoFileCall
  BY DEF CallTool, Busy
<1>2. PICK i, j, c : /\ i = <<"tool", fileCalls'>> /\ j = {}
                     /\ c = [tool |-> tool, id |-> i, object |-> tracked, content |-> j,
                             more |-> tool = "fs_multi_edit",
                             step |-> IF tool \in {"fs_write", "fs_multi_edit"} THEN "validate" ELSE "read"]
  OBVIOUS
<1>3. /\ fileCall' = [fileCall EXCEPT ![s] = c]
      /\ UNCHANGED <<file, objects, tracked, watch, watchersMade, notified, outside, seen, quiet>>
  BY <1>2 DEF CallTool
<1>4. ACall(c, Len(objects)') /\ c.step \in {"validate", "read"} /\ c.object = tracked
  BY <1>2, <1>3 DEF ACall, FileSteps, FileTypes, FileTools
<1>5. Unread # {} => Cautious(c, Unread)
  BY <1>4 DEF Cautious, UnreadKept
<1>6. FileTypes' /\ ReadsTimed' /\ UnreadKept'
  <2>1. watch' \in {"none", "pending", "set"} /\ watchersMade' \in {0, 1}
    BY <1>3 DEF FileTypes
  <2>2. Moves(s, c)
    BY <1>3, <1>4 DEF Moves
  <2>3. ~IsAt(s, "stat")
    BY <1>1 DEF IsAt
  <2> QED BY <1>3, <1>5, <2>1, <2>2, <2>3, QuietStep
<1>7. OneOpens'
  BY <1>3, <1>4, OpensKept
<1> QED BY <1>6, <1>7

\* What a call that is not over is.
LEMMA CallHolds ==
    ASSUME FileInv, NEW s \in FileSlots, fileCall[s] # NoFileCall
    PROVE  /\ ACall(fileCall[s], Len(objects)) /\ Len(objects) \in Nat /\ tracked \in 0..Len(objects)
           /\ fileCall = [t \in FileSlots |-> fileCall[t]]
           /\ watch \in {"none", "pending", "set"} /\ watchersMade \in {0, 1}
           /\ Unread # {} => Cautious(fileCall[s], Unread) /\ tracked # 0
BY DEF FileInv, FileTypes, UnreadKept

\* The end of a call, or of one edit of it, without a change of the records.
LEMMA ReturnStep ==
    ASSUME FileInv, NEW s \in FileSlots, fileCall[s] # NoFileCall, Returns(s, tracked),
           UNCHANGED <<file, objects, tracked, seen, quiet>>, fileCall[s].step # "stat",
           watch' \in {"none", "pending", "set"}, watchersMade' \in {0, 1}
    PROVE  /\ FileTypes' /\ ReadsTimed' /\ UnreadKept'
           /\ \E c : fileCall' = [fileCall EXCEPT ![s] = c] /\ (c = NoFileCall \/ c.step # "watch")
<1>1. PICK c : /\ fileCall' = [fileCall EXCEPT ![s] = c]
               /\ \/ c = NoFileCall
                  \/ ACall(c, Len(objects)) /\ c.step = "validate" /\ c.object = tracked
  BY CallHolds, ReturnsMoves
<1>2. Moves(s, c)
  BY <1>1 DEF Moves
<1>3. Unread # {} => c = NoFileCall \/ Cautious(c, Unread)
  BY <1>1, CallHolds DEF Cautious
<1>4. ~IsAt(s, "stat")
  BY DEF IsAt
<1>5. FileTypes' /\ ReadsTimed' /\ UnreadKept'
  BY <1>2, <1>3, <1>4, QuietStep
<1>6. c = NoFileCall \/ c.step # "watch"
  BY <1>1
<1> QED BY <1>1, <1>5, <1>6

\* validateWrite: no record is fresh while an edit is unread.
LEMMA ValidateStep ==
    ASSUME FileInv, NEW s \in FileSlots, ValidateWrite(s)
    PROVE  FileInv'
<1> USE DEF FileInv
<1>1. /\ fileCall[s] # NoFileCall /\ fileCall[s].step = "validate"
      /\ UNCHANGED <<file, objects, tracked, watch, watchersMade, notified, seen, quiet>>
  BY DEF ValidateWrite
<1>2. PICK d : d = fileCall[s] /\ ACall(d, Len(objects)) /\ (Unread # {} => Cautious(d, Unread))
  BY <1>1, CallHolds
<1>3. watch' \in {"none", "pending", "set"} /\ watchersMade' \in {0, 1}
  BY <1>1, CallHolds
<1>4. CASE Returns(s, tracked)
  <2>1. fileCall[s].step # "stat"
    BY <1>1
  <2>2. PICK c : fileCall' = [fileCall EXCEPT ![s] = c] /\ (c = NoFileCall \/ c.step # "watch")
    BY <1>1, <1>3, <1>4, <2>1, ReturnStep
  <2> QED BY <1>1, <1>3, <1>4, <2>1, <2>2, ReturnStep, OpensKept
<1>5. ASSUME NEW st, st = (IF d.tool = "fs_write" THEN "write" ELSE "read"), Advances(s, st),
             \/ d.object = 0
             \/ objects[d.object].read /\ objects[d.object].readMtime \in {0, file.mtime}
      PROVE  FileInv'
  <2>1. PICK c : c = [d EXCEPT !.step = st]
    OBVIOUS
  <2>2. fileCall' = [fileCall EXCEPT ![s] = c]
    BY <1>2, <1>5, <2>1 DEF Advances
  <2>3. ACall(c, Len(objects)) /\ c.step = st
    BY <1>2, <1>5, <2>1 DEF ACall, FileSteps
  <2>4. Unread = {}
    <3>1. d.object \in 0..Len(objects) /\ d.step = "validate"
      BY <1>1, <1>2 DEF ACall
    <3>2. SUFFICES ASSUME Unread # {} PROVE FALSE
      OBVIOUS
    <3>3. d.object # 0
      BY <1>2, <3>1, <3>2 DEF Cautious
    <3>4. PICK o \in 1..Len(objects) : o = d.object
      BY <3>1, <3>3 DEF FileTypes
    <3>5. objects[o].readMtime < file.mtime /\ (objects[o].read => objects[o].readMtime # 0)
      BY <3>2, <3>4 DEF UnreadKept
    <3>6. objects[o].readMtime \in Nat /\ file.mtime \in Nat
      <4>1. objects[o] \in FileRecords
        BY <3>4 DEF FileTypes
      <4>2. file.mtime \in Nat
        BY DEF FileTypes
      <4> QED BY <4>1, <4>2 DEF FileRecords
    <3> QED BY <1>5, <3>3, <3>4, <3>5, <3>6
  <2>5. Moves(s, c)
    BY <1>1, <2>2, <2>3 DEF Moves
  <2>6. ~IsAt(s, "stat") /\ c.step # "watch"
    BY <1>1, <1>5, <2>3 DEF IsAt
  <2> QED BY <1>1, <1>3, <2>2, <2>4, <2>5, <2>6, QuietStep, OpensKept
<1>6. \/ Returns(s, tracked)
      \/ /\ Advances(s, IF d.tool = "fs_write" THEN "write" ELSE "read")
         /\ \/ d.object = 0
            \/ objects[d.object].read /\ objects[d.object].readMtime \in {0, file.mtime}
  BY <1>2 DEF ValidateWrite
<1> QED BY <1>4, <1>5, <1>6

\* fs_edit and fs_multi_edit change what they have read.
LEMMA ReadToChangeStep ==
    ASSUME FileInv, NEW s \in FileSlots, ReadToEdit(s) \/ ReadToMultiEdit(s)
    PROVE  FileInv'
<1> USE DEF FileInv
<1>1. /\ fileCall[s] # NoFileCall /\ fileCall[s].step = "read" /\ fileCall[s].tool # "fs_read"
      /\ UNCHANGED <<file, objects, tracked, watch, watchersMade, notified, seen, quiet>>
  BY DEF ReadToEdit, ReadToMultiEdit, AtStep, NoFileCall
<1>2. PICK d, n : d = fileCall[s] /\ n = Len(objects) /\ ACall(d, n)
  BY <1>1, CallHolds
<1>3. watch' \in {"none", "pending", "set"} /\ watchersMade' \in {0, 1}
  BY <1>1, CallHolds
<1>4. CASE Returns(s, tracked)
  <2>1. fileCall[s].step # "stat"
    BY <1>1
  <2>2. PICK c : fileCall' = [fileCall EXCEPT ![s] = c] /\ (c = NoFileCall \/ c.step # "watch")
    BY <1>1, <1>3, <1>4, <2>1, ReturnStep
  <2> QED BY <1>1, <1>3, <1>4, <2>1, <2>2, ReturnStep, OpensKept
<1>5. CASE fileCall' = [fileCall EXCEPT ![s].content = file.edits, ![s].step = "write"]
  <2>1. PICK e, c : e = file.edits /\ c = [tool |-> d.tool, id |-> d.id, object |-> d.object, content |-> e,
                                           more |-> d.more, step |-> "write"]
    OBVIOUS
  <2>2. fileCall' = [fileCall EXCEPT ![s] = c]
    <3>1. d = [tool |-> d.tool, id |-> d.id, object |-> d.object, content |-> d.content,
               more |-> d.more, step |-> d.step]
      BY <1>2 DEF ACall
    <3>0. PICK f : f = [d EXCEPT !.content = e]
      OBVIOUS
    <3>3. f = [tool |-> d.tool, id |-> d.id, object |-> d.object, content |-> e,
               more |-> d.more, step |-> d.step]
      BY <3>0, <3>1
    <3>4. [f EXCEPT !.step = "write"] = c
      BY <2>1, <3>3
    <3>2. [[d EXCEPT !.content = e] EXCEPT !.step = "write"] = c
      BY <3>0, <3>4
    <3> QED BY <1>2, <1>5, <2>1, <3>2 DEF FileTypes
  <2>3. ACall(c, n) /\ c.step = "write" /\ c.content = e
    BY <1>1, <1>2, <2>1 DEF ACall, FileSteps
  <2>4. Unread # {} => Cautious(c, Unread)
    BY <2>1, <2>3 DEF Cautious, UnreadKept
  <2>5. Moves(s, c)
    BY <1>1, <1>2, <2>2, <2>3 DEF Moves
  <2>6. ~IsAt(s, "stat") /\ c.step # "watch"
    BY <1>1, <2>3 DEF IsAt
  <2> QED BY <1>1, <1>3, <2>2, <2>4, <2>5, <2>6, QuietStep, OpensKept
<1> QED BY <1>4, <1>5 DEF ReadToEdit, ReadToMultiEdit

\* A step of one call that changes records: each has a time by then, or waits for
\* that call, or waits for another as before.
LEMMA ReadsStayTimed ==
    ASSUME FileInv, NEW s \in FileSlots, NEW c, Moves(s, c),
           objects' \in Seq(FileRecords), Len(objects) <= Len(objects'),
           \A o \in 1..Len(objects') :
              /\ objects'[o].readMtime <= file'.mtime
              /\ objects'[o].read =>
                    \/ objects'[o].readMtime # 0
                    \/ c # NoFileCall /\ c.step = "stat" /\ c.tool = "fs_read" /\ c.object = o
                    \/ /\ o \in 1..Len(objects) /\ objects[o].read /\ objects[o].readMtime = 0
                       /\ ~(IsAt(s, "stat") /\ fileCall[s].tool = "fs_read" /\ fileCall[s].object = o)
    PROVE  ReadsTimed'
<1>1. /\ fileCall'[s] = c /\ \A t \in FileSlots : t # s => fileCall'[t] = fileCall[t]
  BY OneMoves DEF FileInv
<1>2. ASSUME NEW o \in 1..Len(objects'), objects'[o].read, objects'[o].readMtime = 0
      PROVE  \E t \in FileSlots : IsAt(t, "stat")' /\ fileCall'[t].tool = "fs_read" /\ fileCall'[t].object = o
  <2>1. CASE c # NoFileCall /\ c.step = "stat" /\ c.tool = "fs_read" /\ c.object = o
    BY <1>1, <2>1 DEF IsAt
  <2>2. CASE /\ o \in 1..Len(objects) /\ objects[o].read /\ objects[o].readMtime = 0
             /\ ~(IsAt(s, "stat") /\ fileCall[s].tool = "fs_read" /\ fileCall[s].object = o)
    <3>1. PICK t \in FileSlots : IsAt(t, "stat") /\ fileCall[t].tool = "fs_read" /\ fileCall[t].object = o
      BY <2>2 DEF FileInv, ReadsTimed
    <3>2. t # s
      BY <2>2, <3>1
    <3> QED BY <1>1, <3>1, <3>2 DEF IsAt
  <2> QED BY <1>2, <2>1, <2>2
<1> QED BY <1>2 DEF ReadsTimed

\* What recordRead and recordEdit begin with: the call has a record.
LEMMA RecordMoves ==
    ASSUME FileInv, NEW s \in FileSlots, fileCall[s] # NoFileCall, NEW read \in BOOLEAN, Record(s, read)
    PROVE  \E c, o : /\ Moves(s, c) /\ c # NoFileCall /\ c.step = "stat" /\ c.tool = fileCall[s].tool
                     /\ c.object = o /\ o \in 1..Len(objects')
                     /\ objects' \in Seq(FileRecords) /\ Len(objects) <= Len(objects')
                     /\ \A p \in 1..Len(objects) : /\ objects'[p].readMtime = objects[p].readMtime
                                                   /\ objects'[p].read = (objects[p].read \/ (read /\ p = o))
                     /\ \A p \in 1..Len(objects') : p \notin 1..Len(objects) =>
                            p = o /\ objects'[p].readMtime = 0 /\ objects'[p].read = read
                     /\ tracked # 0 => Len(objects') = Len(objects)
<1> USE DEF FileInv
<1>1. PICK d, n : d = fileCall[s] /\ n = Len(objects) /\ ACall(d, n) /\ n \in Nat /\ tracked \in 0..n
  BY CallHolds
<1>2. ASSUME NEW o, NEW m \in Nat, n <= m, o \in 1..m, fileCall' = [fileCall EXCEPT ![s].object = o, ![s].step = "stat"]
      PROVE  \E c : /\ fileCall' = [fileCall EXCEPT ![s] = c] /\ ACall(c, m)
                    /\ c # NoFileCall /\ c.step = "stat" /\ c.tool = d.tool /\ c.object = o
  <2>1. PICK f, c : /\ f = [d EXCEPT !.object = o]
                    /\ c = [tool |-> d.tool, id |-> d.id, object |-> o, content |-> d.content,
                            more |-> d.more, step |-> "stat"]
    OBVIOUS
  <2>2. d = [tool |-> d.tool, id |-> d.id, object |-> d.object, content |-> d.content,
             more |-> d.more, step |-> d.step]
    BY <1>1 DEF ACall
  <2>3. f = [tool |-> d.tool, id |-> d.id, object |-> o, content |-> d.content,
             more |-> d.more, step |-> d.step]
    BY <2>1, <2>2
  <2>4. [f EXCEPT !.step = "stat"] = c
    <3>1. [f EXCEPT !.step = "stat"] =
             [tool |-> d.tool, id |-> d.id, object |-> o, content |-> d.content,
              more |-> d.more, step |-> "stat"]
      BY <2>3
    <3> QED BY <2>1, <3>1
  <2>5. fileCall' = [fileCall EXCEPT ![s] = c]
    BY <1>1, <1>2, <2>1, <2>4 DEF FileTypes
  <2>6. ACall(c, m) /\ c.step = "stat" /\ c.tool = d.tool /\ c.object = o
    BY <1>1, <1>2, <2>1 DEF ACall, FileSteps
  <2>7. c # NoFileCall
    BY <2>6 DEF ACall, NoFileCall, FileTools
  <2> QED BY <2>5, <2>6, <2>7
<1>3. CASE tracked # 0
  <2>1. /\ objects' = [objects EXCEPT ![tracked].read = @ \/ read]
        /\ fileCall' = [fileCall EXCEPT ![s].object = tracked, ![s].step = "stat"]
    BY <1>3 DEF Record
  <2>2. PICK o \in 1..n : o = tracked
    BY <1>1, <1>3
  <2>3. PICK r, b : b = (objects[o].read \/ read) /\ r = [objects[o] EXCEPT !.read = b]
    OBVIOUS
  <2>4. /\ r \in FileRecords /\ r.readMtime = objects[o].readMtime /\ r.read = b
    <3>1. objects[o] \in FileRecords
      BY <1>1, <2>2 DEF FileTypes
    <3>2. b \in BOOLEAN
      BY <2>3, <3>1 DEF FileRecords
    <3> QED BY <2>3, <3>1, <3>2 DEF FileRecords
  <2>5. objects' = [objects EXCEPT ![o] = r]
    BY <2>1, <2>2, <2>3
  <2>6. /\ objects' \in Seq(FileRecords) /\ Len(objects') = n
        /\ objects'[o] = r /\ \A p \in 1..n : p # o => objects'[p] = objects[p]
    BY <1>1, <2>2, <2>4, <2>5 DEF FileTypes
  <2>7. PICK c : /\ fileCall' = [fileCall EXCEPT ![s] = c] /\ ACall(c, n)
                 /\ c # NoFileCall /\ c.step = "stat" /\ c.tool = d.tool /\ c.object = o
    <3>1. n \in Nat /\ n <= n /\ o \in 1..n
      BY <1>1
    <3>2. fileCall' = [fileCall EXCEPT ![s].object = o, ![s].step = "stat"]
      BY <2>1, <2>2
    <3> QED BY <1>2, <3>1, <3>2, Zenon
  <2>8. Moves(s, c)
    BY <2>6, <2>7 DEF Moves
  <2>9. ASSUME NEW p \in 1..n
        PROVE  objects'[p].readMtime = objects[p].readMtime /\ objects'[p].read = (objects[p].read \/ (read /\ p = o))
    <3>1. CASE p = o
      BY <2>3, <2>4, <2>6, <3>1
    <3>2. CASE p # o
      <4>1. objects[p] \in FileRecords
        BY <1>1 DEF FileTypes
      <4>2. objects[p].read \in BOOLEAN
        BY <4>1 DEF FileRecords
      <4> QED BY <2>6, <3>2, <4>2
    <3> QED BY <3>1, <3>2
  <2> QED BY <1>1, <2>2, <2>6, <2>7, <2>8, <2>9
<1>4. CASE tracked = 0
  <2>1. PICK r : r = [read |-> read, readMtime |-> 0, knownMtime |-> 0]
    OBVIOUS
  <2>2. objects' = Append(objects, r) /\ fileCall' = [fileCall EXCEPT ![s].object = Len(objects'), ![s].step = "stat"]
    BY <1>4, <2>1 DEF Record
  <2>3. r \in FileRecords /\ r.readMtime = 0 /\ r.read = read
    BY <2>1 DEF FileRecords
  <2>4. /\ objects' \in Seq(FileRecords) /\ Len(objects') = n + 1
        /\ \A p \in 1..n : objects'[p] = objects[p]
        /\ objects'[n + 1] = r
    <3>1. objects \in Seq(FileRecords)
      BY DEF FileTypes
    <3> QED BY <1>1, <2>2, <2>3, <3>1, AppendProperties
  <2>5. PICK o, m : o = n + 1 /\ m = n + 1 /\ m \in Nat /\ n <= m /\ o \in 1..m
    BY <1>1
  <2>6. PICK c : /\ fileCall' = [fileCall EXCEPT ![s] = c] /\ ACall(c, m)
                 /\ c # NoFileCall /\ c.step = "stat" /\ c.tool = d.tool /\ c.object = o
    <3>1. fileCall' = [fileCall EXCEPT ![s].object = o, ![s].step = "stat"]
      BY <2>2, <2>4, <2>5
    <3> QED BY <1>2, <2>5, <3>1, Zenon
  <2>7. Moves(s, c)
    BY <2>4, <2>5, <2>6 DEF Moves
  <2>8. \A p \in 1..n : objects[p].read \in BOOLEAN /\ p # o
    <3>1. \A p \in 1..n : objects[p] \in FileRecords /\ p # o
      BY <1>1, <2>5 DEF FileTypes
    <3> QED BY <3>1 DEF FileRecords
  <2>9. \A p \in 1..m : p \notin 1..n => p = o
    BY <1>1, <2>5
  <2>10. \A p \in 1..n : /\ objects'[p].readMtime = objects[p].readMtime
                         /\ objects'[p].read = (objects[p].read \/ (read /\ p = o))
    BY <2>4, <2>8
  <2>11. \A p \in 1..m : p \notin 1..n => p = o /\ objects'[p].readMtime = 0 /\ objects'[p].read = read
    BY <2>3, <2>4, <2>5, <2>9
  <2> QED BY <1>1, <1>4, <2>4, <2>5, <2>6, <2>7, <2>10, <2>11
<1> QED BY <1>3, <1>4

\* fs_read shows the file to the model: no edit in it is unread.
LEMMA FsReadStep ==
    ASSUME FileInv, NEW s \in FileSlots, FsRead(s)
    PROVE  FileInv'
<1> USE DEF FileInv
<1>1. /\ fileCall[s] # NoFileCall /\ fileCall[s].step = "read" /\ fileCall[s].tool = "fs_read"
      /\ seen' = seen \cup file.edits /\ Record(s, TRUE)
      /\ UNCHANGED <<file, tracked, watch, watchersMade, quiet>>
  <2>1. fileCall[s].step = "read" /\ fileCall[s].tool = "fs_read"
    BY DEF FsRead, AtStep
  <2>2. fileCall[s] # NoFileCall
    BY <2>1 DEF NoFileCall
  <2>3. /\ seen' = seen \cup file.edits /\ Record(s, TRUE)
        /\ UNCHANGED <<file, tracked, watch, watchersMade, quiet>>
    BY Zenon DEF FsRead
  <2> QED BY <2>1, <2>2, <2>3
<1>0. PICK rd \in BOOLEAN : rd = TRUE /\ Record(s, rd)
  BY <1>1, Zenon
<1>2. PICK c, o : /\ Moves(s, c) /\ c # NoFileCall /\ c.step = "stat" /\ c.tool = fileCall[s].tool
                  /\ c.object = o /\ o \in 1..Len(objects')
                  /\ objects' \in Seq(FileRecords) /\ Len(objects) <= Len(objects')
                  /\ \A p \in 1..Len(objects) : /\ objects'[p].readMtime = objects[p].readMtime
                                                /\ objects'[p].read = (objects[p].read \/ (rd /\ p = o))
                  /\ \A p \in 1..Len(objects') : p \notin 1..Len(objects) =>
                         p = o /\ objects'[p].readMtime = 0 /\ objects'[p].read = rd
                  /\ tracked # 0 => Len(objects') = Len(objects)
  BY <1>1, <1>0, RecordMoves, Zenon
<1>3. FileTypes'
  <2>1. tracked' \in 0..Len(objects')
    BY <1>1, <1>2 DEF FileTypes
  <2>2. /\ fileCall' = [t \in FileSlots |-> fileCall'[t]]
        /\ \A t \in FileSlots : fileCall'[t] = NoFileCall \/ ACall(fileCall'[t], Len(objects'))
    BY <1>2, OneMoves
  <2> QED BY <1>1, <1>2, <2>1, <2>2 DEF FileTypes
<1>4. ReadsTimed'
  <2>1. ~IsAt(s, "stat")
    BY <1>1 DEF IsAt
  <2>2. ASSUME NEW p \in 1..Len(objects')
        PROVE  /\ objects'[p].readMtime <= file'.mtime
               /\ objects'[p].read =>
                    \/ objects'[p].readMtime # 0 \/ p = o
                    \/ p \in 1..Len(objects) /\ objects[p].read /\ objects[p].readMtime = 0
    <3>1. CASE p \in 1..Len(objects)
      BY <1>1, <1>2, <3>1 DEF ReadsTimed
    <3>2. CASE p \notin 1..Len(objects)
      BY <1>1, <1>2, <3>2 DEF FileTypes
    <3> QED BY <3>1, <3>2
  <2> QED BY <1>1, <1>2, <2>1, <2>2, ReadsStayTimed
<1>5. OneOpens'
  BY <1>1, <1>2, OpensKept DEF Moves
<1>6. UnreadKept'
  <2>1. Unread' = {}
    BY <1>1 DEF Unread, UnreadKept
  <2> QED BY <2>1 DEF UnreadKept
<1> QED BY <1>3, <1>4, <1>5, <1>6

\* A write, with all that is unread in what it writes.
LEMMA FsWriteStep ==
    ASSUME FileInv, NEW s \in FileSlots, FsWrite(s)
    PROVE  FileInv'
<1> USE DEF FileInv
<1>1. /\ fileCall[s] # NoFileCall /\ fileCall[s].step = "write" /\ Record(s, FALSE)
      /\ Changes(fileCall[s].content \cup {fileCall[s].id})
      /\ UNCHANGED <<tracked, watch, watchersMade, seen, quiet>>
  BY DEF FsWrite
<1>2. PICK c, o : /\ Moves(s, c) /\ c # NoFileCall /\ c.step = "stat" /\ c.tool = fileCall[s].tool
                  /\ c.object = o /\ o \in 1..Len(objects')
                  /\ objects' \in Seq(FileRecords) /\ Len(objects) <= Len(objects')
                  /\ \A p \in 1..Len(objects) : /\ objects'[p].readMtime = objects[p].readMtime
                                                /\ objects'[p].read = (objects[p].read \/ (FALSE /\ p = o))
                  /\ \A p \in 1..Len(objects') : p \notin 1..Len(objects) =>
                         p = o /\ objects'[p].readMtime = 0 /\ objects'[p].read = FALSE
                  /\ tracked # 0 => Len(objects') = Len(objects)
  BY <1>1, RecordMoves
<1>3. PICK t : t = file.mtime /\ t \in Nat \ {0} /\ file'.mtime = t + 1
  BY <1>1 DEF FileTypes, Changes
<1>4. FileTypes'
  <2>1. tracked' \in 0..Len(objects')
    BY <1>1, <1>2 DEF FileTypes
  <2>2. /\ fileCall' = [u \in FileSlots |-> fileCall'[u]]
        /\ \A u \in FileSlots : fileCall'[u] = NoFileCall \/ ACall(fileCall'[u], Len(objects'))
    BY <1>2, OneMoves
  <2>3. file'.mtime \in Nat \ {0}
    BY <1>3
  <2> QED BY <1>1, <1>2, <2>1, <2>2, <2>3 DEF FileTypes
<1>5. ASSUME NEW p \in 1..Len(objects)
      PROVE  objects[p].readMtime \in Nat /\ objects[p].readMtime <= t /\ objects[p].read \in BOOLEAN
  <2>1. objects[p] \in FileRecords
    BY DEF FileTypes
  <2> QED BY <1>3, <2>1 DEF FileRecords, ReadsTimed
<1>6. ReadsTimed'
  <2>1. ~IsAt(s, "stat")
    BY <1>1 DEF IsAt
  <2>2. ASSUME NEW p \in 1..Len(objects')
        PROVE  /\ objects'[p].readMtime <= file'.mtime
               /\ objects'[p].read =>
                    \/ objects'[p].readMtime # 0
                    \/ p \in 1..Len(objects) /\ objects[p].read /\ objects[p].readMtime = 0
    <3>1. CASE p \in 1..Len(objects)
      <4>1. objects[p].readMtime <= t + 1
        BY <1>3, <1>5, <3>1
      <4> QED BY <1>2, <1>3, <1>5, <3>1, <4>1
    <3>2. CASE p \notin 1..Len(objects)
      BY <1>2, <1>3, <3>2
    <3> QED BY <3>1, <3>2
  <2> QED BY <1>2, <2>1, <2>2, ReadsStayTimed
<1>7. OneOpens'
  BY <1>1, <1>2, OpensKept DEF Moves
<1>8. UnreadKept'
  <2>1. Unread' = Unread
    BY <1>1 DEF Unread
  <2>2. SUFFICES ASSUME Unread # {} PROVE UnreadKept'
    BY <2>1 DEF UnreadKept
  <2>3. Unread \subseteq fileCall[s].content /\ tracked # 0 /\ fileCall[s].tool \in FileTools
    BY <1>1, <2>2, CallHolds DEF Cautious, ACall
  <2>4. Unread \subseteq file'.edits
    BY <1>1, <2>3 DEF Changes
  <2>5. ASSUME NEW p \in 1..Len(objects')
        PROVE  objects'[p].readMtime < file'.mtime /\ (objects'[p].read => objects'[p].readMtime # 0)
    <3>1. p \in 1..Len(objects)
      BY <1>2, <2>3
    <3>2. objects[p].readMtime < t + 1 /\ (objects[p].read => objects[p].readMtime # 0)
      BY <1>3, <1>5, <2>2, <3>1 DEF UnreadKept
    <3> QED BY <1>2, <1>3, <1>5, <3>1, <3>2
  <2>6. fileCall[s].tool # "fs_read"
    BY <1>1, CallHolds DEF ACall
  <2>7. ASSUME NEW u \in FileSlots, fileCall'[u] # NoFileCall PROVE Cautious(fileCall'[u], Unread)
    <3>1. fileCall'[s] = c /\ \A v \in FileSlots : v # s => fileCall'[v] = fileCall[v]
      BY <1>2, OneMoves
    <3>2. CASE u = s
      BY <1>2, <2>6, <3>1, <3>2 DEF Cautious
    <3>3. CASE u # s
      BY <2>2, <2>7, <3>1, <3>3 DEF UnreadKept
    <3> QED BY <3>2, <3>3
  <2> QED BY <1>1, <2>1, <2>3, <2>4, <2>5, <2>7 DEF UnreadKept
<1> QED BY <1>4, <1>6, <1>7, <1>8

\* recordRead and recordEdit: the call's record is in the map, with the mtime.
LEMMA RecordMtimeMoves ==
    ASSUME FileInv, NEW s \in FileSlots, RecordMtime(s)
    PROVE  \E c : /\ Moves(s, c)
                  /\ c = NoFileCall \/ (c.step \in {"validate", "watch", "wait"} /\ c.object # 0)
                  /\ \/ UNCHANGED watch /\ (c = NoFileCall \/ c.step # "watch")
                     \/ watch = "none" /\ watch' = "pending"
<1> USE DEF FileInv
<1>1. /\ fileCall[s] # NoFileCall /\ fileCall[s].step = "stat" /\ tracked' = fileCall[s].object
      /\ Len(objects') = Len(objects)
  BY DEF RecordMtime, FileTypes
<1>2. PICK d, n : d = fileCall[s] /\ n = Len(objects) /\ ACall(d, n) /\ n \in Nat /\ d.step = "stat"
  BY <1>1, CallHolds
<1>3. fileCall = [t \in FileSlots |-> fileCall[t]] /\ watch \in {"none", "pending", "set"}
  BY <1>1, CallHolds
<1>4. d.object \in 0..n /\ d.object # 0
  BY <1>2 DEF ACall
<1>5. ASSUME NEW st \in {"watch", "wait"}, Advances(s, st)
      PROVE  \E c : Moves(s, c) /\ c # NoFileCall /\ c.step = st /\ c.object # 0
  <2>1. PICK c : c = [tool |-> d.tool, id |-> d.id, object |-> d.object, content |-> d.content,
                      more |-> d.more, step |-> st]
    OBVIOUS
  <2>2. d = [tool |-> d.tool, id |-> d.id, object |-> d.object, content |-> d.content,
             more |-> d.more, step |-> d.step]
    BY <1>2 DEF ACall
  <2>3. [d EXCEPT !.step = st] = c
    BY <2>1, <2>2
  <2>4. fileCall' = [fileCall EXCEPT ![s] = c]
    BY <1>2, <1>3, <1>5, <2>3 DEF Advances
  <2>5. ACall(c, n) /\ c.step = st /\ c.object = d.object
    BY <1>2, <1>5, <2>1 DEF ACall, FileSteps
  <2>6. c # NoFileCall
    BY <2>5 DEF ACall, NoFileCall, FileTools
  <2> QED BY <1>1, <1>2, <1>4, <2>4, <2>5, <2>6 DEF Moves
<1>6. CASE watch = "none"
  <2>1. watch' = "pending" /\ Advances(s, "watch")
    BY <1>6 DEF RecordMtime
  <2>2. PICK c : Moves(s, c) /\ c # NoFileCall /\ c.step = "watch" /\ c.object # 0
    BY <1>5, <2>1
  <2> QED BY <1>6, <2>1, <2>2
<1>7. CASE watch = "pending"
  <2>1. watch' = watch /\ Advances(s, "wait")
    BY <1>7 DEF RecordMtime
  <2>2. PICK c : Moves(s, c) /\ c # NoFileCall /\ c.step = "wait" /\ c.object # 0
    BY <1>5, <2>1
  <2> QED BY <1>7, <2>1, <2>2
<1>8. CASE watch = "set"
  <2>1. watch' = watch /\ Returns(s, tracked')
    BY <1>8 DEF RecordMtime
  <2>2. PICK r : r = tracked' /\ r = d.object
    BY <1>1, <1>2
  <2>3. PICK c : /\ fileCall' = [fileCall EXCEPT ![s] = c]
                 /\ \/ c = NoFileCall
                    \/ ACall(c, n) /\ c.step = "validate" /\ c.object = r /\ c # NoFileCall
    BY <1>2, <1>3, <1>4, <2>1, <2>2, ReturnsMoves
  <2> QED BY <1>1, <1>2, <1>4, <2>1, <2>2, <2>3 DEF Moves
<1> QED BY <1>3, <1>6, <1>7, <1>8

\* Only a call of fs_read sets the time of a read, to the present one.
LEMMA RecordMtimeStep ==
    ASSUME FileInv, NEW s \in FileSlots, RecordMtime(s)
    PROVE  FileInv'
<1> USE DEF FileInv
<1>1. /\ fileCall[s] # NoFileCall /\ fileCall[s].step = "stat" /\ tracked' = fileCall[s].object
      /\ UNCHANGED <<file, watchersMade, seen, quiet>>
  BY DEF RecordMtime
<1>2. PICK d, n : /\ d = fileCall[s] /\ n = Len(objects) /\ ACall(d, n) /\ n \in Nat /\ d.step = "stat"
                  /\ (Unread # {} => Cautious(d, Unread))
  BY <1>1, CallHolds
<1>3. PICK o \in 1..n : o = d.object
  BY <1>2 DEF ACall
<1>4. PICK m : m = file.mtime /\ m \in Nat \ {0}
  BY DEF FileTypes
<1>5. PICK q, r : /\ q = (IF d.tool = "fs_read" THEN m ELSE objects[o].readMtime)
                  /\ r = [read |-> objects[o].read, readMtime |-> q, knownMtime |-> m]
  OBVIOUS
<1>6. objects[o] \in FileRecords
  BY <1>2 DEF FileTypes
<1>7. r \in FileRecords
  BY <1>4, <1>5, <1>6 DEF FileRecords
<1>8. objects' = [objects EXCEPT ![o] = r]
  <2>1. objects' = [objects EXCEPT ![o].readMtime = IF d.tool = "fs_read" THEN m ELSE @, ![o].knownMtime = m]
    BY <1>2, <1>3, <1>4 DEF RecordMtime
  <2>2. PICK f : f = [objects[o] EXCEPT !.readMtime = q]
    OBVIOUS
  <2>3. f = [read |-> objects[o].read, readMtime |-> q, knownMtime |-> objects[o].knownMtime]
    BY <1>6, <2>2 DEF FileRecords
  <2>4. [f EXCEPT !.knownMtime = m] = r
    BY <1>5, <2>3
  <2> QED BY <1>2, <1>5, <2>1, <2>2, <2>4 DEF FileTypes
<1>9. /\ objects' \in Seq(FileRecords) /\ Len(objects') = n
      /\ objects'[o] = r /\ \A p \in 1..n : p # o => objects'[p] = objects[p]
  BY <1>2, <1>7, <1>8 DEF FileTypes
<1>10. PICK c : /\ Moves(s, c)
                /\ c = NoFileCall \/ (c.step \in {"validate", "watch", "wait"} /\ c.object # 0)
                /\ \/ UNCHANGED watch /\ (c = NoFileCall \/ c.step # "watch")
                   \/ watch = "none" /\ watch' = "pending"
  BY RecordMtimeMoves
<1>11. fileCall'[s] = c /\ \A v \in FileSlots : v # s => fileCall'[v] = fileCall[v]
  BY <1>2, <1>9, <1>10, OneMoves
<1>12. FileTypes'
  <2>1. tracked' \in 0..Len(objects')
    BY <1>1, <1>2, <1>3, <1>9
  <2>2. /\ fileCall' = [u \in FileSlots |-> fileCall'[u]]
        /\ \A u \in FileSlots : fileCall'[u] = NoFileCall \/ ACall(fileCall'[u], Len(objects'))
    BY <1>2, <1>9, <1>10, OneMoves
  <2>3. watch' \in {"none", "pending", "set"} /\ watchersMade' \in {0, 1} /\ file'.mtime \in Nat \ {0}
    BY <1>1, <1>10 DEF FileTypes
  <2> QED BY <1>9, <2>1, <2>2, <2>3 DEF FileTypes
<1>13. ASSUME NEW p \in 1..n
       PROVE  objects[p].readMtime \in Nat /\ objects[p].readMtime <= m /\ objects[p].read \in BOOLEAN
  <2>1. objects[p] \in FileRecords
    BY <1>2 DEF FileTypes
  <2> QED BY <1>2, <1>4, <2>1 DEF FileRecords, ReadsTimed
<1>14. r.readMtime = q /\ r.read = objects[o].read /\ q <= m
  BY <1>4, <1>5, <1>13
<1>15. ReadsTimed'
  <2>1. ASSUME NEW p \in 1..n
        PROVE  /\ objects'[p].readMtime <= m
               /\ objects'[p].read =>
                    \/ objects'[p].readMtime # 0
                    \/ /\ objects[p].read /\ objects[p].readMtime = 0
                       /\ ~(d.tool = "fs_read" /\ d.object = p)
    <3>1. CASE p = o
      BY <1>3, <1>4, <1>5, <1>9, <1>14, <3>1
    <3>2. CASE p # o
      BY <1>3, <1>9, <1>13, <3>2
    <3> QED BY <3>1, <3>2
  <2> QED BY <1>1, <1>2, <1>4, <1>9, <1>10, <2>1, ReadsStayTimed
<1>16. OneOpens'
  <2>1. CASE UNCHANGED watch /\ (c = NoFileCall \/ c.step # "watch")
    BY <1>1, <1>10, <2>1, OpensKept DEF Moves
  <2>2. CASE watch = "none" /\ watch' = "pending"
    <3>1. \A u \in FileSlots : ~IsAt(u, "watch")
      BY <2>2 DEF OneOpens
    <3>2. \A u \in FileSlots : IsAt(u, "watch")' => u = s
      BY <1>11, <3>1 DEF IsAt
    <3>3. watchersMade' # 1
      BY <1>1, <2>2 DEF OneOpens
    <3> QED BY <2>2, <3>2, <3>3 DEF OneOpens
  <2> QED BY <1>10, <2>1, <2>2
<1>17. UnreadKept'
  <2>1. Unread' = Unread
    BY <1>1 DEF Unread
  <2>2. SUFFICES ASSUME Unread # {} PROVE UnreadKept'
    BY <2>1 DEF UnreadKept
  <2>3. d.tool # "fs_read"
    BY <1>2, <2>2 DEF Cautious
  <2>4. Unread \subseteq file'.edits /\ tracked' # 0
    BY <1>1, <1>2, <1>3, <2>2 DEF UnreadKept
  <2>5. ASSUME NEW p \in 1..n
        PROVE  objects'[p].readMtime < file'.mtime /\ (objects'[p].read => objects'[p].readMtime # 0)
    <3>1. objects[p].readMtime < file.mtime /\ (objects[p].read => objects[p].readMtime # 0)
      BY <1>2, <2>2 DEF UnreadKept
    <3>2. objects'[p].readMtime = objects[p].readMtime /\ objects'[p].read = objects[p].read
      BY <1>5, <1>9, <1>14, <2>3
    <3> QED BY <1>1, <3>1, <3>2
  <2>6. ASSUME NEW u \in FileSlots, fileCall'[u] # NoFileCall PROVE Cautious(fileCall'[u], Unread)
    <3>1. CASE u = s
      BY <1>10, <1>11, <2>6, <3>1 DEF Cautious
    <3>2. CASE u # s
      BY <1>11, <2>2, <2>6, <3>2 DEF UnreadKept
    <3> QED BY <3>1, <3>2
  <2> QED BY <1>9, <2>1, <2>4, <2>5, <2>6 DEF UnreadKept
<1> QED BY <1>12, <1>15, <1>16, <1>17

\* The watcher is open, or was not to be had; or the call that opens it is done.
LEMMA WatchStep ==
    ASSUME FileInv, NEW s \in FileSlots, DoWatch(s) \/ AwaitWatch(s)
    PROVE  FileInv'
<1> USE DEF FileInv
<1>1. /\ fileCall[s] # NoFileCall /\ fileCall[s].step \in {"watch", "wait"} /\ Returns(s, tracked)
      /\ UNCHANGED <<file, objects, tracked, seen, quiet>>
      /\ watch' \in {"none", "pending", "set"}
  BY DEF DoWatch, AwaitWatch, FileTypes
<1>2. \/ UNCHANGED <<watch, watchersMade>>
      \/ /\ fileCall[s].step = "watch"
         /\ \/ watch' = "set" /\ watchersMade' = watchersMade + 1
            \/ watch' = "none" /\ watchersMade' = watchersMade
  BY DEF DoWatch, AwaitWatch
<1>3. \/ UNCHANGED <<watch, watchersMade>>
      \/ /\ watch = "pending" /\ watchersMade = 0 /\ fileCall[s].step = "watch"
         /\ \/ watch' = "set" /\ watchersMade' = 1
            \/ watch' = "none" /\ watchersMade' = 0
  BY <1>1, <1>2 DEF OneOpens, FileTypes, IsAt
<1>4. watchersMade' \in {0, 1}
  BY <1>3 DEF FileTypes
<1>5. PICK c : fileCall' = [fileCall EXCEPT ![s] = c] /\ (c = NoFileCall \/ c.step # "watch")
  BY <1>1, <1>4, ReturnStep
<1>6. FileTypes' /\ ReadsTimed' /\ UnreadKept'
  BY <1>1, <1>4, ReturnStep
<1>7. OneOpens'
  <2>1. CASE UNCHANGED <<watch, watchersMade>>
    BY <1>5, <2>1, OpensKept
  <2>2. CASE /\ fileCall[s].step = "watch"
             /\ \/ watch' = "set" /\ watchersMade' = 1
                \/ watch' = "none" /\ watchersMade' = 0
    <3>1. \A u \in FileSlots : IsAt(u, "watch") => u = s
      BY <1>1, <2>2 DEF OneOpens, IsAt
    <3>2. fileCall'[s] = c /\ \A v \in FileSlots : v # s => fileCall'[v] = fileCall[v]
      BY <1>5 DEF FileTypes
    <3>3. \A u \in FileSlots : ~IsAt(u, "watch")'
      BY <1>5, <3>1, <3>2 DEF IsAt
    <3> QED BY <2>2, <3>3 DEF OneOpens
  <2> QED BY <1>3, <2>1, <2>2
<1> QED BY <1>6, <1>7

\* The watcher tells of a time that no call compares with.
LEMMA WatchEventStep ==
    ASSUME FileInv, WatchEvent
    PROVE  FileInv'
<1> USE DEF FileInv
<1>1. UNCHANGED <<file, tracked, watch, watchersMade, fileCall, seen, quiet>>
  BY DEF WatchEvent
<1>2. PICK n, m : n = Len(objects) /\ n \in Nat /\ tracked \in 0..n /\ m = file.mtime /\ m \in Nat
  BY DEF FileTypes
<1>3. /\ objects' \in Seq(FileRecords) /\ Len(objects') = n
      /\ \A p \in 1..n : objects'[p].readMtime = objects[p].readMtime /\ objects'[p].read = objects[p].read
  <2>1. CASE tracked = 0
    BY <1>2, <2>1 DEF WatchEvent, FileTypes
  <2>2. CASE tracked # 0
    <3>1. PICK o \in 1..n : o = tracked
      BY <1>2, <2>2
    <3>2. objects[o] \in FileRecords
      BY <1>2 DEF FileTypes
    <3>3. PICK r : r = [objects[o] EXCEPT !.knownMtime = m]
      OBVIOUS
    <3>4. r \in FileRecords /\ r.readMtime = objects[o].readMtime /\ r.read = objects[o].read
      BY <1>2, <3>2, <3>3 DEF FileRecords
    <3>5. objects' = [objects EXCEPT ![o] = r]
      BY <1>2, <2>2, <3>1, <3>3 DEF WatchEvent
    <3> QED BY <1>2, <3>4, <3>5 DEF FileTypes
  <2> QED BY <2>1, <2>2
<1>4. FileTypes'
  BY <1>1, <1>2, <1>3 DEF FileTypes
<1>5. \A s \in FileSlots, st \in FileSteps : IsAt(s, st)' <=> IsAt(s, st)
  BY <1>1 DEF IsAt
<1>6. OneOpens'
  BY <1>1, <1>5 DEF OneOpens, FileSteps
<1>7. ReadsTimed'
  BY <1>1, <1>2, <1>3, <1>5 DEF ReadsTimed, FileSteps
<1>8. UnreadKept'
  <2>1. Unread' = Unread
    BY <1>1 DEF Unread
  <2> QED BY <1>1, <1>2, <1>3, <2>1 DEF UnreadKept
<1> QED BY <1>4, <1>6, <1>7, <1>8

\* An edit of others is later than every read so far.
LEMMA OutsideEditStep ==
    ASSUME FileInv, OutsideEdit
    PROVE  FileInv'
<1> USE DEF FileInv
<1>1. PICK id : /\ Changes(file.edits \cup {id})
                /\ quiet' = IF Busy = {} /\ tracked # 0 /\ objects[tracked].read THEN quiet \cup {id} ELSE quiet
                /\ UNCHANGED <<objects, tracked, watch, watchersMade, fileCall, seen>>
  BY DEF OutsideEdit
<1>2. PICK m, n : m = file.mtime /\ m \in Nat \ {0} /\ file'.mtime = m + 1 /\ n = Len(objects) /\ n \in Nat
  BY <1>1 DEF FileTypes, Changes
<1>3. file'.edits = file.edits \cup {id}
  BY <1>1 DEF Changes
<1>4. FileTypes'
  <2>1. file'.mtime \in Nat \ {0}
    BY <1>2
  <2> QED BY <1>1, <2>1 DEF FileTypes
<1>5. \A s \in FileSlots, st \in FileSteps : IsAt(s, st)' <=> IsAt(s, st)
  BY <1>1 DEF IsAt
<1>6. OneOpens'
  BY <1>1, <1>5 DEF OneOpens, FileSteps
<1>7. ASSUME NEW p \in 1..n
      PROVE  objects[p].readMtime \in Nat /\ objects[p].readMtime <= m
  <2>1. objects[p] \in FileRecords
    BY <1>2 DEF FileTypes
  <2> QED BY <1>2, <2>1 DEF FileRecords, ReadsTimed
<1>8. \A p \in 1..n : objects[p].readMtime < m + 1 /\ objects[p].readMtime <= m + 1
  BY <1>2, <1>7
<1>9. ReadsTimed'
  <2>1. \A p \in 1..Len(objects') : objects'[p].readMtime <= file'.mtime
    BY <1>1, <1>2, <1>8
  <2>2. ASSUME NEW p \in 1..Len(objects'), objects'[p].read, objects'[p].readMtime = 0
        PROVE  \E t \in FileSlots : IsAt(t, "stat")' /\ fileCall'[t].tool = "fs_read" /\ fileCall'[t].object = p
    <3>1. PICK t \in FileSlots : IsAt(t, "stat") /\ fileCall[t].tool = "fs_read" /\ fileCall[t].object = p
      BY <1>1, <2>2 DEF ReadsTimed
    <3> QED BY <1>1, <3>1 DEF IsAt
  <2> QED BY <2>1, <2>2 DEF ReadsTimed
<1>10. UnreadKept'
  <2>1. CASE Busy = {} /\ tracked # 0 /\ objects[tracked].read
    <3>1. \A s \in FileSlots : fileCall[s] = NoFileCall
      BY <2>1 DEF Busy
    <3>2. \A p \in 1..n : objects[p].read => objects[p].readMtime # 0
      BY <1>2, <3>1 DEF ReadsTimed, IsAt
    <3>3. Unread' \subseteq file'.edits
      BY <1>1, <1>3, <2>1 DEF Unread, UnreadKept
    <3>4. \A p \in 1..Len(objects') : /\ objects'[p].readMtime < file'.mtime
                                      /\ objects'[p].read => objects'[p].readMtime # 0
      BY <1>1, <1>2, <1>8, <3>2
    <3>5. tracked' # 0 /\ \A s \in FileSlots : fileCall'[s] = NoFileCall
      BY <1>1, <2>1, <3>1
    <3> QED BY <3>3, <3>4, <3>5 DEF UnreadKept
  <2>2. CASE ~(Busy = {} /\ tracked # 0 /\ objects[tracked].read)
    <3>1. Unread' = Unread
      BY <1>1, <2>2 DEF Unread
    <3>2. SUFFICES ASSUME Unread # {} PROVE UnreadKept'
      BY <3>1 DEF UnreadKept
    <3>3. \A p \in 1..Len(objects') : /\ objects'[p].readMtime < file'.mtime
                                      /\ objects'[p].read => objects'[p].readMtime # 0
      BY <1>1, <1>2, <1>8, <3>2 DEF UnreadKept
    <3>4. /\ Unread \subseteq file'.edits /\ tracked' # 0
          /\ \A s \in FileSlots : fileCall'[s] # NoFileCall => Cautious(fileCall'[s], Unread)
      BY <1>1, <1>3, <3>2 DEF UnreadKept
    <3> QED BY <3>1, <3>3, <3>4 DEF UnreadKept
  <2> QED BY <2>1, <2>2
<1> QED BY <1>4, <1>6, <1>9, <1>10

\* Every step keeps what the edits of others survive by.
LEMMA FileStep ==
    ASSUME FileInv, [FileNext]_fileVars
    PROVE  FileInv'
<1>1. ASSUME Busy # FileSlots, NEW s \in FileSlots, NEW tool \in FileTools, CallTool(s, tool) PROVE FileInv'
  BY <1>1, CallToolStep
<1>2. ASSUME NEW s \in FileSlots, \/ ValidateWrite(s) \/ FsRead(s) \/ ReadToEdit(s) \/ ReadToMultiEdit(s)
                                  \/ FsWrite(s) \/ RecordMtime(s) \/ DoWatch(s) \/ AwaitWatch(s)
      PROVE  FileInv'
  BY <1>2, ValidateStep, FsReadStep, ReadToChangeStep, FsWriteStep, RecordMtimeStep, WatchStep
<1>3. CASE WatchEvent \/ OutsideEdit
  BY <1>3, WatchEventStep, OutsideEditStep
<1>4. CASE UNCHANGED fileVars
  <2>1. UNCHANGED <<file, objects, tracked, watch, watchersMade, fileCall, seen, quiet>>
    BY <1>4 DEF fileVars
  <2>2. FileTypes' /\ OneOpens'
    BY <2>1 DEF FileInv, FileTypes, OneOpens, IsAt
  <2>3. ReadsTimed' /\ UnreadKept'
    BY <2>1, Zenon DEF FileInv, ReadsTimed, UnreadKept, Unread, IsAt
  <2> QED BY <2>2, <2>3 DEF FileInv
<1> QED BY <1>1, <1>2, <1>3, <1>4 DEF FileNext, FileTools

\* Edits by others survive: what they wrote to a file that the agent had read,
\* while no tool was at work on it, is in the file or was read since, and the
\* file has one watcher, for any number of calls and edits.
THEOREM EditsSurvive == FileSpec => []OutsideEditsKept
<1>1. FileInv => OutsideEditsKept
  BY DEF FileInv, FileTypes, UnreadKept, Unread, OutsideEditsKept, QuietEditsSurvive, OneWatcher
<1>2. FileInv /\ [FileNext]_fileVars => FileInv'
  BY FileStep
<1> QED BY <1>1, <1>2, FileInitHolds, PTL DEF FileSpec

-----------------------------------------------------------------------------
(* Rooms (Rooms).                                                          *)

Statuses == {"unsaid", "saying", "said", "failed"}
SpeechStates == [status : Statuses, from : Senders \cup {Unsaid.from}, mentions : MentionLists \cup {<<>>},
                 at : Nat, waiting : BOOLEAN, steady : SUBSET MemberNames]

RoomTypes ==
    /\ entries \in Seq([name : MemberNames, present : BOOLEAN]) /\ pooled \subseteq MemberNames
    /\ speech \in [Speeches -> SpeechStates] /\ received \in [Speeches -> [MemberNames -> Nat]]

\* A name is in the Map once, and members that are steady are there.
MembersOnce ==
    /\ \A i, j \in DOMAIN entries :
          entries[i].present /\ entries[j].present /\ entries[i].name = entries[j].name => i = j
    /\ \A s \in Speeches : speech[s].steady \subseteq Present \cap pooled

\* Where a speech stops for a member: a mention of it, or its entry in the Map.
StopsFor(s, n) ==
    IF speech[s].mentions = <<>>
    THEN {i \in DOMAIN entries : entries[i].present /\ entries[i].name = n /\ n # speech[s].from}
    ELSE {i \in 1..Len(speech[s].mentions) : speech[s].mentions[i] = n}

\* The stops that are behind a speech; it still waits for the agent at the last.
Behind(s) == IF speech[s].waiting THEN speech[s].at - 1 ELSE speech[s].at

\* A steady member has answered once for every stop behind the speech.
Hears(s, n) ==
    /\ speech[s].status \in {"saying", "said"} => received[s][n] = Cardinality(StopsFor(s, n) \cap (1..Behind(s)))
    /\ speech[s].status = "said" => StopsFor(s, n) \subseteq 1..Behind(s)
    /\ speech[s].status = "failed" => received[s][n] <= Cardinality(StopsFor(s, n))
    /\ speech[s].waiting /\ NameAt(s, speech[s].at) = n => speech[s].at \in StopsFor(s, n)

SpeechesGoOn ==
    \A s \in Speeches :
        /\ speech[s].status = "unsaid" => speech[s].steady = {} /\ \A n \in MemberNames : received[s][n] = 0
        /\ speech[s].waiting => /\ speech[s].status = "saying" /\ speech[s].at # 0
                                /\ speech[s].mentions = <<>> => speech[s].at \in DOMAIN entries
        /\ \A n \in speech[s].steady : Hears(s, n)

RoomInv == RoomTypes /\ MembersOnce /\ SpeechesGoOn

\* The mentions of a speech are a list.
LEMMA MentionsList ==
    ASSUME RoomTypes, NEW s \in Speeches
    PROVE  Len(speech[s].mentions) \in Nat /\ DOMAIN speech[s].mentions = 1..Len(speech[s].mentions)
<1>1. PICK ms : ms = speech[s].mentions /\ ms \in MentionLists \cup {<<>>}
  BY DEF RoomTypes, SpeechStates
<1>2. CASE ms \in MentionLists
  <2>1. ms \in Seq({ms[i] : i \in DOMAIN ms})
    BY <1>2, RoomAssumption, Zenon
  <2>2. PICK S : ms \in Seq(S)
    BY <2>1, Zenon
  <2> QED BY <1>1, <2>2
<1>3. CASE ms = <<>>
  BY <1>1, <1>3
<1> QED BY <1>1, <1>2, <1>3

\* The stops for a member are finitely many positions.
LEMMA StopsAreFinite ==
    ASSUME RoomTypes, NEW s \in Speeches, NEW n
    PROVE  /\ IsFiniteSet(StopsFor(s, n)) /\ StopsFor(s, n) \subseteq Nat \ {0}
           /\ Cardinality(StopsFor(s, n)) \in Nat
           /\ \A X : IsFiniteSet(StopsFor(s, n) \cap X) /\ Cardinality(StopsFor(s, n) \cap X) \in Nat
                     /\ Cardinality(StopsFor(s, n) \cap X) <= Cardinality(StopsFor(s, n))
<1>1. PICK k \in Nat : StopsFor(s, n) \subseteq 1..k
  <2>1. Len(entries) \in Nat /\ DOMAIN entries = 1..Len(entries)
    BY DEF RoomTypes
  <2>2. CASE speech[s].mentions = <<>>
    <3>1. StopsFor(s, n) \subseteq 1..Len(entries)
      BY <2>1, <2>2 DEF StopsFor
    <3> QED BY <2>1, <3>1
  <2>3. CASE speech[s].mentions # <<>>
    <3>1. StopsFor(s, n) \subseteq 1..Len(speech[s].mentions)
      BY <2>3 DEF StopsFor
    <3> QED BY <3>1, MentionsList
  <2> QED BY <2>2, <2>3
<1>2. IsFiniteSet(1..k)
  BY <1>1, FS_Interval
<1>3. IsFiniteSet(StopsFor(s, n))
  BY <1>1, <1>2, FS_Subset
<1>4. \A X : StopsFor(s, n) \cap X \subseteq StopsFor(s, n)
  OBVIOUS
<1>5. \A X : IsFiniteSet(StopsFor(s, n) \cap X) /\ Cardinality(StopsFor(s, n) \cap X) <= Cardinality(StopsFor(s, n))
  BY <1>3, <1>4, FS_Subset
<1>6. \A X : Cardinality(StopsFor(s, n) \cap X) \in Nat
  BY <1>5, FS_CardinalityType
<1>7. Cardinality(StopsFor(s, n)) \in Nat
  BY <1>3, FS_CardinalityType
<1> QED BY <1>1, <1>3, <1>5, <1>6, <1>7

\* The stops for a steady member are stops of the speech.
LEMMA SteadyStops ==
    ASSUME RoomInv, NEW s \in Speeches, NEW n \in speech[s].steady
    PROVE  /\ n \in MemberNames /\ n \in Present \cap pooled
           /\ StopsFor(s, n) \subseteq Stops(s)
           /\ \A i \in StopsFor(s, n) : NameAt(s, i) = n
           /\ \A i \in Stops(s) : NameAt(s, i) = n => i \in StopsFor(s, n)
<1>1. n \in MemberNames /\ n \in Present \cap pooled
  BY DEF RoomInv, RoomTypes, MembersOnce
<1>2. CASE speech[s].mentions = <<>>
  BY <1>1, <1>2 DEF StopsFor, Stops, NameAt
<1>3. CASE speech[s].mentions # <<>>
  BY <1>1, <1>3 DEF StopsFor, Stops, NameAt
<1> QED BY <1>1, <1>2, <1>3

\* A steady member is owed one answer for each of its stops.
LEMMA StopsAreOwed ==
    ASSUME RoomInv, NEW s \in Speeches, NEW n \in speech[s].steady
    PROVE  Cardinality(StopsFor(s, n)) = Owed(s, n)
<1>1. CASE speech[s].mentions = <<>>
  <2>1. CASE n = speech[s].from
    <3>1. StopsFor(s, n) = {}
      BY <1>1, <2>1 DEF StopsFor
    <3> QED BY <1>1, <2>1, <3>1, FS_EmptySet DEF Owed
  <2>2. CASE n # speech[s].from
    <3>1. PICK i \in DOMAIN entries : entries[i].present /\ entries[i].name = n
      BY SteadyStops DEF Present
    <3>2. StopsFor(s, n) = {i}
      BY <1>1, <2>2, <3>1 DEF StopsFor, RoomInv, MembersOnce
    <3> QED BY <1>1, <2>2, <3>2, FS_Singleton DEF Owed
  <2> QED BY <2>1, <2>2
<1>2. CASE speech[s].mentions # <<>>
  <2>1. DOMAIN speech[s].mentions = 1..Len(speech[s].mentions)
    BY MentionsList DEF RoomInv
  <2>2. StopsFor(s, n) = {i \in DOMAIN speech[s].mentions : speech[s].mentions[i] = n}
    BY <1>2, <2>1 DEF StopsFor
  <2> QED BY <1>2, <2>2 DEF Owed, Mentioned
<1> QED BY <1>1, <1>2

\* What a speech has, apart from the members that were steady.
SameSpeech(s) == /\ speech'[s].status = speech[s].status /\ speech'[s].from = speech[s].from
                 /\ speech'[s].mentions = speech[s].mentions /\ speech'[s].at = speech[s].at
                 /\ speech'[s].waiting = speech[s].waiting /\ speech'[s].steady \subseteq speech[s].steady

\* Who comes and goes does not change what a member is owed that stays.
LEMMA SpeechesStay ==
    ASSUME RoomInv, NEW s \in Speeches, SameSpeech(s), received' = received,
           \A i \in DOMAIN entries : i \in DOMAIN entries' /\ entries'[i].name = entries[i].name,
           \A n \in speech'[s].steady : StopsFor(s, n)' = StopsFor(s, n)
    PROVE  /\ speech'[s].status = "unsaid" => speech'[s].steady = {} /\ \A n \in MemberNames : received'[s][n] = 0
           /\ speech'[s].waiting => /\ speech'[s].status = "saying" /\ speech'[s].at # 0
                                    /\ speech'[s].mentions = <<>> => speech'[s].at \in DOMAIN entries'
           /\ \A n \in speech'[s].steady : Hears(s, n)'
<1> USE DEF RoomInv
<1>1. speech'[s].status = "unsaid" => speech'[s].steady = {} /\ \A n \in MemberNames : received'[s][n] = 0
  BY DEF SameSpeech, SpeechesGoOn
<1>2. speech'[s].waiting => /\ speech'[s].status = "saying" /\ speech'[s].at # 0
                            /\ speech'[s].mentions = <<>> => speech'[s].at \in DOMAIN entries'
  BY DEF SameSpeech, SpeechesGoOn
<1>3. ASSUME NEW n \in speech'[s].steady PROVE Hears(s, n)'
  <2>1. n \in speech[s].steady /\ Hears(s, n)
    BY <1>3 DEF SameSpeech, SpeechesGoOn
  <2>2. Behind(s)' = Behind(s)
    BY DEF Behind, SameSpeech
  <2>3. ASSUME speech[s].waiting PROVE NameAt(s, speech[s].at)' = NameAt(s, speech[s].at)
    BY <2>3 DEF NameAt, SameSpeech, SpeechesGoOn
  <2>4. PICK T : T = StopsFor(s, n) /\ T = StopsFor(s, n)'
    BY <1>3
  <2> QED BY <2>1, <2>2, <2>3, <2>4 DEF Hears, SameSpeech
<1> QED BY <1>1, <1>2, <1>3

\* The room is empty, and nothing is said.
LEMMA RoomInitHolds == RoomInit => RoomInv
<1> SUFFICES ASSUME RoomInit PROVE RoomInv
  OBVIOUS
<1>1. PICK e : e = entries /\ Len(e) = 0 /\ DOMAIN e = {} /\ e \in Seq([name : MemberNames, present : BOOLEAN])
  <2>1. PICK e : e = <<>> /\ Len(e) = 0 /\ DOMAIN e = {}
    OBVIOUS
  <2>2. e \in Seq([name : MemberNames, present : BOOLEAN])
    BY <2>1
  <2> QED BY <2>1, <2>2 DEF RoomInit
<1>2. Unsaid \in SpeechStates /\ Unsaid.status = "unsaid" /\ Unsaid.steady = {} /\ ~Unsaid.waiting
  BY DEF Unsaid, SpeechStates, Statuses
<1>3. RoomTypes
  BY <1>1, <1>2 DEF RoomInit, RoomTypes
<1>4. \A s \in Speeches : speech[s] = Unsaid /\ \A n \in MemberNames : received[s][n] = 0
  BY DEF RoomInit
<1>5. MembersOnce /\ SpeechesGoOn
  BY <1>1, <1>2, <1>4 DEF MembersOnce, SpeechesGoOn
<1> QED BY <1>3, <1>5 DEF RoomInv

\* A member that joins has an entry behind all others.
LEMMA JoinStep ==
    ASSUME RoomInv, NEW m \in MemberNames, Join(m)
    PROVE  RoomInv'
<1> USE DEF RoomInv
<1>1. PICK r, k : /\ r = [name |-> m, present |-> TRUE] /\ k = Len(entries) /\ k \in Nat
                  /\ entries' = Append(entries, r)
  <2>1. Len(entries) \in Nat
    BY DEF RoomTypes
  <2>2. PICK r : r = [name |-> m, present |-> TRUE]
    OBVIOUS
  <2> QED BY <2>1, <2>2, Zenon DEF Join
<1>2. UNCHANGED <<pooled, speech, received>> /\ m \notin Present
  BY DEF Join
<1>3. /\ entries' \in Seq([name : MemberNames, present : BOOLEAN])
      /\ DOMAIN entries = 1..k /\ DOMAIN entries' = 1..(k + 1)
      /\ \A i \in 1..k : entries'[i] = entries[i]
      /\ entries'[k + 1].name = m /\ entries'[k + 1].present
  <2>1. entries \in Seq([name : MemberNames, present : BOOLEAN]) /\ r \in [name : MemberNames, present : BOOLEAN]
    BY <1>1 DEF RoomTypes
  <2>2. /\ entries' \in Seq([name : MemberNames, present : BOOLEAN]) /\ Len(entries') = k + 1
        /\ \A i \in 1..k : entries'[i] = entries[i] /\ entries'[k + 1] = r
    BY <1>1, <2>1, AppendProperties
  <2>3. entries'[k + 1] = r
    BY <1>1, <2>1, AppendProperties
  <2> QED BY <1>1, <2>1, <2>2, <2>3
<1>4. RoomTypes'
  BY <1>2, <1>3 DEF RoomTypes
<1>5. \A i \in 1..(k + 1) : i \in 1..k \/ i = k + 1
  BY <1>1
<1>6. \A i \in 1..k : i \in 1..(k + 1)
  BY <1>1
<1>7. Present \subseteq Present'
  BY <1>3, <1>6 DEF Present
<1>8. MembersOnce'
  <2>1. \A i \in 1..k : entries[i].present => entries[i].name # m
    BY <1>2, <1>3 DEF Present
  <2>2. \A i, j \in DOMAIN entries' :
            entries'[i].present /\ entries'[j].present /\ entries'[i].name = entries'[j].name => i = j
    BY <1>3, <1>5, <2>1 DEF MembersOnce
  <2> QED BY <1>2, <1>7, <2>2 DEF MembersOnce
<1>9. SpeechesGoOn'
  <2>1. ASSUME NEW s \in Speeches, NEW n \in speech'[s].steady PROVE StopsFor(s, n)' = StopsFor(s, n)
    <3>1. n # m
      BY <1>2, <2>1 DEF MembersOnce
    <3>2. speech[s]' = speech[s]
      BY <1>2
    <3>3. CASE speech[s].mentions = <<>>
      BY <1>3, <1>5, <1>6, <3>1, <3>2, <3>3 DEF StopsFor
    <3>4. CASE speech[s].mentions # <<>>
      BY <3>2, <3>4 DEF StopsFor
    <3> QED BY <3>3, <3>4
  <2>2. \A s \in Speeches : SameSpeech(s)
    BY <1>2 DEF SameSpeech
  <2>3. \A i \in DOMAIN entries : i \in DOMAIN entries' /\ entries'[i].name = entries[i].name
    BY <1>3, <1>6
  <2> QED BY <1>2, <2>1, <2>2, <2>3, SpeechesStay DEF SpeechesGoOn
<1> QED BY <1>4, <1>8, <1>9

\* From now on m is not steady in any speech.
LEMMA UnsteadySpeeches ==
    ASSUME RoomInv, NEW m, speech' = Unsteady(m)
    PROVE  /\ speech' \in [Speeches -> SpeechStates]
           /\ \A s \in Speeches : SameSpeech(s) /\ speech'[s].steady = speech[s].steady \ {m}
<1>1. ASSUME NEW s \in Speeches
      PROVE  speech'[s] \in SpeechStates /\ SameSpeech(s) /\ speech'[s].steady = speech[s].steady \ {m}
  <2>1. PICK d, e : /\ d = speech[s] /\ d \in SpeechStates
                    /\ e = [d EXCEPT !.steady = d.steady \ {m}] /\ e = speech'[s]
    BY DEF RoomInv, RoomTypes, Unsteady
  <2>2. /\ e \in SpeechStates /\ e.steady = d.steady \ {m} /\ e.status = d.status /\ e.from = d.from
        /\ e.mentions = d.mentions /\ e.at = d.at /\ e.waiting = d.waiting
    <3>1. d.steady \ {m} \in SUBSET MemberNames
      BY <2>1 DEF SpeechStates
    <3> QED BY <2>1, <3>1 DEF SpeechStates
  <2> QED BY <2>1, <2>2 DEF SameSpeech
<1>2. speech' = [s \in Speeches |-> speech'[s]]
  BY DEF Unsteady
<1> QED BY <1>1, <1>2

\* One that leaves has a gap for an entry.
LEMMA LeaveStep ==
    ASSUME RoomInv, NEW m \in MemberNames, Leave(m)
    PROVE  RoomInv'
<1> USE DEF RoomInv
<1>1. /\ speech' = Unsteady(m) /\ UNCHANGED <<pooled, received>>
      /\ entries' = [i \in DOMAIN entries |->
                       IF entries[i].name = m THEN [name |-> m, present |-> FALSE] ELSE entries[i]]
  BY DEF Leave
<1>2. /\ speech' \in [Speeches -> SpeechStates]
      /\ \A s \in Speeches : SameSpeech(s) /\ speech'[s].steady = speech[s].steady \ {m}
  BY <1>1, UnsteadySpeeches
<1>3. PICK k \in Nat : DOMAIN entries = 1..k /\ entries \in [1..k -> [name : MemberNames, present : BOOLEAN]]
  <2>1. PICK R : R = [name : MemberNames, present : BOOLEAN] /\ entries \in Seq(R)
    BY DEF RoomTypes
  <2>2. Len(entries) \in Nat /\ DOMAIN entries = 1..Len(entries) /\ entries \in [1..Len(entries) -> R]
    BY <2>1, LenProperties
  <2> QED BY <2>1, <2>2
<1>4. /\ entries' \in [1..k -> [name : MemberNames, present : BOOLEAN]] /\ DOMAIN entries' = 1..k
      /\ \A i \in 1..k : /\ entries'[i].name = entries[i].name
                         /\ entries[i].name = m => ~entries'[i].present
                         /\ entries[i].name # m => entries'[i] = entries[i]
  <2>1. ASSUME NEW i \in 1..k
        PROVE  /\ entries'[i] \in [name : MemberNames, present : BOOLEAN]
               /\ entries'[i].name = entries[i].name
               /\ entries[i].name = m => ~entries'[i].present
               /\ entries[i].name # m => entries'[i] = entries[i]
    <3>1. entries'[i] = IF entries[i].name = m THEN [name |-> m, present |-> FALSE] ELSE entries[i]
      BY <1>1, <1>3
    <3>2. entries[i] \in [name : MemberNames, present : BOOLEAN]
      BY <1>3
    <3> QED BY <3>1, <3>2
  <2>2. entries' = [i \in 1..k |-> entries'[i]]
    BY <1>1, <1>3
  <2> QED BY <2>1, <2>2
<1>5. RoomTypes'
  BY <1>1, <1>2, <1>4 DEF RoomTypes
<1>6. Present \ {m} \subseteq Present'
  BY <1>3, <1>4 DEF Present
<1>7. MembersOnce'
  <2>1. \A i, j \in DOMAIN entries' :
            entries'[i].present /\ entries'[j].present /\ entries'[i].name = entries'[j].name => i = j
    BY <1>3, <1>4 DEF MembersOnce
  <2>2. \A s \in Speeches : speech'[s].steady \subseteq Present' \cap pooled'
    BY <1>1, <1>2, <1>6 DEF MembersOnce
  <2> QED BY <2>1, <2>2 DEF MembersOnce
<1>8. SpeechesGoOn'
  <2>1. ASSUME NEW s \in Speeches, NEW n \in speech'[s].steady PROVE StopsFor(s, n)' = StopsFor(s, n)
    <3>1. n # m /\ SameSpeech(s)
      BY <1>2, <2>1
    <3>2. CASE speech[s].mentions = <<>>
      <4>1. speech'[s].mentions = <<>> /\ speech'[s].from = speech[s].from
        BY <3>1, <3>2 DEF SameSpeech
      <4> QED BY <1>3, <1>4, <3>1, <3>2, <4>1 DEF StopsFor
    <3>3. CASE speech[s].mentions # <<>>
      BY <3>1, <3>3 DEF StopsFor, SameSpeech
    <3> QED BY <3>2, <3>3
  <2>2. \A i \in DOMAIN entries : i \in DOMAIN entries' /\ entries'[i].name = entries[i].name
    BY <1>3, <1>4
  <2> QED BY <1>1, <1>2, <2>1, <2>2, SpeechesStay DEF SpeechesGoOn
<1> QED BY <1>5, <1>7, <1>8

\* So does one whose agent leaves the pool.
LEMMA PoolChangesStep ==
    ASSUME RoomInv, NEW m \in MemberNames, PoolChanges(m)
    PROVE  RoomInv'
<1> USE DEF RoomInv
<1>1. /\ speech' = Unsteady(m) /\ UNCHANGED <<entries, received>>
      /\ pooled' = IF m \in pooled THEN pooled \ {m} ELSE pooled \cup {m}
  BY DEF PoolChanges
<1>2. /\ speech' \in [Speeches -> SpeechStates]
      /\ \A s \in Speeches : SameSpeech(s) /\ speech'[s].steady = speech[s].steady \ {m}
  BY <1>1, UnsteadySpeeches
<1>3. RoomTypes'
  BY <1>1, <1>2 DEF RoomTypes
<1>4. MembersOnce'
  <2>1. Present' = Present
    BY <1>1 DEF Present
  <2> QED BY <1>1, <1>2, <2>1 DEF MembersOnce
<1>5. SpeechesGoOn'
  <2>1. ASSUME NEW s \in Speeches, NEW n PROVE StopsFor(s, n)' = StopsFor(s, n)
    <3>1. speech'[s].mentions = speech[s].mentions /\ speech'[s].from = speech[s].from /\ entries' = entries
      BY <1>1, <1>2 DEF SameSpeech
    <3> QED BY <3>1 DEF StopsFor
  <2>2. \A i \in DOMAIN entries : i \in DOMAIN entries' /\ entries'[i].name = entries[i].name
    BY <1>1
  <2> QED BY <1>1, <1>2, <2>1, <2>2, SpeechesStay DEF SpeechesGoOn
<1> QED BY <1>3, <1>4, <1>5

\* A step of one speech leaves the others, and all stops, as they are.
LEMMA OthersGoOn ==
    ASSUME RoomInv, NEW s \in Speeches, NEW d \in SpeechStates, speech' = [speech EXCEPT ![s] = d],
           UNCHANGED entries,
           \A t \in Speeches : t # s => received'[t] = received[t],
           d.status = "unsaid" => d.steady = {} /\ \A n \in MemberNames : received'[s][n] = 0,
           d.waiting => /\ d.status = "saying" /\ d.at # 0
                        /\ d.mentions = <<>> => d.at \in DOMAIN entries,
           \A n \in d.steady : Hears(s, n)'
    PROVE  SpeechesGoOn'
<1>1. speech'[s] = d /\ \A t \in Speeches : t # s => speech'[t] = speech[t]
  BY DEF RoomInv, RoomTypes
<1>2. ASSUME NEW t \in Speeches, t # s
      PROVE  /\ speech'[t].status = "unsaid" => speech'[t].steady = {} /\ \A n \in MemberNames : received'[t][n] = 0
             /\ speech'[t].waiting => /\ speech'[t].status = "saying" /\ speech'[t].at # 0
                                      /\ speech'[t].mentions = <<>> => speech'[t].at \in DOMAIN entries'
             /\ \A n \in speech'[t].steady : Hears(t, n)'
  <2>1. speech'[t] = speech[t] /\ received'[t] = received[t] /\ entries' = entries
    BY <1>1, <1>2
  <2>2. ASSUME NEW n \in speech'[t].steady PROVE Hears(t, n)'
    <3>1. Hears(t, n)
      BY <2>1, <2>2 DEF RoomInv, SpeechesGoOn
    <3>2. /\ StopsFor(t, n)' = StopsFor(t, n) /\ NameAt(t, speech[t].at)' = NameAt(t, speech[t].at)
          /\ Behind(t)' = Behind(t)
      <4>1. StopsFor(t, n)' = StopsFor(t, n)
        BY <2>1, Zenon DEF StopsFor
      <4>2. NameAt(t, speech[t].at)' = NameAt(t, speech[t].at)
        <5>1. PICK x, y : x = speech[t] /\ x = speech'[t] /\ y = entries /\ y = entries'
          BY <2>1
        <5> QED BY <5>1 DEF NameAt
      <4>3. Behind(t)' = Behind(t)
        <5>1. PICK x : x = speech[t] /\ x = speech'[t]
          BY <2>1
        <5> QED BY <5>1 DEF Behind
      <4> QED BY <4>1, <4>2, <4>3
    <3>3. PICK T : T = StopsFor(t, n) /\ T = StopsFor(t, n)'
      BY <3>2
    <3> QED BY <2>1, <3>1, <3>2, <3>3 DEF Hears
  <2> QED BY <2>1, <2>2 DEF RoomInv, SpeechesGoOn
<1>3. entries' = entries
  OBVIOUS
<1> QED BY <1>1, <1>2, <1>3 DEF SpeechesGoOn

\* What does not touch the Map and the pool leaves the members.
LEMMA MembersStay ==
    ASSUME RoomInv, NEW s \in Speeches, NEW d \in SpeechStates, speech' = [speech EXCEPT ![s] = d],
           UNCHANGED <<entries, pooled>>, d.steady \subseteq Present \cap pooled,
           received' \in [Speeches -> [MemberNames -> Nat]]
    PROVE  RoomTypes' /\ MembersOnce'
<1>1. speech' \in [Speeches -> SpeechStates]
  BY DEF RoomInv, RoomTypes
<1>2. Present' = Present
  BY DEF Present
<1>3. speech'[s] = d /\ \A t \in Speeches : t # s => speech'[t] = speech[t]
  BY DEF RoomInv, RoomTypes
<1> QED BY <1>1, <1>2, <1>3 DEF RoomInv, RoomTypes, MembersOnce

\* A speech begins: nothing is behind it.
LEMMA SayStep ==
    ASSUME RoomInv, NEW s \in Speeches, Say(s)
    PROVE  RoomInv'
<1> USE DEF RoomInv
<1>1. PICK f, ms, d :
         /\ f \in Senders /\ ms \in MentionLists
         /\ d = [status |-> "saying", from |-> f, mentions |-> ms, at |-> 0,
                 waiting |-> FALSE, steady |-> Present \cap pooled]
         /\ speech' = [speech EXCEPT ![s] = d]
  BY DEF Say
<1>2. UNCHANGED <<entries, pooled, received>> /\ speech[s].status = "unsaid"
  BY DEF Say
<1>3. d \in SpeechStates /\ d.status = "saying" /\ ~d.waiting /\ d.at = 0 /\ d.steady = Present \cap pooled
  <2>1. Present \cap pooled \in SUBSET MemberNames
    BY DEF RoomTypes
  <2> QED BY <1>1, <2>1 DEF SpeechStates, Statuses
<1>4. received' \in [Speeches -> [MemberNames -> Nat]]
  BY <1>2 DEF RoomTypes
<1>5. RoomTypes' /\ MembersOnce'
  BY <1>1, <1>2, <1>3, <1>4, MembersStay
<1>6. ASSUME NEW n \in d.steady PROVE Hears(s, n)'
  <2>1. received'[s][n] = 0
    <3>1. n \in MemberNames
      BY <1>3, <1>6 DEF RoomTypes
    <3> QED BY <1>2, <3>1 DEF SpeechesGoOn
  <2>2. speech'[s] = d
    BY <1>1 DEF RoomTypes
  <2>3. StopsFor(s, n)' \cap (1..Behind(s)') = {}
    BY <1>3, <2>2 DEF Behind
  <2>4. Cardinality(StopsFor(s, n)' \cap (1..Behind(s)')) = 0
    BY <2>3, FS_EmptySet
  <2> QED BY <1>3, <2>1, <2>2, <2>4 DEF Hears
<1>7. SpeechesGoOn'
  <2>1. \A t \in Speeches : t # s => received'[t] = received[t]
    BY <1>2
  <2> QED BY <1>1, <1>2, <1>3, <1>6, <2>1, OthersGoOn
<1> QED BY <1>5, <1>7

\* The loop moves on: no stop for a steady member is passed over.
LEMMA MoveOnStep ==
    ASSUME RoomInv, NEW s \in Speeches, MoveOn(s)
    PROVE  RoomInv'
<1> USE DEF RoomInv
<1>1. /\ speech[s].status = "saying" /\ ~speech[s].waiting
      /\ UNCHANGED <<entries, pooled, received>>
  BY DEF MoveOn
<1>2. PICK d, a : d = speech[s] /\ d \in SpeechStates /\ a = d.at /\ a \in Nat
  BY DEF RoomTypes, SpeechStates
<1>3. PICK A : A = Ahead(s, Stops(s)) /\ A = {i \in Stops(s) : i > a}
  BY <1>2 DEF Ahead
<1>4. Stops(s) \subseteq Nat \ {0}
  <2>1. CASE speech[s].mentions = <<>>
    BY <2>1 DEF Stops, RoomTypes
  <2>2. CASE speech[s].mentions # <<>>
    BY <2>2, MentionsList DEF Stops
  <2> QED BY <2>1, <2>2
<1>5. received' \in [Speeches -> [MemberNames -> Nat]] /\ \A t \in Speeches : received'[t] = received[t]
  BY <1>1 DEF RoomTypes
<1>6. d.steady \subseteq Present \cap pooled /\ d.status = "saying" /\ ~d.waiting
  BY <1>1, <1>2 DEF MembersOnce
<1>7. ASSUME NEW n \in d.steady
      PROVE  /\ n \in speech[s].steady
             /\ received'[s][n] = Cardinality(StopsFor(s, n) \cap (1..a))
             /\ StopsFor(s, n) \subseteq Stops(s)
  BY <1>1, <1>2, SteadyStops DEF SpeechesGoOn, Hears, Behind
<1>8. CASE A = {}
  <2>1. PICK e : e = [d EXCEPT !.status = "said"] /\ speech' = [speech EXCEPT ![s] = e]
    BY <1>2, <1>3, <1>8 DEF MoveOn, RoomTypes
  <2>2. /\ e \in SpeechStates /\ e.status = "said" /\ e.waiting = d.waiting /\ e.at = a /\ e.steady = d.steady
        /\ e.mentions = d.mentions /\ e.from = d.from
    BY <1>2, <2>1 DEF SpeechStates, Statuses
  <2>3. speech'[s] = e
    BY <2>1 DEF RoomTypes
  <2>4. ASSUME NEW n \in e.steady PROVE Hears(s, n)'
    <3>1. PICK T : T = StopsFor(s, n)' /\ T = StopsFor(s, n)
      BY <1>1, <1>2, <2>2, <2>3 DEF StopsFor
    <3>2. Behind(s)' = a
      BY <1>6, <2>2, <2>3 DEF Behind
    <3>3. T \subseteq 1..a
      <4>1. ASSUME NEW i \in T PROVE i \in 1..a
        <5>1. i \in Stops(s) /\ i \in Nat \ {0}
          BY <1>4, <1>7, <2>2, <2>4, <3>1, <4>1
        <5>2. ~(i > a)
          BY <1>3, <1>8, <5>1
        <5> QED BY <1>2, <5>1, <5>2
      <4> QED BY <4>1
    <3> QED BY <1>6, <1>7, <2>2, <2>3, <3>1, <3>2, <3>3 DEF Hears
  <2> QED BY <1>1, <1>5, <1>6, <2>1, <2>2, <2>4, OthersGoOn, MembersStay
<1>9. CASE A # {}
  <2>1. PICK j : /\ j \in A /\ \A i \in A : j <= i
                 /\ speech' = [speech EXCEPT ![s].at = j, ![s].waiting = TRUE]
    <3>1. A \in SUBSET Nat
      BY <1>3, <1>4
    <3>2. \E j \in A : \A i \in A : j <= i
      BY <1>9, <3>1, LeastOf
    <3>3. PICK j : j = CHOOSE k \in A : \A i \in A : k <= i
      OBVIOUS
    <3>4. j \in A /\ \A i \in A : j <= i
      BY <3>2, <3>3
    <3>5. speech' = [speech EXCEPT ![s].at = j, ![s].waiting = TRUE]
      BY <1>3, <1>9, <3>3 DEF MoveOn
    <3> QED BY <3>4, <3>5
  <2>2. j \in Stops(s) /\ j \in Nat \ {0} /\ j > a
    BY <1>3, <1>4, <2>1
  <2>3. PICK f, e : f = [d EXCEPT !.at = j] /\ e = [f EXCEPT !.waiting = TRUE]
    OBVIOUS
  <2>4. /\ e \in SpeechStates /\ e.status = "saying" /\ e.waiting /\ e.at = j /\ e.steady = d.steady
        /\ e.mentions = d.mentions /\ e.from = d.from
    <3>1. f \in SpeechStates /\ f.status = d.status /\ f.at = j /\ f.steady = d.steady /\ f.mentions = d.mentions /\ f.from = d.from
      BY <1>2, <2>2, <2>3 DEF SpeechStates
    <3> QED BY <1>6, <2>3, <3>1 DEF SpeechStates
  <2>5. speech' = [speech EXCEPT ![s] = e]
    BY <1>2, <2>1, <2>3 DEF RoomTypes
  <2>6. speech'[s] = e
    BY <2>5 DEF RoomTypes
  <2>7. e.mentions = <<>> => e.at \in DOMAIN entries
    BY <1>2, <2>2, <2>4 DEF Stops
  <2>8. ASSUME NEW n \in e.steady PROVE Hears(s, n)'
    <3>1. PICK T : T = StopsFor(s, n)' /\ T = StopsFor(s, n)
      BY <1>1, <1>2, <2>4, <2>6 DEF StopsFor
    <3>2. Behind(s)' = j - 1
      BY <2>4, <2>6 DEF Behind
    <3>3. T \cap (1..(j - 1)) = T \cap (1..a)
      <4>1. \A i \in T : i \in Stops(s)
        BY <1>7, <2>4, <3>1
      <4>2. \A i \in T : i > a => j <= i
        BY <1>3, <2>1, <4>1
      <4>3. \A i \in T : i \in Nat \ {0}
        BY <1>4, <4>1
      <4>4. \A i \in T : i \in 1..(j - 1) <=> i \in 1..a
        BY <1>2, <2>2, <4>2, <4>3
      <4> QED BY <4>4
    <3>4. NameAt(s, j)' = NameAt(s, j)
      BY <1>1, <1>2, <2>4, <2>6 DEF NameAt
    <3>5. NameAt(s, j) = n => j \in T
      BY <1>7, <2>2, <2>4, <3>1, SteadyStops
    <3>6. received'[s][n] = Cardinality(T \cap (1..(j - 1)))
      BY <1>7, <2>4, <3>1, <3>3
    <3> QED BY <2>4, <2>6, <3>1, <3>2, <3>4, <3>5, <3>6 DEF Hears
  <2> QED BY <1>1, <1>5, <1>6, <2>2, <2>4, <2>5, <2>7, <2>8, OthersGoOn, MembersStay
<1> QED BY <1>8, <1>9

\* complete() is settled: the stop that the speech stood at is behind it.
LEMMA SettledStep ==
    ASSUME RoomInv, NEW s \in Speeches, Completed(s) \/ Rejected(s)
    PROVE  RoomInv'
<1> USE DEF RoomInv
<1>1. /\ speech[s].waiting /\ UNCHANGED <<entries, pooled>>
      /\ received \in [Speeches -> [MemberNames -> Nat]]
  BY DEF Completed, Rejected, RoomTypes
<1>2. PICK d, a : d = speech[s] /\ d \in SpeechStates /\ a = d.at /\ a \in Nat \ {0}
  BY <1>1 DEF RoomTypes, SpeechStates, SpeechesGoOn
<1>3. /\ d.steady \subseteq Present \cap pooled /\ d.steady \subseteq MemberNames /\ d.status = "saying"
      /\ \A n \in d.steady : Hears(s, n)
  BY <1>1, <1>2 DEF MembersOnce, SpeechesGoOn, SpeechStates
<1>4. PICK m : m = NameAt(s, a)
  OBVIOUS
<1>5. ASSUME NEW n \in d.steady
      PROVE  /\ received[s][n] = Cardinality(StopsFor(s, n) \cap (1..(a - 1)))
             /\ n = m => a \in StopsFor(s, n)
             /\ \A i \in StopsFor(s, n) : NameAt(s, i) = n
  <2>1. n \in speech[s].steady /\ Hears(s, n)
    BY <1>2, <1>3
  <2> QED BY <1>1, <1>2, <1>3, <1>4, <2>1, SteadyStops DEF Hears, Behind
<1>6. CASE Completed(s)
  <2>1. PICK e : e = [d EXCEPT !.waiting = FALSE] /\ speech' = [speech EXCEPT ![s] = e]
    BY <1>2, <1>6 DEF Completed, RoomTypes
  <2>2. /\ e \in SpeechStates /\ e.status = "saying" /\ ~e.waiting /\ e.at = a /\ e.steady = d.steady
        /\ e.mentions = d.mentions /\ e.from = d.from
    BY <1>2, <1>3, <2>1 DEF SpeechStates
  <2>3. received' = [received EXCEPT ![s][m] = @ + 1]
    BY <1>2, <1>4, <1>6 DEF Completed
  <2>4. /\ received' \in [Speeches -> [MemberNames -> Nat]]
        /\ \A t \in Speeches : t # s => received'[t] = received[t]
        /\ \A n \in MemberNames : received'[s][n] = IF n = m THEN received[s][n] + 1 ELSE received[s][n]
    <3>1. PICK g : g = received[s] /\ g \in [MemberNames -> Nat]
      BY <1>1
    <3>2. PICK h : h = [g EXCEPT ![m] = @ + 1]
      OBVIOUS
    <3>3. h \in [MemberNames -> Nat] /\ \A n \in MemberNames : h[n] = IF n = m THEN g[n] + 1 ELSE g[n]
      <4>1. h = [n \in MemberNames |-> IF n = m THEN g[n] + 1 ELSE g[n]]
        BY <3>1, <3>2
      <4> QED BY <3>1, <4>1
    <3>4. received' = [received EXCEPT ![s] = h]
      BY <2>3, <3>1, <3>2
    <3> QED BY <1>1, <3>1, <3>3, <3>4
  <2>5. speech'[s] = e
    BY <2>1 DEF RoomTypes
  <2>6. ASSUME NEW n \in e.steady PROVE Hears(s, n)'
    <3>1. PICK T : T = StopsFor(s, n)' /\ T = StopsFor(s, n)
      BY <1>1, <1>2, <2>2, <2>5 DEF StopsFor
    <3>2. Behind(s)' = a
      BY <2>2, <2>5 DEF Behind
    <3>3. n \in MemberNames /\ n \in d.steady
      BY <1>3, <2>2, <2>6
    <3>4. received'[s][n] = Cardinality(T \cap (1..a))
      <4>1. CASE n = m
        <5>1. T \cap (1..a) = (T \cap (1..(a - 1))) \cup {a} /\ a \notin T \cap (1..(a - 1))
          <6>1. a \in T
            BY <1>5, <3>1, <3>3, <4>1
          <6>2. \A i : i \in 1..a <=> (i \in 1..(a - 1) \/ i = a)
            BY <1>2
          <6>3. a \notin 1..(a - 1)
            BY <1>2
          <6> QED BY <6>1, <6>2, <6>3
        <5>2. IsFiniteSet(T \cap (1..(a - 1)))
          BY <3>1, StopsAreFinite
        <5>3. Cardinality(T \cap (1..a)) = Cardinality(T \cap (1..(a - 1))) + 1
          BY <5>1, <5>2, FS_AddElement
        <5> QED BY <1>5, <2>4, <3>1, <3>3, <4>1, <5>3
      <4>2. CASE n # m
        <5>1. a \notin T
          BY <1>4, <1>5, <3>1, <3>3, <4>2
        <5>2. T \cap (1..a) = T \cap (1..(a - 1))
          BY <1>2, <5>1
        <5> QED BY <1>5, <2>4, <3>1, <3>3, <4>2, <5>2
      <4> QED BY <4>1, <4>2
    <3> QED BY <2>2, <2>5, <3>1, <3>2, <3>4 DEF Hears
  <2> QED BY <1>1, <1>3, <2>1, <2>2, <2>4, <2>6, OthersGoOn, MembersStay
<1>7. CASE Rejected(s)
  <2>1. PICK f, e : /\ f = [d EXCEPT !.waiting = FALSE] /\ e = [f EXCEPT !.status = "failed"]
                    /\ speech' = [speech EXCEPT ![s] = e]
    BY <1>2, <1>7 DEF Rejected, RoomTypes
  <2>2. /\ e \in SpeechStates /\ e.status = "failed" /\ ~e.waiting /\ e.at = a /\ e.steady = d.steady
        /\ e.mentions = d.mentions /\ e.from = d.from
    <3>1. /\ f \in SpeechStates /\ ~f.waiting /\ f.at = a /\ f.steady = d.steady /\ f.mentions = d.mentions
          /\ f.from = d.from
      BY <1>2, <2>1 DEF SpeechStates
    <3> QED BY <2>1, <3>1 DEF SpeechStates, Statuses
  <2>3. received' = received
    BY <1>7 DEF Rejected
  <2>4. speech'[s] = e
    BY <2>1 DEF RoomTypes
  <2>5. ASSUME NEW n \in e.steady PROVE Hears(s, n)'
    <3>1. PICK T : T = StopsFor(s, n)' /\ T = StopsFor(s, n)
      BY <1>1, <1>2, <2>2, <2>4 DEF StopsFor
    <3>2. received'[s][n] <= Cardinality(T)
      <4>1. received'[s][n] = Cardinality(T \cap (1..(a - 1)))
        BY <1>5, <2>2, <2>3, <2>5, <3>1
      <4>2. \A X : Cardinality(T \cap X) <= Cardinality(T)
        BY <3>1, StopsAreFinite
      <4> QED BY <4>1, <4>2
    <3> QED BY <2>2, <2>4, <3>1, <3>2 DEF Hears
  <2> QED BY <1>1, <1>3, <2>1, <2>2, <2>3, <2>5, OthersGoOn, MembersStay
<1> QED BY <1>6, <1>7

\* Every step keeps what steady members are owed.
LEMMA RoomStep == RoomInv /\ [RoomNext]_roomVars => RoomInv'
<1> SUFFICES ASSUME RoomInv, [RoomNext]_roomVars PROVE RoomInv'
  OBVIOUS
<1>1. ASSUME NEW n \in MemberNames, Join(n) \/ Leave(n) \/ PoolChanges(n) PROVE RoomInv'
  BY <1>1, JoinStep, LeaveStep, PoolChangesStep
<1>2. ASSUME NEW s \in Speeches, Say(s) \/ MoveOn(s) \/ Completed(s) \/ Rejected(s) PROVE RoomInv'
  BY <1>2, SayStep, MoveOnStep, SettledStep
<1>3. CASE UNCHANGED roomVars
  <2>1. UNCHANGED <<entries, pooled, speech, received>>
    BY <1>3 DEF roomVars
  <2>2. RoomTypes' /\ MembersOnce'
    BY <2>1 DEF RoomInv, RoomTypes, MembersOnce, Present
  <2>3. SpeechesGoOn'
    <3>1. \A s \in Speeches : SameSpeech(s)
      BY <2>1 DEF SameSpeech
    <3>2. \A s \in Speeches : \A n \in speech'[s].steady : StopsFor(s, n)' = StopsFor(s, n)
      BY <2>1, Zenon DEF StopsFor
    <3>3. \A i \in DOMAIN entries : i \in DOMAIN entries' /\ entries'[i].name = entries[i].name
      BY <2>1
    <3> QED BY <2>1, <3>1, <3>2, <3>3, SpeechesStay DEF SpeechesGoOn
  <2> QED BY <2>2, <2>3 DEF RoomInv
<1> QED BY <1>1, <1>2, <1>3 DEF RoomNext

\* Whoever comes and goes, a member that stays in the room and in the pool while
\* say() goes round answers it once for every time that it is addressed.
THEOREM MembersHear == RoomSpec => []SteadyMembersHear
<1>1. RoomInv => SteadyMembersHear
  <2> SUFFICES ASSUME RoomInv, NEW s \in Speeches, NEW n \in speech[s].steady
               PROVE  /\ received[s][n] <= Owed(s, n)
                      /\ speech[s].status = "said" => received[s][n] = Owed(s, n)
    BY DEF SteadyMembersHear
  <2>1. Hears(s, n) /\ Cardinality(StopsFor(s, n)) = Owed(s, n) /\ n \in MemberNames
    BY StopsAreOwed, SteadyStops DEF RoomInv, SpeechesGoOn
  <2>2. PICK T : T = StopsFor(s, n)
    OBVIOUS
  <2>3. \A X : Cardinality(T \cap X) <= Cardinality(T)
    BY <2>2, StopsAreFinite DEF RoomInv
  <2>4. speech[s].status \in {"saying", "said", "failed"}
    <3>1. speech[s].status \in Statuses
      BY DEF RoomInv, RoomTypes, SpeechStates
    <3>2. speech[s].status # "unsaid"
      BY DEF RoomInv, SpeechesGoOn
    <3> QED BY <3>1, <3>2 DEF Statuses
  <2>5. ASSUME speech[s].status = "said" PROVE received[s][n] = Cardinality(T)
    <3>1. T \subseteq 1..Behind(s)
      BY <2>1, <2>2, <2>5 DEF Hears
    <3>2. T \cap (1..Behind(s)) = T
      BY <3>1
    <3> QED BY <2>1, <2>2, <2>5, <3>2 DEF Hears
  <2>6. received[s][n] <= Cardinality(T)
    BY <2>1, <2>2, <2>3, <2>4 DEF Hears
  <2> QED BY <2>1, <2>2, <2>5, <2>6
<1>2. RoomInv /\ [RoomNext]_roomVars => RoomInv'
  BY RoomStep
<1> QED BY <1>1, <1>2, RoomInitHolds, PTL DEF RoomSpec


-----------------------------------------------------------------------------
(* The remote sandbox and the watch of its files (SandboxWatch).           *)

\* The sandbox that the adapter stands for answers.
Alive == client # 0 /\ remotes[client] = "running"

InitSteps == {"not called", "done", "create", "connect"}
PollStates == [polling : BOOLEAN, pending : BOOLEAN, at : Paths \cup {0}, read : {<<>>} \cup {<<m>> : m \in Nat},
               lastMtimes : [Paths -> Nat]]

SandboxTypes ==
    /\ remotes \in Seq({"running", "killed"})
    /\ client \in 0..Len(remotes) /\ sandboxId \in 0..Len(remotes) /\ disposing \in 0..Len(remotes)
    /\ initCall \in [Inits -> [step : InitSteps, target : 0..Len(remotes)]]
    /\ \A i \in Inits : initCall[i].step = "connect" => initCall[i].target # 0
    /\ excused \in [overlap : BOOLEAN, kill : BOOLEAN, watch : BOOLEAN]

WatchTypes ==
    /\ mtime \in [Paths -> Nat] /\ heard \in [Paths -> Nat] /\ dueMtimes \in [Paths -> Nat]
    /\ baseline \in [at : Paths \cup {0}, mtimes : [Paths -> Nat]]
    /\ poll \in PollStates /\ (poll.polling => poll.at # 0) /\ (poll.read # <<>> => poll.polling) /\ late \in Nat
    /\ watching \in {"idle", "not wanted", "probing", "polling", "returned", "failed"}
    /\ entry \in {"none", "native", "polling"} /\ stream \in {"none", "open", "over"}
    /\ unwatched \in BOOLEAN /\ (unwatched => watching \notin {"idle", "not wanted"})

\* Calls of init() that do not overlap find no sandbox, and what runs is the one
\* the adapter stands for or the one that dispose() kills.
OneSandbox ==
    ~excused.overlap =>
        /\ \A i, j \in UnderWay : i = j
        /\ UnderWay # {} => client = 0
        /\ ~excused.kill => \A r \in DOMAIN remotes : remotes[r] = "running" => r = client \/ r = disposing

\* A watch is probed for, started, or watched in one way, one after the other.
OneWatch ==
    /\ watching \in {"idle", "not wanted", "probing"} =>
          entry = "none" /\ baseline.at = 0 /\ stream = "none" /\ ~poll.polling
    /\ watching \in {"polling", "failed"} => entry = "none" /\ stream = "none" /\ ~poll.polling
    /\ watching = "failed" => baseline.at = 0
    /\ stream = "open" => entry # "polling" /\ baseline.at = 0 /\ ~poll.polling
    /\ entry = "native" => stream = "open"
    /\ baseline.at # 0 => entry = "none" /\ ~poll.polling

\* What was watching when the watch was ended calls the listener once more.
EndsQuietly ==
    /\ ~unwatched => late = 0
    /\ unwatched /\ ~excused.watch =>
          /\ entry = "none" /\ baseline.at = 0 /\ watching # "probing"
          /\ late <= 1 /\ (poll.polling \/ stream = "open" => late = 0)
    /\ poll.polling /\ entry # "polling" => unwatched
    /\ stream = "open" /\ entry # "native" => unwatched

\* Behind the poll, the listener knows what there was when the timer fired; no
\* change is known of that was not there.
PollKeepsUp ==
    ~excused.overlap /\ ~unwatched =>
        /\ baseline.at # 0 =>
              /\ \A p \in Paths : baseline.mtimes[p] <= mtime[p]
              /\ client = 0 => \A p \in Paths : baseline.mtimes[p] = 0
        /\ entry = "polling" =>
              /\ \A p \in Paths : heard[p] = poll.lastMtimes[p] /\ dueMtimes[p] <= mtime[p]
              /\ client = 0 => \A p \in Paths : dueMtimes[p] = 0
              /\ Alive /\ ~poll.pending => \A p \in Paths :
                    ~poll.polling \/ p < poll.at => heard[p] >= dueMtimes[p]
              /\ Alive /\ poll.polling /\ ~poll.pending /\ poll.read # <<>> =>
                    poll.read[1] >= dueMtimes[poll.at]
              /\ poll.pending => poll.polling

SandboxInv == SandboxTypes /\ WatchTypes /\ OneSandbox /\ OneWatch /\ EndsQuietly /\ PollKeepsUp

\* The paths are numbered from 1.
LEMMA PathsInOrder ==
    /\ Paths \subseteq Nat \ {0} /\ 1 \in Paths
    /\ \A p, q \in Paths : p + 1 \in Paths \/ q < p \/ q = p
<1>1. PICK n \in Nat \ {0} : Paths = 1..n
  BY PathsAssumption
<1> QED BY <1>1

\* A stat gives the mtime, or 0.
LEMMA StatGives ==
    ASSUME WatchTypes, NEW p \in Paths
    PROVE  Stat(p) \in Nat /\ Stat(p) <= mtime[p] /\ (client = 0 => Stat(p) = 0)
<1>1. mtime[p] \in Nat
  BY DEF WatchTypes
<1>2. CASE client = 0 \/ remotes[client] = "killed"
  BY <1>1, <1>2 DEF Stat
<1>3. CASE ~(client = 0 \/ remotes[client] = "killed")
  BY <1>1, <1>3 DEF Stat
<1> QED BY <1>2, <1>3

\* What a poll has read is a time.
LEMMA PollHasRead ==
    ASSUME WatchTypes, poll.read # <<>>
    PROVE  poll.polling /\ poll.at \in Paths /\ poll.read[1] \in Nat
<1>1. poll \in PollStates /\ poll.polling /\ poll.at \in Paths
  BY DEF WatchTypes, PollStates
<1>2. poll.read \in {<<>>} \cup {<<m>> : m \in Nat}
  BY <1>1 DEF PollStates
<1>3. PICK m \in Nat : poll.read = <<m>>
  BY <1>2
<1> QED BY <1>1, <1>3

\* While the sandbox answers, a stat gives the mtime.
LEMMA StatOfLive ==
    ASSUME SandboxTypes, NEW p \in Paths, Alive
    PROVE  Stat(p) = mtime[p]
BY DEF SandboxTypes, Stat, Alive

\* Nothing is created and nothing watched.
LEMMA SandboxInitHolds == SandboxInit => SandboxInv
<1> SUFFICES ASSUME SandboxInit PROVE SandboxInv
  OBVIOUS
<1>1. PICK e : e = remotes /\ Len(e) = 0 /\ DOMAIN e = {} /\ e \in Seq({"running", "killed"})
  <2>1. PICK e : e = <<>> /\ Len(e) = 0 /\ DOMAIN e = {}
    OBVIOUS
  <2>2. e \in Seq({"running", "killed"})
    BY <2>1
  <2> QED BY <2>1, <2>2 DEF SandboxInit
<1>2. SandboxTypes
  <2>1. \A i \in Inits : initCall[i].step \in {"not called", "done"}
    BY DEF SandboxInit
  <2>2. initCall \in [Inits -> [step : InitSteps, target : {0}]]
    BY DEF SandboxInit, InitSteps
  <2>3. 0..Len(remotes) = {0}
    BY <1>1
  <2>4. /\ client = 0 /\ sandboxId = 0 /\ disposing = 0
        /\ excused = [overlap |-> FALSE, kill |-> FALSE, watch |-> FALSE]
    BY DEF SandboxInit
  <2> QED BY <1>1, <2>1, <2>2, <2>3, <2>4 DEF SandboxTypes
<1>3. NotPolling \in PollStates /\ ~NotPolling.polling /\ NotPolling.read = <<>> /\ AllZero \in [Paths -> Nat]
  BY DEF NotPolling, PollStates, AllZero
<1>4. WatchTypes
  BY <1>3 DEF SandboxInit, WatchTypes
<1>5. UnderWay = {}
  BY DEF SandboxInit, UnderWay
<1>6. OneSandbox
  BY <1>1, <1>5 DEF OneSandbox
<1>7. OneWatch /\ EndsQuietly /\ PollKeepsUp
  BY <1>3 DEF SandboxInit, OneWatch, EndsQuietly, PollKeepsUp
<1> QED BY <1>2, <1>4, <1>6, <1>7 DEF SandboxInv

\* A step of the adapter while nothing of the watch changes.
LEMMA WatchStays ==
    ASSUME SandboxInv, UNCHANGED watchVars, excused'.watch = excused.watch,
           excused.overlap => excused'.overlap,
           ~excused'.overlap => /\ client' = 0 => client = 0
                                /\ Alive' => Alive \/ client = 0
    PROVE  WatchTypes' /\ OneWatch' /\ EndsQuietly' /\ PollKeepsUp'
<1>1. UNCHANGED <<mtime, watching, entry, baseline, poll, stream, heard, dueMtimes, late, unwatched>>
  BY DEF watchVars
<1>2. WatchTypes' /\ OneWatch'
  BY <1>1 DEF SandboxInv, WatchTypes, OneWatch
<1>3. EndsQuietly'
  BY <1>1 DEF SandboxInv, EndsQuietly
<1>4. PollKeepsUp'
  <2> SUFFICES ASSUME ~excused'.overlap, ~unwatched' PROVE PollKeepsUp'
    BY DEF PollKeepsUp
  <2>1. ~excused.overlap /\ ~unwatched /\ (client' = 0 => client = 0) /\ (Alive' => Alive \/ client = 0)
    BY <1>1
  <2>2. ASSUME entry = "polling", client = 0
        PROVE  \A p \in Paths : heard[p] >= dueMtimes[p] /\ \A m \in Nat : m >= dueMtimes[p]
    <3>1. \A p \in Paths : dueMtimes[p] = 0 /\ heard[p] \in Nat
      BY <2>1, <2>2 DEF SandboxInv, PollKeepsUp, WatchTypes
    <3> QED BY <3>1
  <2>3. poll.polling /\ poll.read # <<>> => poll.at \in Paths /\ poll.read[1] \in Nat
    BY PollHasRead DEF SandboxInv
  <2> QED BY <1>1, <2>1, <2>2, <2>3 DEF SandboxInv, PollKeepsUp
<1> QED BY <1>2, <1>3, <1>4

\* A step of the watch while nothing of the adapter changes.
LEMMA SandboxStays ==
    ASSUME SandboxInv, UNCHANGED <<sandboxVars, excused>>
    PROVE  SandboxTypes' /\ OneSandbox' /\ Alive' = Alive /\ \A p : mtime' = mtime => Stat(p)' = Stat(p)
<1>1. UNCHANGED <<remotes, client, sandboxId, initCall, disposing, excused>>
  BY DEF sandboxVars
<1>2. UnderWay' = UnderWay
  BY <1>1 DEF UnderWay
<1> QED BY <1>1, <1>2 DEF SandboxInv, SandboxTypes, OneSandbox, Alive, Stat

\* A call of init() that finds another one under way is excused.
LEMMA InitCalledStep ==
    ASSUME SandboxInv, NEW i \in Inits, InitCalled(i)
    PROVE  SandboxInv'
<1> USE DEF SandboxInv
<1>1. PICK c : /\ c = [step |-> CASE client # 0 -> "done" [] client = 0 /\ sandboxId # 0 -> "connect"
                                 [] client = 0 /\ sandboxId = 0 -> "create",
                       target |-> sandboxId]
               /\ initCall' = [initCall EXCEPT ![i] = c]
  BY DEF InitCalled
<1>2. PICK b \in BOOLEAN : b = (excused.overlap \/ UnderWay # {}) /\ excused' = [excused EXCEPT !.overlap = b]
  BY DEF InitCalled, SandboxTypes
<1>3. /\ excused' \in [overlap : BOOLEAN, kill : BOOLEAN, watch : BOOLEAN]
      /\ excused'.overlap = b /\ excused'.kill = excused.kill /\ excused'.watch = excused.watch
  BY <1>2 DEF SandboxTypes
<1>4. UNCHANGED <<remotes, client, sandboxId, disposing>> /\ UNCHANGED watchVars
  BY DEF InitCalled
<1>5. /\ c \in [step : InitSteps, target : 0..Len(remotes)] /\ (c.step = "connect" => c.target # 0)
      /\ c.step \in {"create", "connect"} => client = 0
  <2>1. sandboxId \in 0..Len(remotes) /\ c.target = sandboxId
    BY <1>1 DEF SandboxTypes
  <2>2. \/ c.step = "done" \/ (c.step = "connect" /\ client = 0 /\ sandboxId # 0)
        \/ (c.step = "create" /\ client = 0)
    <3>1. CASE client # 0
      BY <1>1, <3>1
    <3>2. CASE client = 0 /\ sandboxId # 0
      BY <1>1, <3>2
    <3>3. CASE client = 0 /\ sandboxId = 0
      BY <1>1, <3>3
    <3> QED BY <3>1, <3>2, <3>3
  <2>3. c \in [step : InitSteps, target : 0..Len(remotes)]
    BY <1>1, <2>1, <2>2 DEF InitSteps
  <2> QED BY <2>1, <2>2, <2>3
<1>6. initCall'[i] = c /\ \A j \in Inits : j # i => initCall'[j] = initCall[j]
  BY <1>1 DEF SandboxTypes
<1>7. SandboxTypes'
  BY <1>1, <1>3, <1>4, <1>5, <1>6 DEF SandboxTypes
<1>8. OneSandbox'
  <2> SUFFICES ASSUME ~b PROVE OneSandbox'
    BY <1>3 DEF OneSandbox
  <2>1. UnderWay = {} /\ ~excused.overlap
    BY <1>2
  <2>2. \A j \in UnderWay' : j = i /\ client = 0
    BY <1>5, <1>6, <2>1 DEF UnderWay
  <2> QED BY <1>3, <1>4, <2>1, <2>2 DEF OneSandbox
<1>9. Alive' = Alive
  BY <1>4 DEF Alive
<1>10. WatchTypes' /\ OneWatch' /\ EndsQuietly' /\ PollKeepsUp'
  BY <1>2, <1>3, <1>4, <1>9, WatchStays
<1> QED BY <1>7, <1>8, <1>10

\* The only init() under way finds the adapter without a sandbox.
LEMMA InitReturnsStep ==
    ASSUME SandboxInv, NEW i \in Inits, InitReturns(i)
    PROVE  SandboxInv'
<1> USE DEF SandboxInv
<1>1. /\ initCall' = [initCall EXCEPT ![i].step = "done"]
      /\ UNCHANGED <<disposing, excused>> /\ UNCHANGED watchVars
  BY DEF InitReturns
<1>2. i \in UnderWay
  BY DEF InitReturns, UnderWay
<1>3. PICK k : k = Len(remotes) /\ k \in Nat /\ DOMAIN remotes = 1..k
  BY DEF SandboxTypes
<1>4. PICK R : R = {"running", "killed"} /\ remotes \in Seq(R)
  BY DEF SandboxTypes
<1>5. \/ /\ remotes' = Append(remotes, "running") /\ client' = k + 1 /\ sandboxId' = k + 1
      \/ /\ remotes' = remotes /\ client' = initCall[i].target /\ client' # 0 /\ sandboxId' = client'
         /\ remotes[client'] = "running"
      \/ UNCHANGED <<remotes, client, sandboxId>>
  <2>1. Len(Append(remotes, "running")) = k + 1
    BY <1>3, <1>4, AppendProperties
  <2> QED BY <1>3, <2>1 DEF InitReturns, SandboxTypes
<1>6. PICK k2 : /\ k2 = Len(remotes') /\ k2 \in Nat /\ k <= k2 /\ DOMAIN remotes' = 1..k2 /\ remotes' \in Seq(R)
                /\ \A r \in 1..k : remotes'[r] = remotes[r]
                /\ \A r \in 1..k2 : r \in 1..k \/ r = client'
  <2>1. CASE remotes' = Append(remotes, "running") /\ client' = k + 1
    <3>1. /\ Append(remotes, "running") \in Seq(R) /\ Len(Append(remotes, "running")) = k + 1
          /\ \A r \in 1..k : Append(remotes, "running")[r] = remotes[r]
      BY <1>3, <1>4, AppendProperties
    <3>2. DOMAIN remotes' = 1..(k + 1) /\ k + 1 \in Nat /\ k <= k + 1 /\ \A r \in 1..(k + 1) : r \in 1..k \/ r = k + 1
      BY <1>3, <2>1, <3>1
    <3> QED BY <2>1, <3>1, <3>2
  <2>2. CASE remotes' = remotes
    BY <1>3, <1>4, <2>2
  <2> QED BY <1>5, <2>1, <2>2
<1>7. client' \in 0..k2 /\ sandboxId' \in 0..k2 /\ (client' = client \/ client' # 0)
  <2>1. initCall[i].target \in 0..k /\ client \in 0..k /\ sandboxId \in 0..k
    BY <1>3 DEF SandboxTypes
  <2>2. \A x \in 0..k : x \in 0..k2
    BY <1>3, <1>6
  <2>3. remotes' = Append(remotes, "running") => k2 = k + 1
    BY <1>3, <1>4, <1>6, AppendProperties
  <2> QED BY <1>3, <1>5, <1>6, <2>1, <2>2, <2>3
<1>8. /\ initCall' \in [Inits -> [step : InitSteps, target : 0..k2]]
      /\ initCall'[i].step = "done" /\ \A j \in Inits : j # i => initCall'[j] = initCall[j]
  <2>1. PICK c : c = [initCall[i] EXCEPT !.step = "done"] /\ initCall' = [initCall EXCEPT ![i] = c]
    BY <1>1
  <2>2. \A j \in Inits : initCall[j] \in [step : InitSteps, target : 0..k]
    BY <1>3 DEF SandboxTypes
  <2>3. c \in [step : InitSteps, target : 0..k] /\ c.step = "done"
    BY <2>1, <2>2 DEF InitSteps
  <2>4. \A x \in [step : InitSteps, target : 0..k] : x \in [step : InitSteps, target : 0..k2]
    BY <1>3, <1>6
  <2> QED BY <2>1, <2>2, <2>3, <2>4 DEF SandboxTypes
<1>9. SandboxTypes'
  <2>1. disposing' \in 0..k2
    BY <1>1, <1>3, <1>6 DEF SandboxTypes
  <2>2. \A j \in Inits : initCall'[j].step = "connect" => initCall'[j].target # 0
    BY <1>8 DEF SandboxTypes
  <2>3. excused' \in [overlap : BOOLEAN, kill : BOOLEAN, watch : BOOLEAN]
    BY <1>1 DEF SandboxTypes
  <2> QED BY <1>4, <1>6, <1>7, <1>8, <2>1, <2>2, <2>3 DEF SandboxTypes
<1>10. OneSandbox'
  <2> SUFFICES ASSUME ~excused.overlap PROVE OneSandbox'
    BY <1>1 DEF OneSandbox
  <2>1. UnderWay' = {}
    BY <1>2, <1>8 DEF OneSandbox, UnderWay
  <2>2. client = 0
    BY <1>2 DEF OneSandbox
  <2>3. ASSUME ~excused.kill, NEW r \in DOMAIN remotes', remotes'[r] = "running" PROVE r = client' \/ r = disposing'
    <3>1. CASE r = client'
      BY <3>1
    <3>2. CASE r \in 1..k
      BY <1>1, <1>3, <1>6, <2>2, <2>3, <3>2 DEF OneSandbox
    <3> QED BY <1>6, <3>1, <3>2
  <2> QED BY <1>1, <2>1, <2>3 DEF OneSandbox
<1>11. ~excused'.overlap => /\ client' = 0 => client = 0
                            /\ Alive' => Alive \/ client = 0
  BY <1>1, <1>2, <1>7 DEF OneSandbox
<1>12. WatchTypes' /\ OneWatch' /\ EndsQuietly' /\ PollKeepsUp'
  BY <1>1, <1>11, WatchStays
<1> QED BY <1>9, <1>10, <1>12

\* The sandbox is killed, or the call to kill it fails.
LEMMA KillReturnsStep ==
    ASSUME SandboxInv, KillReturns
    PROVE  SandboxInv'
<1> USE DEF SandboxInv
<1>1. /\ disposing # 0 /\ disposing' = 0 /\ UNCHANGED <<client, sandboxId, initCall>> /\ UNCHANGED watchVars
      /\ disposing \in 0..Len(remotes) /\ Len(remotes) \in Nat
  BY DEF KillReturns, SandboxTypes
<1>2. PICK d \in 1..Len(remotes) : d = disposing
  BY <1>1
<1>3. \/ remotes' = [remotes EXCEPT ![d] = "killed"] /\ excused' = excused
      \/ remotes' = remotes /\ excused' = [excused EXCEPT !.kill = TRUE]
  BY <1>2 DEF KillReturns
<1>4. /\ remotes' \in Seq({"running", "killed"}) /\ Len(remotes') = Len(remotes) /\ DOMAIN remotes' = DOMAIN remotes
      /\ \A r \in DOMAIN remotes : remotes'[r] = remotes[r] \/ (r = d /\ remotes'[r] = "killed")
  <2>1. CASE remotes' = remotes
    BY <2>1 DEF SandboxTypes
  <2>2. CASE remotes' = [remotes EXCEPT ![d] = "killed"]
    BY <1>2, <2>2 DEF SandboxTypes
  <2> QED BY <1>3, <2>1, <2>2
<1>5. /\ excused' \in [overlap : BOOLEAN, kill : BOOLEAN, watch : BOOLEAN]
      /\ excused'.overlap = excused.overlap /\ excused'.watch = excused.watch
      /\ excused'.kill \/ (excused'.kill = excused.kill /\ remotes'[d] = "killed")
  <2>1. excused \in [overlap : BOOLEAN, kill : BOOLEAN, watch : BOOLEAN]
    BY DEF SandboxTypes
  <2>2. CASE excused' = excused /\ remotes' = [remotes EXCEPT ![d] = "killed"]
    BY <1>2, <2>1, <2>2 DEF SandboxTypes
  <2>3. CASE excused' = [excused EXCEPT !.kill = TRUE]
    BY <2>1, <2>3
  <2> QED BY <1>3, <2>2, <2>3
<1>6. SandboxTypes'
  BY <1>1, <1>4, <1>5 DEF SandboxTypes
<1>7. UnderWay' = UnderWay
  BY <1>1 DEF UnderWay
<1>8. OneSandbox'
  BY <1>1, <1>2, <1>4, <1>5, <1>7 DEF OneSandbox
<1>9. Alive' => Alive
  BY <1>1, <1>4 DEF Alive, SandboxTypes
<1>10. WatchTypes' /\ OneWatch' /\ EndsQuietly' /\ PollKeepsUp'
  BY <1>1, <1>5, <1>9, WatchStays
<1> QED BY <1>6, <1>8, <1>10

\* The end of a watch: nothing watches on, unless a poller is being started.
LEMMA WatchEnds ==
    ASSUME SandboxInv, EndWatch
    PROVE  /\ WatchTypes' /\ OneWatch' /\ EndsQuietly' /\ PollKeepsUp'
           /\ excused' \in [overlap : BOOLEAN, kill : BOOLEAN, watch : BOOLEAN]
           /\ excused'.overlap = excused.overlap /\ excused'.kill = excused.kill
<1> USE DEF SandboxInv
<1>1. /\ entry' = "none" /\ unwatched' = (watching \notin {"idle", "not wanted"})
      /\ UNCHANGED <<mtime, watching, baseline, poll, stream, heard, dueMtimes, late>>
  BY DEF EndWatch
<1>2. PICK b \in BOOLEAN : /\ b = (excused.watch \/ (entry = "none" /\ (watching = "probing" \/ baseline.at # 0)))
                           /\ excused' = [excused EXCEPT !.watch = b]
  BY DEF EndWatch, SandboxTypes
<1>3. /\ excused' \in [overlap : BOOLEAN, kill : BOOLEAN, watch : BOOLEAN]
      /\ excused'.overlap = excused.overlap /\ excused'.kill = excused.kill /\ excused'.watch = b
  BY <1>2 DEF SandboxTypes
<1>4. WatchTypes'
  BY <1>1 DEF WatchTypes
<1>5. OneWatch'
  BY <1>1 DEF OneWatch
<1>6. EndsQuietly'
  <2>1. ~unwatched' => late' = 0
    BY <1>1 DEF EndsQuietly, WatchTypes
  <2>2. ASSUME unwatched', ~b
        PROVE  /\ baseline.at = 0 /\ watching # "probing"
               /\ late <= 1 /\ (poll.polling \/ stream = "open" => late = 0)
    <3>1. baseline.at = 0 /\ watching # "probing" /\ ~excused.watch
      BY <1>2, <2>2 DEF OneWatch
    <3>2. CASE unwatched
      BY <3>1, <3>2 DEF EndsQuietly
    <3>3. CASE ~unwatched
      <4>1. late = 0
        BY <3>3 DEF EndsQuietly
      <4> QED BY <3>1, <4>1
    <3> QED BY <3>1, <3>2, <3>3
  <2>3. poll.polling \/ stream = "open" => unwatched'
    BY <1>1 DEF OneWatch
  <2> QED BY <1>1, <1>3, <2>1, <2>2, <2>3 DEF EndsQuietly
<1>7. PollKeepsUp'
  BY <1>1 DEF PollKeepsUp, OneWatch
<1> QED BY <1>3, <1>4, <1>5, <1>6, <1>7

\* unwatchFiles() leaves the sandbox, dispose() hands it over to be killed.
LEMMA EndStep ==
    ASSUME SandboxInv, UnwatchFiles \/ Dispose
    PROVE  SandboxInv'
<1> USE DEF SandboxInv
<1>1. /\ EndWatch
      /\ \/ UNCHANGED <<remotes, client, sandboxId, initCall, disposing>>
         \/ disposing = 0 /\ disposing' = client /\ client' = 0 /\ UNCHANGED <<remotes, sandboxId, initCall>>
  BY DEF UnwatchFiles, Dispose, sandboxVars
<1>2. /\ WatchTypes' /\ OneWatch' /\ EndsQuietly' /\ PollKeepsUp'
      /\ excused' \in [overlap : BOOLEAN, kill : BOOLEAN, watch : BOOLEAN]
      /\ excused'.overlap = excused.overlap /\ excused'.kill = excused.kill
  BY <1>1, WatchEnds
<1>3. SandboxTypes'
  BY <1>1, <1>2 DEF SandboxTypes
<1>4. UnderWay' = UnderWay
  BY <1>1 DEF UnderWay
<1>5. OneSandbox'
  <2>1. \A r \in DOMAIN remotes : r # 0
    BY DEF SandboxTypes
  <2> QED BY <1>1, <1>2, <1>4, <2>1 DEF OneSandbox
<1> QED BY <1>2, <1>3, <1>5

\* watchFiles() begins with a probe, or with a stat of each path.
LEMMA WatchFilesStep ==
    ASSUME SandboxInv, WatchFiles
    PROVE  SandboxInv'
<1> USE DEF SandboxInv
<1>1. /\ watching = "idle" /\ ~unwatched
      /\ UNCHANGED <<mtime, entry, poll, stream, heard, dueMtimes, late, unwatched>>
      /\ UNCHANGED <<sandboxVars, excused>>
      /\ \/ watching' \in {"failed", "probing"} /\ baseline' = baseline
         \/ watching' = "polling" /\ baseline' = [at |-> 1, mtimes |-> AllZero]
  BY DEF WatchFiles, StartPollingWatcher
<1>2. SandboxTypes' /\ OneSandbox'
  BY <1>1, SandboxStays
<1>3. /\ baseline' \in [at : Paths \cup {0}, mtimes : [Paths -> Nat]]
      /\ baseline' = baseline \/ \A p \in Paths : baseline'.mtimes[p] = 0
  BY <1>1, PathsInOrder DEF WatchTypes, AllZero
<1>4. WatchTypes'
  BY <1>1, <1>3 DEF WatchTypes
<1>5. OneWatch'
  BY <1>1 DEF OneWatch
<1>6. EndsQuietly'
  BY <1>1, <1>4 DEF EndsQuietly, OneWatch
<1>7. PollKeepsUp'
  <2>1. entry' = "none" /\ baseline.at = 0 /\ \A p \in Paths : 0 <= mtime'[p]
    BY <1>1 DEF OneWatch, WatchTypes
  <2> QED BY <1>1, <1>3, <2>1 DEF PollKeepsUp
<1> QED BY <1>2, <1>4, <1>5, <1>6, <1>7

\* The stream begins, the poller is started, or the watch has failed.
LEMMA ProbeReturnsStep ==
    ASSUME SandboxInv, ProbeReturns
    PROVE  SandboxInv'
<1> USE DEF SandboxInv
<1>1. /\ watching = "probing"
      /\ UNCHANGED <<mtime, poll, dueMtimes, late, unwatched>> /\ UNCHANGED <<sandboxVars, excused>>
      /\ \/ /\ watching' = "polling" /\ baseline' = [at |-> 1, mtimes |-> AllZero]
            /\ UNCHANGED <<stream, entry, heard>>
         \/ watching' = "failed" /\ UNCHANGED <<baseline, stream, entry, heard>>
         \/ /\ watching' = "returned" /\ stream' = "open" /\ entry' = "native" /\ heard' = mtime
            /\ UNCHANGED baseline
  BY DEF ProbeReturns, StartPollingWatcher
<1>2. SandboxTypes' /\ OneSandbox'
  BY <1>1, SandboxStays
<1>3. /\ baseline' \in [at : Paths \cup {0}, mtimes : [Paths -> Nat]]
      /\ baseline' = baseline \/ \A p \in Paths : baseline'.mtimes[p] = 0
  BY <1>1, PathsInOrder DEF WatchTypes, AllZero
<1>4. entry = "none" /\ baseline.at = 0 /\ stream = "none" /\ ~poll.polling
  BY <1>1 DEF OneWatch
<1>5. WatchTypes'
  BY <1>1, <1>3 DEF WatchTypes
<1>6. OneWatch'
  BY <1>1, <1>4 DEF OneWatch
<1>7. EndsQuietly'
  BY <1>1, <1>4 DEF EndsQuietly
<1>8. PollKeepsUp'
  <2>1. entry' # "polling" /\ \A p \in Paths : 0 <= mtime'[p]
    BY <1>1, <1>4 DEF WatchTypes
  <2> QED BY <1>1, <1>3, <1>4, <2>1 DEF PollKeepsUp
<1> QED BY <1>2, <1>5, <1>6, <1>7, <1>8

\* What the poller starts from is no later than the present.
LEMMA BaselineStatStep ==
    ASSUME SandboxInv, BaselineStat
    PROVE  SandboxInv'
<1> USE DEF SandboxInv
<1>1. /\ baseline.at # 0 /\ UNCHANGED <<mtime, stream, late, unwatched>> /\ UNCHANGED <<sandboxVars, excused>>
  BY DEF BaselineStat
<1>2. PICK b, g, ms : /\ b \in Paths /\ b = baseline.at /\ g = baseline.mtimes /\ g \in [Paths -> Nat]
                                /\ ms = [g EXCEPT ![b] = Stat(b)]
  BY <1>1 DEF WatchTypes
<1>3. \/ /\ b + 1 \in Paths /\ baseline' = [at |-> b + 1, mtimes |-> ms]
         /\ UNCHANGED <<entry, poll, heard, dueMtimes, watching>>
      \/ /\ baseline' = [at |-> 0, mtimes |-> AllZero] /\ entry' = "polling"
         /\ poll' = [polling |-> TRUE, pending |-> FALSE, at |-> 1, read |-> <<>>, lastMtimes |-> ms]
         /\ heard' = ms /\ dueMtimes' = ms /\ watching' = "returned"
  BY <1>2 DEF BaselineStat
<1>4. /\ ms \in [Paths -> Nat]
      /\ \A p \in Paths : ms[p] = g[p] \/ ms[p] = Stat(p)
  BY <1>2, StatGives
<1>5. SandboxTypes' /\ OneSandbox' /\ Alive' = Alive
  BY <1>1, SandboxStays
<1>6. /\ entry = "none" /\ ~poll.polling /\ stream # "open"
      /\ watching \notin {"idle", "not wanted", "probing", "failed"} /\ (unwatched => excused.watch)
  BY <1>1 DEF OneWatch, EndsQuietly
<1>7. AllZero \in [Paths -> Nat] /\ 1 \in Paths
  BY PathsInOrder DEF AllZero
<1>8. WatchTypes'
  <2>1. baseline' \in [at : Paths \cup {0}, mtimes : [Paths -> Nat]]
    BY <1>3, <1>4, <1>7
  <2>2. poll' \in PollStates /\ (poll'.polling => poll'.at # 0) /\ (poll'.read # <<>> => poll'.polling)
    <3>1. CASE poll' = poll
      BY <3>1 DEF WatchTypes
    <3>2. CASE poll' = [polling |-> TRUE, pending |-> FALSE, at |-> 1, read |-> <<>>, lastMtimes |-> ms]
      BY <1>4, <1>7, <3>2 DEF PollStates
    <3> QED BY <1>3, <3>1, <3>2
  <2> QED BY <1>1, <1>3, <1>4, <2>1, <2>2 DEF WatchTypes
<1>9. OneWatch' /\ EndsQuietly'
  <2>1. CASE /\ b + 1 \in Paths /\ baseline' = [at |-> b + 1, mtimes |-> ms]
             /\ UNCHANGED <<entry, poll, heard, dueMtimes, watching>>
    BY <1>1, <1>6, <2>1 DEF OneWatch, EndsQuietly
  <2>2. CASE baseline'.at = 0 /\ entry' = "polling" /\ watching' = "returned"
    BY <1>1, <1>6, <2>2 DEF OneWatch, EndsQuietly
  <2> QED BY <1>3, <2>1, <2>2
<1>11. PollKeepsUp'
  <2> SUFFICES ASSUME ~excused.overlap, ~unwatched PROVE PollKeepsUp'
    BY <1>1 DEF PollKeepsUp
  <2>1. \A p \in Paths : ms[p] <= mtime[p] /\ (client = 0 => ms[p] = 0)
    <3>1. \A p \in Paths : g[p] <= mtime[p] /\ (client = 0 => g[p] = 0)
      BY <1>1, <1>2 DEF PollKeepsUp
    <3> QED BY <1>4, <3>1, StatGives
  <2>2. client' = client
    BY <1>1 DEF sandboxVars
  <2>3. CASE b + 1 \in Paths /\ baseline' = [at |-> b + 1, mtimes |-> ms] /\ entry' = entry
    BY <1>1, <1>6, <2>1, <2>2, <2>3 DEF PollKeepsUp
  <2>4. CASE /\ baseline' = [at |-> 0, mtimes |-> AllZero] /\ entry' = "polling"
             /\ poll' = [polling |-> TRUE, pending |-> FALSE, at |-> 1, read |-> <<>>, lastMtimes |-> ms]
             /\ heard' = ms /\ dueMtimes' = ms
    <3>1. \A p \in Paths : ~(p < 1)
      BY PathsInOrder
    <3> QED BY <1>1, <2>1, <2>2, <2>4, <3>1 DEF PollKeepsUp
  <2> QED BY <1>3, <2>3, <2>4
<1> QED BY <1>5, <1>8, <1>9, <1>11

\* The timer asks for a poll, and for another one while a poll is running.
LEMMA TimerFiresStep ==
    ASSUME SandboxInv, TimerFires
    PROVE  SandboxInv'
<1> USE DEF SandboxInv
<1>1. /\ entry = "polling" /\ dueMtimes' = [p \in Paths |-> Stat(p)]
      /\ UNCHANGED <<mtime, watching, entry, baseline, stream, heard, late, unwatched>>
      /\ UNCHANGED <<sandboxVars, excused>>
      /\ poll' = [poll EXCEPT !.pending = poll.polling, !.polling = TRUE,
                              !.at = IF poll.polling THEN @ ELSE 1]
  BY DEF TimerFires
<1>2. poll \in PollStates /\ poll.polling \in BOOLEAN /\ (poll.polling => poll.at # 0) /\ (poll.read # <<>> => poll.polling)
  BY DEF WatchTypes, PollStates
<1>3. PICK a : a = (IF poll.polling THEN poll.at ELSE 1) /\ a \in Paths
  BY <1>2, PathsInOrder DEF PollStates
<1>4. poll' = [polling |-> TRUE, pending |-> poll.polling, at |-> a, read |-> poll.read,
               lastMtimes |-> poll.lastMtimes]
  <2>1. PICK u : u = [poll EXCEPT !.pending = poll.polling]
    OBVIOUS
  <2>2. u = [polling |-> poll.polling, pending |-> poll.polling, at |-> poll.at, read |-> poll.read,
             lastMtimes |-> poll.lastMtimes]
    BY <1>2, <2>1 DEF PollStates
  <2>3. PICK v : v = [u EXCEPT !.polling = TRUE]
    OBVIOUS
  <2>4. v = [polling |-> TRUE, pending |-> poll.polling, at |-> poll.at, read |-> poll.read,
             lastMtimes |-> poll.lastMtimes]
    BY <2>2, <2>3
  <2>5. poll' = [v EXCEPT !.at = IF poll.polling THEN @ ELSE 1]
    BY <1>1, <2>1, <2>3
  <2> QED BY <1>3, <2>4, <2>5
<1>5. SandboxTypes' /\ OneSandbox' /\ Alive' = Alive
  BY <1>1, SandboxStays
<1>6. WatchTypes'
  <2>1. poll' \in PollStates /\ poll'.at # 0 /\ poll'.polling
    BY <1>2, <1>3, <1>4, PathsInOrder DEF PollStates
  <2>2. dueMtimes' \in [Paths -> Nat]
    BY <1>1, StatGives
  <2> QED BY <1>1, <2>1, <2>2 DEF WatchTypes
<1>7. stream # "open" /\ baseline.at = 0 /\ watching \notin {"idle", "not wanted", "probing", "polling", "failed"}
  BY <1>1 DEF OneWatch
<1>8. OneWatch'
  BY <1>1, <1>7 DEF OneWatch
<1>9. EndsQuietly'
  BY <1>1, <1>7 DEF EndsQuietly
<1>10. PollKeepsUp'
  <2> SUFFICES ASSUME ~excused.overlap, ~unwatched PROVE PollKeepsUp'
    BY <1>1 DEF PollKeepsUp
  <2>1. client' = client
    BY <1>1 DEF sandboxVars
  <2>2. \A p \in Paths : dueMtimes'[p] <= mtime[p] /\ (client = 0 => dueMtimes'[p] = 0)
    BY <1>1, StatGives
  <2>3. \A p \in Paths : heard[p] = poll.lastMtimes[p]
    BY <1>1 DEF PollKeepsUp
  <2>4. ~poll.polling => a = 1 /\ poll.read = <<>> /\ \A p \in Paths : ~(p < a)
    BY <1>2, <1>3, PathsInOrder
  <2>5. /\ poll'.polling /\ poll'.pending = poll.polling /\ poll'.at = a /\ poll'.read = poll.read
        /\ poll'.lastMtimes = poll.lastMtimes
    BY <1>4
  <2> QED BY <1>1, <1>7, <2>1, <2>2, <2>3, <2>4, <2>5 DEF PollKeepsUp
<1> QED BY <1>5, <1>6, <1>8, <1>9, <1>10

\* A poll reads the present time.
LEMMA PollReadsStep ==
    ASSUME SandboxInv, PollReads
    PROVE  SandboxInv'
<1> USE DEF SandboxInv
<1>1. /\ poll.polling /\ poll.read = <<>>
      /\ UNCHANGED <<mtime, watching, entry, baseline, stream, heard, dueMtimes, late, unwatched>>
      /\ UNCHANGED <<sandboxVars, excused>>
  BY DEF PollReads
<1>2. poll \in PollStates /\ poll.at \in Paths /\ poll.at # 0
  BY <1>1 DEF WatchTypes, PollStates
<1>3. PICK m, e : m = Stat(poll.at) /\ m \in Nat /\ e = <<m>> /\ poll' = [poll EXCEPT !.read = e]
  BY <1>2, StatGives DEF PollReads
<1>4. e[1] = m /\ e \in {<<k>> : k \in Nat}
  BY <1>3
<1>5. /\ poll' \in PollStates /\ poll'.polling = poll.polling /\ poll'.pending = poll.pending
      /\ poll'.at = poll.at /\ poll'.lastMtimes = poll.lastMtimes /\ poll'.read = e
  BY <1>2, <1>3, <1>4 DEF PollStates
<1>6. SandboxTypes' /\ OneSandbox' /\ Alive' = Alive
  BY <1>1, SandboxStays
<1>7. WatchTypes' /\ OneWatch' /\ EndsQuietly'
  BY <1>1, <1>2, <1>5 DEF WatchTypes, OneWatch, EndsQuietly
<1>8. PollKeepsUp'
  <2> SUFFICES ASSUME ~excused.overlap, ~unwatched PROVE PollKeepsUp'
    BY <1>1 DEF PollKeepsUp
  <2>1. client' = client
    BY <1>1 DEF sandboxVars
  <2>2. ASSUME entry = "polling", Alive PROVE e[1] >= dueMtimes[poll.at]
    <3>1. m = mtime[poll.at]
      BY <1>2, <1>3, <2>2, StatOfLive
    <3>2. dueMtimes[poll.at] <= mtime[poll.at] /\ dueMtimes[poll.at] \in Nat /\ mtime[poll.at] \in Nat
      BY <1>2, <2>2 DEF PollKeepsUp, WatchTypes
    <3> QED BY <1>4, <3>1, <3>2
  <2> QED BY <1>1, <1>5, <1>6, <2>1, <2>2 DEF PollKeepsUp
<1> QED BY <1>6, <1>7, <1>8

\* How the poll goes on.
LEMMA PollGoesOn ==
    ASSUME WatchTypes, poll.read # <<>>, NEW watched \in BOOLEAN
    PROVE  LET q == GoesOn(watched) IN
           /\ q \in PollStates /\ q.read = <<>> /\ (q.polling => q.at # 0)
           /\ q.lastMtimes = [poll.lastMtimes EXCEPT ![poll.at] = poll.read[1]]
           /\ \/ watched /\ poll.at + 1 \in Paths /\ q.at = poll.at + 1 /\ q.pending = poll.pending /\ q.polling
              \/ watched /\ poll.pending /\ q.at = 1 /\ ~q.pending /\ q.polling
              \/ /\ ~watched \/ (poll.at + 1 \notin Paths /\ ~poll.pending)
                 /\ q.pending = poll.pending /\ ~q.polling
<1>1. poll \in PollStates /\ poll.polling /\ poll.at \in Paths /\ poll.read[1] \in Nat
  BY PollHasRead DEF WatchTypes
<1>2. PICK g : g = [poll.lastMtimes EXCEPT ![poll.at] = poll.read[1]] /\ g \in [Paths -> Nat]
  <2>1. poll.lastMtimes \in [Paths -> Nat]
    BY <1>1 DEF PollStates
  <2> QED BY <1>1, <2>1
<1>3. PICK n : n = [poll EXCEPT !.read = <<>>, !.lastMtimes[poll.at] = poll.read[1]]
  OBVIOUS
<1>4. n = [polling |-> TRUE, pending |-> poll.pending, at |-> poll.at, read |-> <<>>, lastMtimes |-> g]
  <2>1. PICK u : u = [poll EXCEPT !.read = <<>>]
    OBVIOUS
  <2>2. u = [polling |-> TRUE, pending |-> poll.pending, at |-> poll.at, read |-> <<>>,
             lastMtimes |-> poll.lastMtimes]
    BY <1>1, <2>1 DEF PollStates
  <2>3. n = [u EXCEPT !.lastMtimes = g]
    BY <1>2, <1>3, <2>1, <2>2
  <2> QED BY <2>2, <2>3
<1>5. poll.pending \in BOOLEAN
  BY <1>1 DEF PollStates
<1>6. PICK q : q = GoesOn(watched)
  OBVIOUS
<1>7. CASE watched /\ poll.at + 1 \in Paths
  <2>1. q = [n EXCEPT !.at = @ + 1]
    BY <1>3, <1>6, <1>7 DEF GoesOn
  <2>2. q = [polling |-> TRUE, pending |-> poll.pending, at |-> poll.at + 1, read |-> <<>>, lastMtimes |-> g]
    BY <1>4, <2>1
  <2>3. q \in PollStates /\ q.at # 0
    BY <1>2, <1>5, <1>7, <2>2, PathsInOrder DEF PollStates
  <2>4. q.read = <<>> /\ q.lastMtimes = g /\ q.polling /\ q.at = poll.at + 1 /\ q.pending = poll.pending
    BY <2>2
  <2> QED BY <1>2, <1>6, <1>7, <2>3, <2>4
<1>8. CASE watched /\ poll.at + 1 \notin Paths /\ poll.pending
  <2>1. q = [n EXCEPT !.at = 1, !.pending = FALSE]
    BY <1>3, <1>6, <1>8 DEF GoesOn
  <2>2. q = [polling |-> TRUE, pending |-> FALSE, at |-> 1, read |-> <<>>, lastMtimes |-> g]
    BY <1>4, <2>1
  <2>3. q \in PollStates /\ q.at # 0
    BY <1>2, <2>2, PathsInOrder DEF PollStates
  <2>4. q.read = <<>> /\ q.lastMtimes = g /\ q.polling /\ q.at = 1 /\ q.pending = FALSE
    BY <2>2
  <2> QED BY <1>2, <1>6, <1>8, <2>3, <2>4
<1>9. CASE ~watched \/ (poll.at + 1 \notin Paths /\ ~poll.pending)
  <2>1. q = [n EXCEPT !.at = 0, !.polling = FALSE]
    BY <1>3, <1>6, <1>9 DEF GoesOn
  <2>2. q = [polling |-> FALSE, pending |-> poll.pending, at |-> 0, read |-> <<>>, lastMtimes |-> g]
    BY <1>4, <2>1
  <2>3. q \in PollStates
    BY <1>2, <1>5, <2>2 DEF PollStates
  <2> QED BY <1>2, <1>6, <1>9, <2>2, <2>3
<1> QED BY <1>5, <1>7, <1>8, <1>9

\* The listener hears of what the poll has read.
LEMMA PollReturnsStep ==
    ASSUME SandboxInv, PollReturns
    PROVE  SandboxInv'
<1> USE DEF SandboxInv
<1>1. /\ poll.polling /\ poll.read # <<>>
      /\ UNCHANGED <<mtime, watching, entry, baseline, stream, dueMtimes, unwatched>>
      /\ UNCHANGED <<sandboxVars, excused>>
  BY DEF PollReturns
<1>2. PICK a, m, g : /\ a \in Paths /\ m \in Nat /\ a = poll.at /\ m = poll.read[1]
                     /\ g = poll.lastMtimes /\ g \in [Paths -> Nat]
  BY <1>1, PollHasRead DEF WatchTypes, PollStates
<1>3. PICK w \in BOOLEAN : w = (entry = "polling")
  OBVIOUS
<1>4. /\ poll' \in PollStates /\ poll'.read = <<>> /\ (poll'.polling => poll'.at # 0)
      /\ poll'.lastMtimes = [g EXCEPT ![a] = m]
      /\ \/ w /\ a + 1 \in Paths /\ poll'.at = a + 1 /\ poll'.pending = poll.pending /\ poll'.polling
         \/ w /\ poll.pending /\ poll'.at = 1 /\ ~poll'.pending /\ poll'.polling
         \/ /\ ~w \/ (a + 1 \notin Paths /\ ~poll.pending)
            /\ poll'.pending = poll.pending /\ ~poll'.polling
  <2>1. poll' = GoesOn(w)
    BY <1>3 DEF PollReturns
  <2>2. PICK q : q = GoesOn(w) /\ q = poll'
    BY <2>1
  <2> QED BY <1>1, <1>2, <2>2, PollGoesOn
<1>5. \/ m = g[a] /\ UNCHANGED <<heard, late>>
      \/ heard' = [heard EXCEPT ![a] = m] /\ late' = late + (IF unwatched THEN 1 ELSE 0)
  BY <1>2 DEF PollReturns, Heard
<1>6. /\ heard' \in [Paths -> Nat] /\ late' \in Nat /\ late' <= late + 1 /\ (~unwatched => late' = late)
  <2>1. late \in Nat /\ heard \in [Paths -> Nat]
    BY DEF WatchTypes
  <2>2. CASE UNCHANGED <<heard, late>>
    BY <2>1, <2>2
  <2>3. CASE heard' = [heard EXCEPT ![a] = m] /\ late' = late + (IF unwatched THEN 1 ELSE 0)
    BY <1>2, <2>1, <2>3
  <2> QED BY <1>5, <2>2, <2>3
<1>7. SandboxTypes' /\ OneSandbox' /\ Alive' = Alive
  BY <1>1, SandboxStays
<1>8. WatchTypes'
  BY <1>1, <1>4, <1>6 DEF WatchTypes
<1>9. OneWatch'
  BY <1>1, <1>4 DEF OneWatch
<1>10. EndsQuietly'
  <2>1. ~unwatched => late' = 0
    BY <1>6 DEF EndsQuietly
  <2>2. ASSUME unwatched, ~excused.watch
        PROVE  ~poll'.polling /\ stream # "open" /\ late' <= 1
    <3>1. entry = "none" /\ late = 0
      BY <1>1, <2>2 DEF EndsQuietly
    <3>2. ~poll'.polling /\ stream # "open"
      BY <1>1, <1>3, <1>4, <3>1 DEF OneWatch
    <3> QED BY <1>6, <3>1, <3>2
  <2>3. poll'.polling => entry = "polling"
    BY <1>3, <1>4
  <2>4. stream # "open"
    BY <1>1 DEF OneWatch
  <2>5. unwatched /\ ~excused.watch => entry = "none" /\ baseline.at = 0 /\ watching # "probing"
    BY DEF EndsQuietly
  <2> QED BY <1>1, <2>1, <2>2, <2>3, <2>4, <2>5 DEF EndsQuietly
<1>11. PollKeepsUp'
  <2> SUFFICES ASSUME ~excused.overlap, ~unwatched PROVE PollKeepsUp'
    BY <1>1 DEF PollKeepsUp
  <2>1. client' = client
    BY <1>1 DEF sandboxVars
  <2>2. baseline.at = 0
    BY <1>1 DEF OneWatch
  <2>3. ASSUME entry = "polling"
        PROVE  /\ \A p \in Paths : heard'[p] = poll'.lastMtimes[p]
               /\ heard'[a] = m /\ \A p \in Paths : p # a => heard'[p] = heard[p]
    <3>1. \A p \in Paths : heard[p] = g[p]
      BY <1>2, <2>3 DEF PollKeepsUp
    <3>2. heard \in [Paths -> Nat]
      BY DEF WatchTypes
    <3>3. \A p \in Paths : poll'.lastMtimes[p] = IF p = a THEN m ELSE g[p]
      BY <1>2, <1>4
    <3>4. \A p \in Paths : heard'[p] = IF p = a THEN m ELSE heard[p]
      BY <1>2, <1>5, <3>1, <3>2
    <3> QED BY <1>2, <3>1, <3>3, <3>4
  <2>4. ASSUME entry = "polling", Alive, ~poll'.pending, NEW p \in Paths, ~poll'.polling \/ p < poll'.at
        PROVE  heard'[p] >= dueMtimes[p]
    <3>1. ~poll.pending
      <4>1. CASE poll'.at = 1
        BY <2>4, <4>1, PathsInOrder, <1>3, <1>4
      <4> QED BY <1>3, <1>4, <2>4, <4>1, PathsInOrder
    <3>2. p < a \/ p = a
      <4>1. CASE a + 1 \in Paths /\ poll'.at = a + 1
        <5>1. p \in Nat /\ a \in Nat /\ (p < a + 1 => p < a \/ p = a)
          BY <1>2, PathsInOrder
        <5>2. p < a + 1 \/ ~poll'.polling
          BY <2>4, <4>1
        <5>3. poll'.polling \/ a + 1 \notin Paths
          BY <1>3, <1>4, <2>4
        <5> QED BY <4>1, <5>1, <5>2, <5>3
      <4>2. CASE a + 1 \notin Paths
        BY <1>2, <4>2, PathsInOrder
      <4>3. CASE poll'.at = 1 /\ poll'.polling
        BY <2>4, <4>3, PathsInOrder
      <4> QED BY <1>3, <1>4, <2>4, <4>1, <4>2, <4>3
    <3>3. m >= dueMtimes[a] /\ (p < a => heard[p] >= dueMtimes[p])
      BY <1>1, <1>2, <2>4, <3>1 DEF PollKeepsUp
    <3> QED BY <1>2, <2>3, <2>4, <3>2, <3>3
  <2>5. entry = "polling" /\ poll'.pending => poll'.polling
    BY <1>3, <1>4
  <2> QED BY <1>1, <1>4, <1>7, <2>1, <2>2, <2>3, <2>4, <2>5 DEF PollKeepsUp
<1> QED BY <1>7, <1>8, <1>9, <1>10, <1>11

\* The stream ends: a poller is started in its place, unless the watch was ended.
LEMMA WatchStreamEndsStep ==
    ASSUME SandboxInv, WatchStreamEnds
    PROVE  SandboxInv'
<1> USE DEF SandboxInv
<1>1. /\ stream = "open" /\ stream' = "over"
      /\ UNCHANGED <<mtime, watching, poll, dueMtimes, unwatched>> /\ UNCHANGED <<sandboxVars, excused>>
      /\ \/ entry = "native" /\ entry' = "none" /\ baseline' = [at |-> 1, mtimes |-> AllZero]
         \/ entry # "native" /\ UNCHANGED <<entry, baseline>>
  BY DEF WatchStreamEnds, StartPollingWatcher
<1>2. heard' \in [Paths -> Nat] /\ late' \in Nat /\ late' <= late + 1 /\ (~unwatched => late' = late)
  <2>0. late \in Nat /\ heard \in [Paths -> Nat] /\ mtime \in [Paths -> Nat]
    BY DEF WatchTypes
  <2>1. CASE UNCHANGED <<heard, late>>
    BY <2>0, <2>1
  <2>2. ASSUME NEW p \in Paths, Heard(p, mtime[p])
        PROVE  heard' \in [Paths -> Nat] /\ late' \in Nat /\ late' <= late + 1 /\ (~unwatched => late' = late)
    BY <2>0, <2>2 DEF Heard
  <2> QED BY <2>1, <2>2 DEF WatchStreamEnds
<1>3. SandboxTypes' /\ OneSandbox'
  BY <1>1, SandboxStays
<1>4. /\ baseline' \in [at : Paths \cup {0}, mtimes : [Paths -> Nat]]
      /\ baseline' = baseline \/ \A p \in Paths : baseline'.mtimes[p] = 0
  <2>1. CASE baseline' = baseline
    BY <2>1 DEF WatchTypes
  <2>2. CASE baseline' = [at |-> 1, mtimes |-> AllZero]
    BY <2>2, PathsInOrder DEF AllZero
  <2> QED BY <1>1, <2>1, <2>2
<1>5. WatchTypes'
  BY <1>1, <1>2, <1>4 DEF WatchTypes
<1>6. entry # "polling" /\ baseline.at = 0 /\ ~poll.polling /\ watching = "returned"
  BY <1>1 DEF OneWatch, WatchTypes
<1>7. OneWatch'
  BY <1>1, <1>6 DEF OneWatch
<1>8. EndsQuietly'
  <2>1. ~unwatched => late' = 0
    BY <1>2 DEF EndsQuietly
  <2>2. ASSUME unwatched, ~excused.watch PROVE entry = "none" /\ late' <= 1
    <3>1. entry = "none" /\ late = 0
      BY <1>1, <2>2 DEF EndsQuietly
    <3> QED BY <1>2, <3>1
  <2>3. entry = "none" => entry' = "none" /\ baseline'.at = 0
    BY <1>1, <1>6
  <2>4. entry' = "polling" => entry = "polling"
    BY <1>1
  <2> QED BY <1>1, <1>6, <2>1, <2>2, <2>3, <2>4 DEF EndsQuietly
<1>9. PollKeepsUp'
  <2>1. entry' # "polling" /\ \A p \in Paths : 0 <= mtime'[p]
    BY <1>1, <1>6 DEF WatchTypes
  <2> QED BY <1>1, <1>4, <1>6, <2>1 DEF PollKeepsUp
<1> QED BY <1>3, <1>5, <1>7, <1>8, <1>9

\* A file changes: its time goes up.
LEMMA FileChangesStep ==
    ASSUME SandboxInv, NEW p \in Paths, FileChanges(p)
    PROVE  SandboxInv'
<1> USE DEF SandboxInv
<1>1. /\ mtime' = [mtime EXCEPT ![p] = @ + 1]
      /\ heard' = IF stream = "open" /\ ~aborted THEN [heard EXCEPT ![p] = mtime'[p]] ELSE heard
      /\ UNCHANGED <<watching, entry, baseline, poll, stream, dueMtimes, late, unwatched>>
      /\ UNCHANGED <<sandboxVars, excused>>
  BY DEF FileChanges
<1>2. /\ mtime' \in [Paths -> Nat] /\ \A q \in Paths : mtime[q] <= mtime'[q] /\ mtime[q] \in Nat
  <2>1. mtime \in [Paths -> Nat]
    BY DEF WatchTypes
  <2>2. \A q \in Paths : mtime'[q] = (IF q = p THEN mtime[q] + 1 ELSE mtime[q]) /\ mtime[q] \in Nat
    BY <1>1, <2>1
  <2>3. mtime' \in [Paths -> Nat]
    BY <1>1, <2>1
  <2>4. \A k \in Nat : k <= k + 1 /\ k <= k
    OBVIOUS
  <2> QED BY <2>2, <2>3, <2>4
<1>3. heard' \in [Paths -> Nat] /\ (stream # "open" => heard' = heard)
  BY <1>1, <1>2 DEF WatchTypes
<1>4. SandboxTypes' /\ OneSandbox' /\ Alive' = Alive
  BY <1>1, SandboxStays
<1>5. WatchTypes' /\ OneWatch' /\ EndsQuietly'
  BY <1>1, <1>2, <1>3 DEF WatchTypes, OneWatch, EndsQuietly
<1>6. PollKeepsUp'
  <2>1. client' = client
    BY <1>1 DEF sandboxVars
  <2>2. entry = "polling" => heard' = heard
    BY <1>3 DEF OneWatch
  <2>3. \A q \in Paths, k \in Nat : k <= mtime[q] => k <= mtime'[q]
    BY <1>2
  <2>4. \A q \in Paths : dueMtimes[q] \in Nat /\ baseline.mtimes[q] \in Nat
    BY DEF WatchTypes
  <2> QED BY <1>1, <1>4, <2>1, <2>2, <2>3, <2>4 DEF PollKeepsUp
<1> QED BY <1>4, <1>5, <1>6

\* Every step keeps the watch and the sandbox looked after.
LEMMA SandboxStep == SandboxInv /\ [SandboxNext]_watcherVars => SandboxInv'
<1> SUFFICES ASSUME SandboxInv, [SandboxNext]_watcherVars PROVE SandboxInv'
  OBVIOUS
<1>1. ASSUME NEW i \in Inits, InitCalled(i) \/ InitReturns(i) PROVE SandboxInv'
  BY <1>1, InitCalledStep, InitReturnsStep
<1>2. CASE Dispose \/ KillReturns \/ UnwatchFiles
  BY <1>2, EndStep, KillReturnsStep
<1>3. CASE WatchFiles \/ ProbeReturns \/ BaselineStat \/ WatchStreamEnds
  BY <1>3, WatchFilesStep, ProbeReturnsStep, BaselineStatStep, WatchStreamEndsStep
<1>4. CASE TimerFires \/ PollReads \/ PollReturns
  BY <1>4, TimerFiresStep, PollReadsStep, PollReturnsStep
<1>5. ASSUME NEW p \in Paths, FileChanges(p) PROVE SandboxInv'
  BY <1>5, FileChangesStep
<1>6. CASE UNCHANGED watcherVars
  <2>1. UNCHANGED watchVars /\ UNCHANGED <<sandboxVars, excused>>
    BY <1>6 DEF watcherVars
  <2>2. UNCHANGED <<client, excused>>
    BY <2>1 DEF sandboxVars
  <2>3. SandboxTypes' /\ OneSandbox' /\ Alive' = Alive
    BY <2>1, SandboxStays
  <2> QED BY <2>1, <2>2, <2>3, WatchStays DEF SandboxInv
<1> QED BY <1>1, <1>2, <1>3, <1>4, <1>5, <1>6 DEF SandboxNext

\* No tick of a watch's timer is lost, a watch that was ended is quiet, and a
\* sandbox that was disposed of is killed, for any number of paths and of calls.
THEOREM SandboxLookedAfter == SandboxSpec => []SandboxKept
<1>1. SandboxInv => SandboxKept
  <2> SUFFICES ASSUME SandboxInv PROVE SandboxKept
    OBVIOUS
  <2>1. TicksAreHeeded
    BY DEF SandboxInv, PollKeepsUp, TicksAreHeeded, Alive
  <2>2. UnwatchedIsQuiet
    BY DEF SandboxInv, EndsQuietly, UnwatchedIsQuiet, WatchTypes
  <2>3. NoneLeftRunning
    <3> SUFFICES ASSUME client = 0, disposing = 0, ~excused.overlap, ~excused.kill, NEW r \in DOMAIN remotes
                 PROVE  remotes[r] = "killed"
      BY DEF NoneLeftRunning
    <3>1. r # 0 /\ remotes[r] \in {"running", "killed"}
      BY DEF SandboxInv, SandboxTypes
    <3> QED BY <3>1 DEF SandboxInv, OneSandbox
  <2> QED BY <2>1, <2>2, <2>3 DEF SandboxKept
<1>2. SandboxInv /\ [SandboxNext]_watcherVars => SandboxInv'
  BY SandboxStep
<1> QED BY <1>1, <1>2, SandboxInitHolds, PTL DEF SandboxSpec

-----------------------------------------------------------------------------
(* Timers and step tasks (Timers).                                         *)

TimerTypes ==
    /\ now \in Nat /\ offset \in Int /\ timers \subseteq Timer
    /\ armed \in [Timer -> Int] /\ due \in [Timer -> Int] /\ interval \in [Timer -> Nat]
    /\ ticks \in [Timer -> Seq([due : Int, at : Int])]
    /\ lastTriggered \in Int /\ stepCount \in Nat /\ triggers \in Seq(Int)

\* The timeout that is armed comes a period after the last tick.
NextTickApart ==
    \A t \in Repeating : t \in timers /\ interval[t] <= DelayLimit /\ ticks[t] # <<>>
        => armed[t] - ticks[t][Len(ticks[t])].at >= interval[t]

\* A cron timer is armed for a day's time, and not before it comes; that time is
\* a day after the one of its last tick.  A clock that is set back would let it
\* fire before, and arm it for the same day again.
NextDayApart ==
    \A t \in Daily : t \in timers =>
        /\ interval[t] = Day
        /\ \E day \in Int : due[t] = day * Day + MinuteOfDay
        /\ offset >= 0 => /\ armed[t] + offset >= due[t]
                          /\ ticks[t] # <<>> => due[t] - ticks[t][Len(ticks[t])].due >= Day

\* The task remembers the step that triggered it last.
LastTriggerKnown ==
    triggers # <<>> => lastTriggered = triggers[Len(triggers)] /\ lastTriggered # NoStep

ClockIInv == /\ OnlyLiveTimersArmed /\ PeriodsKept /\ OncePerDay
             /\ NextTickApart /\ NextDayApart
StepIInv == StepsApart /\ LastTriggerKnown

-----------------------------------------------------------------------------
\* No timer is armed, and no task registered, when an agent is built.
LEMMA TimerInitHolds == TimerInit => TimerTypes /\ ClockIInv /\ StepIInv
BY TimerAssumption DEF TimerInit, TimerTypes, ClockIInv, StepIInv, OnlyLiveTimersArmed, PeriodsKept,
   OncePerDay, NextTickApart, NextDayApart, StepsApart, LastTriggerKnown, Timer, Never, NoStep

\* A number is less than a day above the last multiple of a day, and two
\* multiples of a day that differ are a day apart.
LEMMA Days ==
    /\ \A w \in Int : w \div Day \in Int /\ (w \div Day) * Day \in Int
                      /\ (w \div Day) * Day <= w /\ w < (w \div Day) * Day + Day
    /\ \A j, k \in Int : j * Day > k * Day => j * Day >= k * Day + Day
    /\ \A k \in Int : (k + 1) * Day = k * Day + Day
<1>1. Day \in Nat \ {0}
  BY TimerAssumption
<1>2. ASSUME NEW w \in Int PROVE w \div Day \in Int /\ (w \div Day) * Day \in Int
                                 /\ (w \div Day) * Day <= w /\ w < (w \div Day) * Day + Day
  BY <1>1
<1>3. ASSUME NEW j \in Int, NEW k \in Int, j * Day > k * Day PROVE j * Day >= k * Day + Day
  BY <1>1, <1>3
<1>4. ASSUME NEW k \in Int PROVE (k + 1) * Day = k * Day + Day
  BY <1>1
<1> QED BY <1>2, <1>3, <1>4

\* The next time of a cron expression is one of its times, after now and no more
\* than a day away.
LEMMA NextOccurrenceIs ==
    ASSUME TimerTypes
    PROVE  /\ NextOccurrence \in Int /\ NextOccurrence > Wall /\ NextOccurrence - Wall <= Day
           /\ \E day \in Int : NextOccurrence = day * Day + MinuteOfDay
<1>1. Wall \in Int
  BY DEF TimerTypes, Wall
<1>2. PICK w \in Int : w = Wall
  BY <1>1
<1>3. PICK d \in Int : d = w \div Day
  BY <1>2, Days
<1>4. PICK b \in Int : b = d * Day /\ b <= w /\ w < b + Day /\ (d + 1) * Day = b + Day
  BY <1>2, <1>3, Days
<1>5. NextOccurrence = IF b + MinuteOfDay <= w THEN b + MinuteOfDay + Day ELSE b + MinuteOfDay
  BY <1>2, <1>3, <1>4 DEF NextOccurrence
<1>6. MinuteOfDay \in Int /\ 0 <= MinuteOfDay /\ MinuteOfDay < Day /\ Day \in Int
  BY TimerAssumption
<1>7. NextOccurrence \in Int /\ NextOccurrence > w /\ NextOccurrence - w <= Day
  BY <1>4, <1>5, <1>6
<1>8. NextOccurrence = d * Day + MinuteOfDay \/ NextOccurrence = (d + 1) * Day + MinuteOfDay
  BY <1>4, <1>5, <1>6
<1>9. d + 1 \in Int
  OBVIOUS
<1> QED BY <1>2, <1>7, <1>8, <1>9

\* What a timer is armed for, and when: at the time itself, or at once if that is
\* too far away to wait for.
LEMMA ScheduledIs ==
    ASSUME TimerTypes, NEW t \in Timer, NEW period \in Nat, t \in Daily => period = Day
    PROVE  /\ NextDue(t, period) \in Int /\ FiresAt(NextDue(t, period) - Wall) \in Int
           /\ FiresAt(NextDue(t, period) - Wall) >= now
           /\ t \in Repeating /\ period <= DelayLimit
                  => FiresAt(NextDue(t, period) - Wall) = now + period
           /\ t \in Daily => /\ NextDue(t, period) = NextOccurrence
                             /\ FiresAt(NextDue(t, period) - Wall) + offset = NextDue(t, period)
<1>1. now \in Int /\ now >= 0 /\ offset \in Int /\ Wall = now + offset /\ DelayLimit \in Int /\ Day <= DelayLimit
      /\ Day \in Int
  BY TimerAssumption DEF TimerTypes, Wall
<1>2. CASE t \in Repeating
  <2>1. NextDue(t, period) = Wall + period
    BY <1>2 DEF NextDue
  <2>2. NextDue(t, period) - Wall = period
    BY <1>1, <2>1
  <2>3. t \notin Daily
    BY <1>2, TimerAssumption
  <2> QED BY <1>1, <1>2, <2>1, <2>2, <2>3 DEF FiresAt
<1>3. CASE t \in Daily /\ t \notin Repeating
  <2>1. NextDue(t, period) = NextOccurrence
    BY <1>3 DEF NextDue
  <2>2. NextOccurrence \in Int /\ NextOccurrence > Wall /\ NextOccurrence - Wall <= Day
    BY NextOccurrenceIs
  <2>3. PICK pause \in Int : pause = NextOccurrence - Wall /\ pause > 0 /\ pause <= DelayLimit
    BY <1>1, <2>2
  <2>4. FiresAt(NextDue(t, period) - Wall) = now + pause
    BY <1>1, <2>1, <2>3 DEF FiresAt
  <2> QED BY <1>1, <1>3, <2>1, <2>2, <2>3, <2>4
<1> QED BY <1>2, <1>3 DEF Timer

\* A timer is created: it has not ticked.
LEMMA CreateTimerKeeps ==
    ASSUME TimerTypes, ClockIInv, NEW t \in Timer, CreateTimer(t)
    PROVE  TimerTypes' /\ ClockIInv'
<1>1. PICK period \in Nat : /\ period \in (IF t \in Repeating THEN Intervals ELSE {Day})
                            /\ interval' = [interval EXCEPT ![t] = period]
                            /\ ScheduleNext(t, period)
  BY TimerAssumption DEF CreateTimer
<1>2. t \in Daily => period = Day
  BY <1>1, TimerAssumption
<1>3. PICK d \in Int : d = NextDue(t, period)
  BY <1>2, ScheduledIs
<1>4. PICK f \in Int : f = FiresAt(d - Wall)
  BY <1>2, <1>3, ScheduledIs
<1>5. /\ f >= now
      /\ t \in Daily => f + offset = d /\ \E day \in Int : d = day * Day + MinuteOfDay
  BY <1>2, <1>3, <1>4, ScheduledIs, NextOccurrenceIs
<1>6. due' = [due EXCEPT ![t] = d] /\ armed' = [armed EXCEPT ![t] = f]
  BY <1>1, <1>3, <1>4 DEF ScheduleNext
<1>7. /\ timers' = timers \cup {t} /\ armed[t] = Never /\ ticks[t] = <<>> /\ t \notin timers
      /\ UNCHANGED <<now, offset, chain, running, ticks, stepVars>>
  BY DEF CreateTimer
<1>8. TimerTypes'
  BY <1>1, <1>6, <1>7 DEF TimerTypes, stepVars
<1>9. f # Never
  BY <1>5 DEF TimerTypes, Never
<1>10. OnlyLiveTimersArmed'
  BY <1>6, <1>7, <1>9 DEF ClockIInv, OnlyLiveTimersArmed, TimerTypes
<1>11. \A u \in Timer : u # t => interval'[u] = interval[u] /\ due'[u] = due[u] /\ armed'[u] = armed[u]
                                 /\ (u \in timers' <=> u \in timers)
  BY <1>1, <1>6, <1>7 DEF TimerTypes
<1>12. Repeating \subseteq Timer /\ Daily \subseteq Timer /\ Len(<<>>) = 0
  BY DEF Timer
<1>13. PeriodsKept' /\ OncePerDay'
  <2>1. \A u \in Repeating : interval'[u] <= DelayLimit =>
           \A i \in 1..(Len(ticks[u]) - 1) : ticks[u][i + 1].at - ticks[u][i].at >= interval'[u]
    <3>1. SUFFICES ASSUME NEW u \in Repeating, interval'[u] <= DelayLimit,
                          NEW i \in 1..(Len(ticks[u]) - 1)
                   PROVE  ticks[u][i + 1].at - ticks[u][i].at >= interval'[u]
      OBVIOUS
    <3>2. CASE u = t
      BY <1>7, <1>12, <3>1, <3>2
    <3>3. CASE u # t
      BY <1>11, <1>12, <3>1, <3>3 DEF ClockIInv, PeriodsKept
    <3> QED BY <3>2, <3>3
  <2> QED BY <1>7, <2>1 DEF ClockIInv, PeriodsKept, OncePerDay
<1>14. NextTickApart'
  BY <1>7, <1>11, <1>12 DEF ClockIInv, NextTickApart
<1>15. NextDayApart'
  <2> SUFFICES ASSUME NEW u \in Daily, u \in timers'
               PROVE  /\ interval'[u] = Day
                      /\ \E day \in Int : due'[u] = day * Day + MinuteOfDay
                      /\ offset >= 0 => /\ armed'[u] + offset >= due'[u]
                                        /\ ticks[u] # <<>> => due'[u] - ticks[u][Len(ticks[u])].due >= Day
    BY <1>7 DEF NextDayApart
  <2>1. CASE u = t
    <3>1. armed'[u] = f /\ due'[u] = d
      BY <1>6, <2>1 DEF TimerTypes
    <3>2. offset \in Int
      BY DEF TimerTypes
    <3>3. interval'[u] = Day
      BY <1>1, <1>2, <2>1 DEF TimerTypes
    <3> QED BY <1>5, <1>7, <2>1, <3>1, <3>2, <3>3
  <2>2. CASE u # t
    BY <1>11, <1>12, <2>2 DEF ClockIInv, NextDayApart
  <2> QED BY <2>1, <2>2
<1> QED BY <1>8, <1>10, <1>13, <1>14, <1>15 DEF ClockIInv

\* A timer ticks: a period after it was armed, or on the time it was armed for.
LEMMA TimerTicksKeeps ==
    ASSUME TimerTypes, ClockIInv, NEW t \in Timer, TimerTicks(t)
    PROVE  TimerTypes' /\ ClockIInv'
<1>1. PICK period \in Nat : period = interval[t] /\ (t \in Daily => period = Day)
  <2>1. interval[t] \in Nat /\ t \in timers
    BY DEF TimerTypes, TimerTicks, ClockIInv, OnlyLiveTimersArmed
  <2> QED BY <2>1 DEF ClockIInv, NextDayApart
<1>2. PICK d \in Int : d = NextDue(t, period)
  BY <1>1, ScheduledIs
<1>3. PICK f \in Int : f = FiresAt(d - Wall)
  BY <1>1, <1>2, ScheduledIs
<1>4. /\ f >= now /\ (t \in Repeating /\ period <= DelayLimit => f = now + period)
      /\ t \in Daily => /\ f + offset = d /\ d = NextOccurrence /\ d > Wall
                        /\ \E day \in Int : d = day * Day + MinuteOfDay
  BY <1>1, <1>2, <1>3, ScheduledIs, NextOccurrenceIs
<1>5. due' = [due EXCEPT ![t] = d] /\ armed' = [armed EXCEPT ![t] = f]
  BY <1>1, <1>2, <1>3 DEF TimerTicks, ScheduleNext
<1>6. PICK tick \in [due : Int, at : Int] : tick = [due |-> due[t], at |-> now]
  <2>1. due[t] \in Int /\ now \in Int
    BY DEF TimerTypes
  <2> QED BY <2>1
<1>7. /\ armed[t] # Never /\ armed[t] <= now /\ ticks' = [ticks EXCEPT ![t] = Append(ticks[t], tick)]
      /\ UNCHANGED <<now, offset, interval, timers, running, stepVars>>
  BY <1>6 DEF TimerTicks
<1>8. PICK s \in Seq([due : Int, at : Int]) : s = ticks[t]
  BY DEF TimerTypes
<1>9. PICK r \in Seq([due : Int, at : Int]) : r = Append(s, tick)
  BY AppendProperties
<1>10. /\ Len(r) = Len(s) + 1 /\ r[Len(r)] = tick /\ (\A i \in 1..Len(s) : r[i] = s[i]) /\ r # <<>>
       /\ Len(s) \in Nat /\ (s = <<>> <=> Len(s) = 0)
  <2>1. Len(s) \in Nat /\ (s = <<>> <=> Len(s) = 0)
    BY EmptySeq
  <2>2. Len(r) = Len(s) + 1 /\ r[Len(r)] = tick /\ (\A i \in 1..Len(s) : r[i] = s[i]) /\ r # <<>>
    BY <1>9, <2>1, AppendProperties
  <2> QED BY <2>1, <2>2
<1>11. ticks' = [ticks EXCEPT ![t] = r]
  BY <1>7, <1>8, <1>9
<1>12. TimerTypes'
  BY <1>5, <1>7, <1>11 DEF TimerTypes, stepVars
<1>13. t \in timers
  BY <1>7 DEF ClockIInv, OnlyLiveTimersArmed
<1>14. f # Never
  BY <1>4 DEF TimerTypes, Never
<1>15. OnlyLiveTimersArmed'
  BY <1>5, <1>7, <1>13, <1>14 DEF ClockIInv, OnlyLiveTimersArmed, TimerTypes
<1>16. /\ \A u \in Timer : u # t => due'[u] = due[u] /\ armed'[u] = armed[u] /\ ticks'[u] = ticks[u]
       /\ due'[t] = d /\ armed'[t] = f /\ ticks'[t] = r
  BY <1>5, <1>11 DEF TimerTypes
<1>17. Repeating \subseteq Timer /\ Daily \subseteq Timer
  BY DEF Timer
<1>18. PeriodsKept' /\ NextTickApart'
  <2>1. CASE t \in Repeating /\ period <= DelayLimit
    <3>1. s # <<>> => now - s[Len(s)].at >= period
      <4> SUFFICES ASSUME s # <<>> PROVE now - s[Len(s)].at >= period
        OBVIOUS
      <4>1. armed[t] - s[Len(s)].at >= period
        BY <1>1, <1>8, <1>13, <2>1 DEF ClockIInv, NextTickApart
      <4>2. s[Len(s)] \in [due : Int, at : Int]
        <5>1. Len(s) \in 1..Len(s)
          BY <1>8, <1>10
        <5> QED BY <5>1, ElementOfSeq
      <4>3. PICK at \in Int : at = s[Len(s)].at
        BY <4>2
      <4>4. armed[t] \in Int /\ now \in Int
        BY DEF TimerTypes
      <4> QED BY <1>7, <4>1, <4>3, <4>4
    <3>2. \A i \in 1..(Len(s) - 1) : s[i + 1].at - s[i].at >= period
      BY <1>1, <1>8, <2>1 DEF ClockIInv, PeriodsKept
    <3>3. ASSUME NEW i \in 1..(Len(r) - 1) PROVE r[i + 1].at - r[i].at >= period
      <4>1. CASE i = Len(s)
        <5>1. r[i + 1] = tick /\ r[i] = s[Len(s)] /\ s # <<>>
          BY <1>10, <3>3, <4>1
        <5> QED BY <1>6, <3>1, <5>1
      <4>2. CASE i # Len(s)
        <5>1. i \in 1..(Len(s) - 1) /\ i + 1 \in 1..Len(s) /\ i \in 1..Len(s)
          BY <1>10, <3>3, <4>2
        <5> QED BY <1>10, <3>2, <5>1
      <4> QED BY <4>1, <4>2
    <3>4. f - r[Len(r)].at >= period
      <4>1. r[Len(r)].at = now /\ f = now + period /\ now \in Int
        BY <1>4, <1>6, <1>10, <2>1 DEF TimerTypes
      <4> QED BY <4>1
    <3> QED BY <1>1, <1>7, <1>16, <1>17, <3>3, <3>4 DEF ClockIInv, PeriodsKept, NextTickApart
  <2>2. CASE ~(t \in Repeating /\ period <= DelayLimit)
    BY <1>1, <1>7, <1>16, <1>17, <2>2 DEF ClockIInv, PeriodsKept, NextTickApart
  <2> QED BY <2>1, <2>2
<1>19. OncePerDay' /\ NextDayApart'
  <2>1. CASE t \in Daily
    <3>1. \E day \in Int : d = day * Day + MinuteOfDay
      BY <1>4, <2>1
    <3>2. PICK j \in Int : d = j * Day + MinuteOfDay
      BY <3>1
    <3>3. PICK k \in Int : due[t] = k * Day + MinuteOfDay
      BY <1>13, <2>1 DEF ClockIInv, NextDayApart
    <3>4. ASSUME offset >= 0
          PROVE  /\ f + offset >= d /\ d - tick.due >= Day
                 /\ \A i \in 1..(Len(r) - 1) : r[i + 1].due - r[i].due >= Day
      <4>1. armed[t] \in Int /\ now \in Int /\ offset \in Int /\ due[t] \in Int /\ Wall = now + offset
        BY DEF TimerTypes, Wall
      <4>2. armed[t] + offset >= due[t]
        BY <1>13, <2>1, <3>4 DEF ClockIInv, NextDayApart
      <4>3. d > due[t]
        BY <1>4, <1>7, <2>1, <4>1, <4>2
      <4>4. PICK a \in Int, b \in Int : a = j * Day /\ b = k * Day
        BY TimerAssumption
      <4>5. Day \in Int /\ MinuteOfDay \in Int
        BY TimerAssumption
      <4>6. a > b => a >= b + Day
        BY <4>4, Days
      <4>7. d - due[t] >= Day
        BY <3>2, <3>3, <4>3, <4>4, <4>5, <4>6
      <4>8. s # <<>> => due[t] - s[Len(s)].due >= Day
        BY <1>8, <1>13, <2>1, <3>4 DEF ClockIInv, NextDayApart
      <4>9. \A i \in 1..(Len(s) - 1) : s[i + 1].due - s[i].due >= Day
        BY <1>8, <2>1, <3>4 DEF ClockIInv, OncePerDay
      <4>10. ASSUME NEW i \in 1..(Len(r) - 1) PROVE r[i + 1].due - r[i].due >= Day
        <5>1. CASE i = Len(s)
          <6>1. r[i + 1] = tick /\ r[i] = s[Len(s)] /\ s # <<>>
            BY <1>10, <4>10, <5>1
          <6> QED BY <1>6, <4>8, <6>1
        <5>2. CASE i # Len(s)
          <6>1. i \in 1..(Len(s) - 1) /\ i + 1 \in 1..Len(s) /\ i \in 1..Len(s)
            BY <1>10, <4>10, <5>2
          <6> QED BY <1>10, <4>9, <6>1
        <5> QED BY <5>1, <5>2
      <4>11. f + offset >= d
        BY <1>4, <2>1, <4>1
      <4> QED BY <1>6, <4>7, <4>10, <4>11
    <3>5. OncePerDay'
      BY <1>7, <1>16, <1>17, <3>4 DEF ClockIInv, OncePerDay
    <3>6. NextDayApart'
      <4>1. r[Len(r)] = tick /\ interval[t] = Day
        BY <1>1, <1>10, <2>1
      <4> QED BY <1>7, <1>16, <1>17, <3>1, <3>4, <4>1 DEF ClockIInv, NextDayApart
    <3> QED BY <3>5, <3>6
  <2>2. CASE t \notin Daily
    BY <1>7, <1>16, <1>17, <2>2 DEF ClockIInv, OncePerDay, NextDayApart
  <2> QED BY <2>1, <2>2
<1> QED BY <1>12, <1>15, <1>18, <1>19 DEF ClockIInv

\* What is stopped is armed no more.
LEMMA StopTimersKeeps ==
    ASSUME TimerTypes, ClockIInv, NEW ts, StopTimers(ts)
    PROVE  TimerTypes' /\ ClockIInv'
<1>1. /\ timers' = timers \ ts /\ ts \subseteq timers
      /\ armed' = [t \in Timer |-> IF t \in ts THEN Never ELSE armed[t]]
      /\ due' = [t \in Timer |-> IF t \in ts THEN Never ELSE due[t]]
      /\ UNCHANGED <<now, offset, interval, chain, running, ticks, stepVars>>
  BY DEF StopTimers
<1>2. TimerTypes'
  BY <1>1 DEF TimerTypes, stepVars, Never
<1>3. OnlyLiveTimersArmed'
  BY <1>1 DEF ClockIInv, OnlyLiveTimersArmed
<1>4. \A t \in Timer : t \in timers' => t \in timers /\ armed'[t] = armed[t] /\ due'[t] = due[t]
  BY <1>1
<1>5. Repeating \subseteq Timer /\ Daily \subseteq Timer
  BY DEF Timer
<1>6. PeriodsKept' /\ OncePerDay'
  BY <1>1 DEF ClockIInv, PeriodsKept, OncePerDay
<1>7. NextTickApart'
  BY <1>1, <1>4, <1>5 DEF ClockIInv, NextTickApart
<1>8. NextDayApart'
  BY <1>1, <1>4, <1>5 DEF ClockIInv, NextDayApart
<1> QED BY <1>2, <1>3, <1>6, <1>7, <1>8 DEF ClockIInv

\* The clock is set once: forward, and a timeout fires later than its time by the
\* wall; or back, and no day is promised any more.
LEMMA ClockIsSetKeeps ==
    ASSUME TimerTypes, ClockIInv, ClockIsSet
    PROVE  TimerTypes' /\ ClockIInv'
<1>1. offset = 0 /\ offset' \in Int
      /\ UNCHANGED <<now, armed, due, interval, timers, chain, running, ticks, stepVars>>
  BY TimerAssumption DEF ClockIsSet
<1>2. TimerTypes'
  BY <1>1 DEF TimerTypes, stepVars
<1>3. OnlyLiveTimersArmed' /\ PeriodsKept' /\ OncePerDay' /\ NextTickApart'
  BY <1>1 DEF ClockIInv, OnlyLiveTimersArmed, PeriodsKept, OncePerDay, NextTickApart
<1>4. NextDayApart'
  <2> SUFFICES ASSUME NEW t \in Daily, t \in timers
               PROVE  /\ interval[t] = Day
                      /\ \E day \in Int : due[t] = day * Day + MinuteOfDay
                      /\ offset' >= 0 => /\ armed[t] + offset' >= due[t]
                                         /\ ticks[t] # <<>> => due[t] - ticks[t][Len(ticks[t])].due >= Day
    BY <1>1 DEF NextDayApart
  <2>1. /\ interval[t] = Day
        /\ \E day \in Int : due[t] = day * Day + MinuteOfDay
        /\ armed[t] + 0 >= due[t]
        /\ ticks[t] # <<>> => due[t] - ticks[t][Len(ticks[t])].due >= Day
    BY <1>1 DEF ClockIInv, NextDayApart
  <2>2. armed[t] \in Int /\ due[t] \in Int
    BY DEF TimerTypes, Timer
  <2> QED BY <1>1, <2>1, <2>2
<1> QED BY <1>2, <1>3, <1>4 DEF ClockIInv

\* The chain and the passing of time leave the timers alone.
LEMMA ChainKeeps ==
    ASSUME TimerTypes, ClockIInv, CallbackStarts \/ CallbackSettles \/ TimePasses
    PROVE  TimerTypes' /\ ClockIInv'
<1>1. now' \in Nat
  BY DEF TimerTypes, CallbackStarts, CallbackSettles, TimePasses
<1>2. UNCHANGED <<offset, armed, due, interval, timers, ticks, stepVars>>
  BY DEF CallbackStarts, CallbackSettles, TimePasses
<1>3. TimerTypes'
  BY <1>1, <1>2 DEF TimerTypes, stepVars
<1> QED BY <1>2, <1>3 DEF ClockIInv, OnlyLiveTimersArmed, PeriodsKept, OncePerDay, NextTickApart, NextDayApart

\* A task is triggered again only when its interval has passed since the last time.
LEMMA StepsKeep ==
    ASSUME TimerTypes, StepIInv, StepNext
    PROVE  TimerTypes' /\ StepIInv'
<1>1. UNCHANGED clockVars
  BY DEF StepNext, EverySteps, StepCounted
<1>2. CASE EverySteps
  <2>1. triggers' = triggers /\ stepCount' = stepCount /\ lastTriggered = NoStep /\ lastTriggered' = 0
    BY <1>2 DEF EverySteps
  <2>2. triggers = <<>>
    BY <2>1 DEF StepIInv, LastTriggerKnown
  <2> QED BY <1>1, <2>1, <2>2 DEF TimerTypes, clockVars, StepIInv, StepsApart, LastTriggerKnown, Timer
<1>3. ASSUME NEW told, StepCounted(told) PROVE TimerTypes' /\ StepIInv'
  <2>1. PICK n \in Nat : n = stepCount + 1
    BY DEF TimerTypes
  <2>2. stepCount' = n
    BY <1>3, <2>1 DEF StepCounted
  <2>3. CASE told /\ lastTriggered # NoStep /\ n - lastTriggered >= Every
    <3>1. lastTriggered' = n /\ triggers' = Append(triggers, n)
      BY <1>3, <2>2, <2>3 DEF StepCounted
    <3>2. PICK q \in Seq(Int) : q = triggers
      BY DEF TimerTypes
    <3>3. PICK r \in Seq(Int) : r = Append(q, n)
      <4>1. n \in Int
        OBVIOUS
      <4> QED BY <4>1, AppendProperties
    <3>4. Len(r) = Len(q) + 1 /\ r[Len(r)] = n /\ (\A i \in 1..Len(q) : r[i] = q[i]) /\ Len(q) \in Nat
          /\ (q = <<>> <=> Len(q) = 0)
      BY <3>2, <3>3, AppendProperties, EmptySeq
    <3>5. TimerTypes'
      BY <1>1, <2>2, <3>1, <3>2, <3>3 DEF TimerTypes, clockVars
    <3>6. ASSUME NEW i \in 1..(Len(r) - 1) PROVE r[i + 1] - r[i] >= Every
      <4>1. CASE i = Len(q)
        <5>1. r[i + 1] = n /\ r[i] = q[Len(q)] /\ q # <<>>
          BY <3>4, <3>6, <4>1
        <5> QED BY <2>3, <3>2, <5>1 DEF StepIInv, LastTriggerKnown
      <4>2. CASE i # Len(q)
        <5>1. i \in 1..(Len(q) - 1) /\ i + 1 \in 1..Len(q) /\ i \in 1..Len(q)
          BY <3>4, <3>6, <4>2
        <5> QED BY <3>2, <3>4, <5>1 DEF StepIInv, StepsApart
      <4> QED BY <4>1, <4>2
    <3>7. NoStep < n
      <4>1. stepCount >= 0
        BY DEF TimerTypes
      <4> QED BY <2>1, <4>1 DEF NoStep, TimerTypes
    <3>8. triggers' = r /\ lastTriggered' = r[Len(r)] /\ lastTriggered' # NoStep
      BY <3>1, <3>2, <3>3, <3>4, <3>7 DEF NoStep
    <3> QED BY <3>5, <3>6, <3>8 DEF StepIInv, StepsApart, LastTriggerKnown
  <2>4. CASE ~(told /\ lastTriggered # NoStep /\ n - lastTriggered >= Every)
    <3>1. UNCHANGED <<lastTriggered, triggers>>
      BY <1>3, <2>2, <2>4 DEF StepCounted
    <3> QED BY <1>1, <2>2, <3>1 DEF TimerTypes, clockVars, StepIInv, StepsApart, LastTriggerKnown
  <2> QED BY <2>3, <2>4
<1> QED BY <1>2, <1>3 DEF StepNext

\* CadenceKept, which a run checks: timers and step tasks keep their cadence,
\* for any timers, periods, days and any setting of the clock.
THEOREM CadenceHolds == TimerSpec => []CadenceKept
<1> DEFINE IInv == TimerTypes /\ ClockIInv /\ StepIInv
<1>1. TimerInit => IInv
  BY TimerInitHolds
<1>2. IInv /\ [TimerNext]_timerVars => IInv'
  <2> SUFFICES ASSUME TimerTypes, ClockIInv, StepIInv, [TimerNext]_timerVars
               PROVE  TimerTypes' /\ ClockIInv' /\ StepIInv'
    OBVIOUS
  <2>1. CASE ClockNext
    <3>1. UNCHANGED stepVars
      BY <2>1 DEF ClockNext, CreateTimer, TimerTicks, StopTimers, CallbackStarts, CallbackSettles, TimePasses,
                  ClockIsSet
    <3>2. StepIInv'
      BY <3>1 DEF StepIInv, StepsApart, LastTriggerKnown, stepVars
    <3>3. TimerTypes' /\ ClockIInv'
      BY <2>1, CreateTimerKeeps, TimerTicksKeeps, StopTimersKeeps, ClockIsSetKeeps, ChainKeeps DEF ClockNext
    <3> QED BY <3>2, <3>3
  <2>2. CASE StepNext
    <3>1. UNCHANGED clockVars
      BY <2>2 DEF StepNext, EverySteps, StepCounted
    <3>2. ClockIInv'
      BY <3>1 DEF ClockIInv, OnlyLiveTimersArmed, PeriodsKept, OncePerDay, NextTickApart, NextDayApart, clockVars
    <3> QED BY <2>2, <3>2, StepsKeep
  <2>3. CASE UNCHANGED timerVars
    BY <2>3 DEF timerVars, clockVars, stepVars, TimerTypes, ClockIInv, StepIInv, StepsApart, LastTriggerKnown,
                OnlyLiveTimersArmed, PeriodsKept, OncePerDay, NextTickApart, NextDayApart
  <2> QED BY <2>1, <2>2, <2>3 DEF TimerNext
<1>3. IInv => CadenceKept
  BY DEF ClockIInv, StepIInv, CadenceKept
<1> QED BY <1>1, <1>2, <1>3, PTL DEF TimerSpec

-----------------------------------------------------------------------------
(* Uploads of media (MediaUploads).                                        *)

Models == MediaProviders \cup {CHOOSE p \in Uploaders : TRUE}
\* Strings: the provers do not know of every literal that it is one.
Texts == STRING \cup {"", "image/png"}
Block == {Text} \cup [type : MediaTypes, url : Texts, file : Nat,
                      base64 : Contents \cup {NoContent}, mime : Texts]
CacheRecord == [provider : Models \cup {"none"}, file : Nat]
Caches == [Contents -> CacheRecord]
Files == [text : {"", "whole", "mixed"}, records : Caches]
Uploaded == [content : Contents, provider : Models, send : Nat]
Going == {"callback", "upload", "open", "write"}
Calls == [message : Messages, at : Nat, resolved : Seq(Block),
          step : Going \cup {"sent", "rejected", "lost"}, records : Caches]
Entry == [send : Nat, provider : Models, blocks : Seq(Block)]

UploadTypes ==
    /\ model \in Models /\ mediaCache \in Caches
    /\ sends \in Seq(Calls) /\ uploads \in Seq(Uploaded) /\ queued \in Seq(Entry)
    /\ stored \in Files
    /\ doubtful \subseteq Contents /\ unsure \in BOOLEAN

\* A block of a message m, or what it was resolved to, for a provider p, when
\* U was uploaded: a file id is the user's or that of an upload to p.
RightBlock(b, m, p, U) ==
    b.type \in MediaTypes /\ b.file \notin {0, Theirs} =>
        /\ b.file - 1 \in 1..Len(U) /\ U[b.file - 1].provider = p
        /\ \E i \in 1..Len(m) : m[i].type = b.type /\ m[i].base64 = U[b.file - 1].content
RightBlocks(q, m, p, U) == \A i \in 1..Len(q) : RightBlock(q[i], m, p, U)

\* The records of a cache are of uploads.
RightRecord(r, c, U) ==
    r.file # 0 => /\ r.file - 1 \in 1..Len(U)
                  /\ U[r.file - 1].content = c /\ U[r.file - 1].provider = r.provider
RightRecords(C, U) == \A c \in Contents : RightRecord(C[c], c, U)

\* What a call of send() under way has resolved, and the upload that it is at.
RightCall(call, p, U) ==
    /\ RightRecords(call.records, U)
    /\ call.step \in Going =>
          /\ call.at \in 1..Len(call.message) /\ RightBlocks(call.resolved, call.message, p, U)
          /\ call.step # "callback" => /\ call.message[call.at].type \in {"image", "file"}
                                       /\ call.message[call.at].base64 \in Contents
    /\ call.step \in {"open", "write"} =>
          LET r == call.records[call.message[call.at].base64] IN r.file # 0 /\ r.provider = p

RightQueued(q, S, U) ==
    /\ q.send \in 1..Len(S) /\ S[q.send].step = "sent"
    /\ RightBlocks(q.blocks, S[q.send].message, q.provider, U)

RightUploads ==
    /\ RightRecords(mediaCache, uploads) /\ RightRecords(stored.records, uploads)
    /\ \A s \in 1..Len(sends) : RightCall(sends[s], model, uploads)
    /\ \A k \in 1..Len(queued) : RightQueued(queued[k], sends, uploads)
    /\ \A k \in 1..Len(uploads) : uploads[k].send \in 1..Len(sends)
                                  /\ sends[uploads[k].send].step # "rejected"

\* The cache knows the last upload of a content, unless that is in doubt; so what
\* is being uploaded is not there.
IsCached(C, c, p) == C[c].file # 0 /\ C[c].provider = p
LastOf(k, c, U) == U[k].content = c /\ \A j \in 1..Len(U) : k < j => U[j].content # c
KnowsLast ==
    \A c \in Contents \ doubtful : \A k \in 1..Len(uploads) :
        LastOf(k, c, uploads) =>
            mediaCache[c].file = k + 1 /\ mediaCache[c].provider = uploads[k].provider
StillNew ==
    \A s \in 1..Len(sends) : sends[s].step = "upload" =>
        LET c == sends[s].message[sends[s].at].base64
        IN c \in doubtful \/ ~IsCached(mediaCache, c, model)

\* Until saves fail or overlap, one at a time is under way, of the cache as it
\* is; and when there is none the cache is what a resume would load.
SavingStep == {"open", "write"}
OneSave ==
    /\ \A s, t \in 1..Len(sends) : sends[s].step \in SavingStep /\ sends[t].step \in SavingStep => s = t
    /\ \A s \in 1..Len(sends) :
          /\ sends[s].step \in SavingStep => sends[s].records = mediaCache
          /\ sends[s].step = "write" => stored.text = ""
    /\ (\A s \in 1..Len(sends) : sends[s].step \notin SavingStep) => mediaCache = LoadMediaCache

UploadInv == /\ UploadTypes /\ RightUploads
             /\ UploadedOnce /\ KnowsLast /\ StillNew /\ (~unsure => OneSave)

-----------------------------------------------------------------------------
\* Blocks and records stay right when more is uploaded.
LEMMA RightGrows ==
    ASSUME NEW U \in Seq(Uploaded), NEW x \in Uploaded
    PROVE  /\ Append(U, x) \in Seq(Uploaded) /\ Len(Append(U, x)) = Len(U) + 1
           /\ Append(U, x)[Len(U) + 1] = x /\ \A k \in 1..Len(U) : Append(U, x)[k] = U[k]
           /\ \A m, p : \A b \in Block : RightBlock(b, m, p, U) => RightBlock(b, m, p, Append(U, x))
           /\ \A m, p : \A q \in Seq(Block) : RightBlocks(q, m, p, U) => RightBlocks(q, m, p, Append(U, x))
           /\ \A C \in Caches : RightRecords(C, U) => RightRecords(C, Append(U, x))
           /\ \A p : \A call \in Calls : RightCall(call, p, U) => RightCall(call, p, Append(U, x))
<1>1. PICK V : V = Append(U, x)
  OBVIOUS
<1>2. V \in Seq(Uploaded) /\ Len(V) = Len(U) + 1 /\ V[Len(U) + 1] = x /\ \A k \in 1..Len(U) : V[k] = U[k]
  BY <1>1, AppendProperties
<1>3. Len(U) \in Nat /\ 1..Len(U) \subseteq 1..Len(V)
  BY <1>2
<1>4. ASSUME NEW b \in Block, NEW m, NEW p, RightBlock(b, m, p, U) PROVE RightBlock(b, m, p, V)
  BY <1>2, <1>3, <1>4 DEF RightBlock
<1>5. ASSUME NEW q \in Seq(Block), NEW m, NEW p, RightBlocks(q, m, p, U) PROVE RightBlocks(q, m, p, V)
  <2>1. \A i \in 1..Len(q) : q[i] \in Block
    OBVIOUS
  <2> QED BY <1>4, <1>5, <2>1 DEF RightBlocks
<1>6. ASSUME NEW C \in Caches, RightRecords(C, U) PROVE RightRecords(C, V)
  BY <1>2, <1>3, <1>6 DEF RightRecords, RightRecord
<1>7. ASSUME NEW call \in Calls, NEW p, RightCall(call, p, U) PROVE RightCall(call, p, V)
  <2>1. call.records \in Caches /\ call.resolved \in Seq(Block)
    BY DEF Calls
  <2> QED BY <1>5, <1>6, <1>7, <2>1 DEF RightCall
<1> QED BY <1>1, <1>2, <1>4, <1>5, <1>6, <1>7

\* The blocks of a message.
LEMMA MessageBlocks ==
    ASSUME NEW m \in Messages
    PROVE  /\ m \in Seq(Block) /\ Len(m) \in Nat
           /\ \A i \in 1..Len(m) : /\ m[i] \in Block
                                   /\ m[i].type \in MediaTypes => m[i].file \in {0, Theirs}
<1> DEFINE Theirs1 == [type : MediaTypes, url : STRING, file : {0, Theirs}, base64 : Contents \cup {NoContent}, mime : STRING]
<1>1. m \in Seq({Text} \cup Theirs1)
  BY UploadAssumption
<1>2. ASSUME NEW b \in {Text} \cup Theirs1
      PROVE  b \in Block /\ (b.type \in MediaTypes => b.file \in {0, Theirs})
  <2>1. \A u \in STRING : u \in Texts
    BY Zenon DEF Texts
  <2>2. CASE b = Text
    BY <2>2 DEF Block, Text, MediaTypes
  <2>3. CASE b \in Theirs1
    <3>1. PICK t \in MediaTypes, u \in STRING, f \in {0, Theirs}, c \in Contents \cup {NoContent}, e \in STRING :
             b = [type |-> t, url |-> u, file |-> f, base64 |-> c, mime |-> e]
      BY <2>3
    <3>2. u \in Texts /\ e \in Texts /\ f \in Nat
      BY <2>1 DEF Theirs
    <3> QED BY <3>1, <3>2 DEF Block
  <2> QED BY <2>2, <2>3
<1>3. Len(m) \in Nat /\ \A i \in 1..Len(m) : m[i] \in {Text} \cup Theirs1
  BY <1>1
<1>4. m \in Seq(Block)
  BY <1>1, <1>2
<1> QED BY <1>2, <1>3, <1>4

\* What a block waits for.
LEMMA AwaitsIs ==
    ASSUME NEW b \in Block, NEW C \in Caches
    PROVE  /\ Awaits(C, b) \in {"callback", "upload", "nothing"}
           /\ Awaits(C, b) = "upload" => UploadNeeded(b) /\ ~Cached(C, b)
<1>1. CASE UploadNeeded(b)
  <2>1. b.type # "audio" /\ b.type # "video"
    BY <1>1 DEF UploadNeeded
  <2>2. Awaits(C, b) = IF Cached(C, b) THEN "nothing" ELSE "upload"
    BY <1>1, <2>1 DEF Awaits
  <2> QED BY <1>1, <2>2
<1>2. CASE ~UploadNeeded(b)
  <2>1. Awaits(C, b) \in {"callback", "nothing"}
    BY <1>2 DEF Awaits
  <2> QED BY <2>1
<1> QED BY <1>1, <1>2

\* An upload is of an image or a file with content.
LEMMA NeedsContent ==
    ASSUME NEW b \in Block, UploadNeeded(b)
    PROVE  /\ b.type \in {"image", "file"} /\ b.base64 \in Contents
           /\ \A C : Cached(C, b) <=> IsCached(C, b.base64, model)
<1>1. b.type \in {"image", "file"} /\ b.base64 # NoContent
  BY DEF UploadNeeded
<1>2. b # Text
  BY <1>1 DEF Text
<1>3. b.base64 \in Contents
  BY <1>1, <1>2 DEF Block
<1> QED BY <1>1, <1>3 DEF Cached, IsCached

\* A record that is right for the content of a block makes it a right block.
LEMMA AppliedIsRight ==
    ASSUME NEW m \in Messages, NEW i \in 1..Len(m), m[i].type \in {"image", "file"}, m[i].base64 \in Contents,
           NEW r \in CacheRecord, NEW U \in Seq(Uploaded), r.file # 0, RightRecord(r, m[i].base64, U)
    PROVE  /\ ApplyMediaCache(m[i], r) \in Block
           /\ RightBlock(ApplyMediaCache(m[i], r), m, r.provider, U)
<1>1. m[i] \in Block /\ m[i] # Text
  BY MessageBlocks DEF Text
<1>2. PICK t \in MediaTypes, u \in Texts, f \in Nat, c \in Contents \cup {NoContent}, e \in Texts :
           m[i] = [type |-> t, url |-> u, file |-> f, base64 |-> c, mime |-> e]
  BY <1>1 DEF Block
<1>3. r.file \in Nat
  BY DEF CacheRecord
<1>4. ApplyMediaCache(m[i], r) = [type |-> t, url |-> u, file |-> r.file, base64 |-> NoContent, mime |-> e]
  <2>1. PICK b : b = m[i]
    OBVIOUS
  <2>2. b = [type |-> t, url |-> u, file |-> f, base64 |-> c, mime |-> e]
    BY <1>2, <2>1
  <2>3. PICK d : d = [b EXCEPT !.file = r.file]
    OBVIOUS
  <2>4. d = [type |-> t, url |-> u, file |-> r.file, base64 |-> c, mime |-> e]
    BY <2>2, <2>3
  <2>5. [d EXCEPT !.base64 = NoContent]
          = [type |-> t, url |-> u, file |-> r.file, base64 |-> NoContent, mime |-> e]
    BY <2>4
  <2>6. ApplyMediaCache(b, r) = [d EXCEPT !.base64 = NoContent]
    BY <2>3 DEF ApplyMediaCache
  <2> QED BY <2>1, <2>5, <2>6, Zenon
<1>5. ApplyMediaCache(m[i], r) \in Block
  BY <1>3, <1>4 DEF Block
<1>6. RightBlock(ApplyMediaCache(m[i], r), m, r.provider, U)
  BY <1>2, <1>4 DEF RightBlock, RightRecord
<1> QED BY <1>5, <1>6

\* What a block of a message becomes without an await.
LEMMA PassIsRight ==
    ASSUME NEW m \in Messages, NEW i \in 1..Len(m), NEW C \in Caches, NEW U \in Seq(Uploaded),
           RightRecords(C, U)
    PROVE  Pass(C, m[i]) \in Block /\ RightBlock(Pass(C, m[i]), m, model, U)
<1>1. m[i] \in Block /\ (m[i].type \in MediaTypes => m[i].file \in {0, Theirs})
  BY MessageBlocks
<1>2. CASE UploadNeeded(m[i]) /\ Cached(C, m[i])
  <2>1. m[i].type \in {"image", "file"} /\ m[i].base64 \in Contents /\ IsCached(C, m[i].base64, model)
    BY <1>1, <1>2, NeedsContent
  <2>2. PICK r \in CacheRecord : r = C[m[i].base64]
    BY <2>1 DEF Caches
  <2>3. r.file # 0 /\ r.provider = model /\ RightRecord(r, m[i].base64, U)
    BY <2>1, <2>2 DEF IsCached, RightRecords
  <2>4. Pass(C, m[i]) = ApplyMediaCache(m[i], r)
    BY <1>2, <2>2 DEF Pass
  <2> QED BY <2>1, <2>3, <2>4, AppliedIsRight
<1>3. CASE ~(UploadNeeded(m[i]) /\ Cached(C, m[i]))
  <2>1. Pass(C, m[i]) = m[i]
    BY <1>3 DEF Pass
  <2> QED BY <1>1, <2>1 DEF RightBlock
<1> QED BY <1>2, <1>3

\* One list of right blocks after the other.
LEMMA RightJoined ==
    ASSUME NEW q \in Seq(Block), NEW w \in Seq(Block), NEW m, NEW p, NEW U,
           RightBlocks(q, m, p, U), RightBlocks(w, m, p, U)
    PROVE  q \o w \in Seq(Block) /\ RightBlocks(q \o w, m, p, U)
<1>1. PICK v : v = q \o w
  OBVIOUS
<1>2. /\ v \in Seq(Block) /\ Len(v) = Len(q) + Len(w) /\ Len(q) \in Nat /\ Len(w) \in Nat
      /\ \A i \in 1..Len(v) : v[i] = IF i <= Len(q) THEN q[i] ELSE w[i - Len(q)]
  BY <1>1, ConcatProperties
<1>3. ASSUME NEW i \in 1..Len(v) PROVE RightBlock(v[i], m, p, U)
  <2>1. CASE i <= Len(q)
    BY <1>2, <2>1 DEF RightBlocks
  <2>2. CASE ~(i <= Len(q))
    BY <1>2, <2>2 DEF RightBlocks
  <2> QED BY <2>1, <2>2
<1> QED BY <1>1, <1>2, <1>3 DEF RightBlocks

\* A call of send() goes on to its next await, or to the end of its message.
Resolvable(call, U) ==
    \E m \in Messages : \E a \in 0..Len(m), q \in Seq(Block), k \in Caches : \E st :
        /\ call = [message |-> m, at |-> a, resolved |-> q, step |-> st, records |-> k]
        /\ RightRecords(k, U) /\ RightBlocks(q, m, model, U)
ResolvedTo(r, C, U) ==
    /\ r \in Calls /\ r.step \in {"callback", "upload", "sent"} /\ RightCall(r, model, U)
    /\ RightBlocks(r.resolved, r.message, model, U)
    /\ r.step = "upload" => ~IsCached(C, r.message[r.at].base64, model)

\* The loop over the blocks ends at an await or at the end, and leaves right blocks
\* behind.
LEMMA ResolveIs ==
    ASSUME NEW C \in Caches, NEW U \in Seq(Uploaded), RightRecords(C, U), NEW call, Resolvable(call, U)
    PROVE  ResolvedTo(Resolve(call, C), C, U)
<1>0. PICK m \in Messages : \E a \in 0..Len(m), q \in Seq(Block), k \in Caches : \E st :
        /\ call = [message |-> m, at |-> a, resolved |-> q, step |-> st, records |-> k]
        /\ RightRecords(k, U) /\ RightBlocks(q, m, model, U)
  BY DEF Resolvable
<1>a. PICK a \in 0..Len(m), q \in Seq(Block), k \in Caches : \E st :
        /\ call = [message |-> m, at |-> a, resolved |-> q, step |-> st, records |-> k]
        /\ RightRecords(k, U) /\ RightBlocks(q, m, model, U)
  BY <1>0
<1>b. PICK st : call = [message |-> m, at |-> a, resolved |-> q, step |-> st, records |-> k]
  BY <1>a
<1>c. RightRecords(k, U) /\ RightBlocks(q, m, model, U)
  BY <1>a
<1> DEFINE waiting == {i \in (a + 1)..Len(m) : Awaits(C, m[i]) # "nothing"}
           stops == waiting \cup {Len(m) + 1}
<1>1. Len(m) \in Nat /\ m \in Seq(Block) /\ \A i \in 1..Len(m) : m[i] \in Block
  BY MessageBlocks
<1>2. PICK n \in stops : \A x \in stops : n <= x
  <2>1. stops \in SUBSET Nat /\ stops # {}
    BY <1>1
  <2>2. QED
    BY <2>1, LeastOf
<1>3. n = Min(stops)
  <2>1. stops \subseteq Int
    BY <1>1
  <2>2. \A x \in stops : (\A y \in stops : x <= y) => x = n
    BY <1>2, <2>1
  <2> QED BY <1>2, <2>2 DEF Min
<1>4. /\ n \in (a + 1)..(Len(m) + 1)
      /\ waiting = {} => n = Len(m) + 1
      /\ waiting # {} => n \in waiting
  <2>1. a \in Nat /\ a <= Len(m) /\ waiting \subseteq (a + 1)..Len(m) /\ waiting \subseteq Nat
    BY <1>1, <1>a
  <2> QED BY <1>1, <1>2, <2>1
<1>5. PICK w : w = [i \in 1..(n - (a + 1)) |-> Pass(C, m[(a + 1) + i - 1])]
  OBVIOUS
<1>6. w \in Seq(Block) /\ RightBlocks(w, m, model, U)
  <2>1. n - (a + 1) \in Nat /\ \A i \in 1..(n - (a + 1)) : (a + 1) + i - 1 \in 1..Len(m)
    BY <1>1, <1>4
  <2>2. \A i \in 1..(n - (a + 1)) : w[i] = Pass(C, m[(a + 1) + i - 1])
    BY <1>5
  <2>3. \A i \in 1..(n - (a + 1)) : w[i] \in Block /\ RightBlock(w[i], m, model, U)
    BY <2>1, <2>2, PassIsRight
  <2>4. w \in Seq(Block) /\ Len(w) = n - (a + 1)
    <3>1. PICK l \in Nat : l = n - (a + 1)
      BY <2>1
    <3>2. DOMAIN w = 1..l /\ \A i \in 1..l : w[i] \in Block
      BY <1>5, <2>3, <3>1
    <3>3. w = [i \in 1..l |-> w[i]]
      BY <1>5, <3>1, <3>2
    <3>4. w \in [1..l -> Block]
      BY <3>2, <3>3
    <3>5. w \in Seq(Block)
      BY <3>4
    <3> QED BY <3>1, <3>2, <3>5, LenProperties
  <2> QED BY <2>3, <2>4 DEF RightBlocks
<1>7. PICK v : v = q \o w /\ v \in Seq(Block) /\ RightBlocks(v, m, model, U)
  BY <1>c, <1>6, RightJoined
<1>8. PICK then : then = IF waiting = {} THEN "sent" ELSE Awaits(C, m[n])
  OBVIOUS
<1>9. PICK r : r = [message |-> m, at |-> n, resolved |-> v, step |-> then, records |-> k]
  OBVIOUS
<1>10. r = Resolve(call, C)
  <2>1. PICK b : b = [call EXCEPT !.at = n]
    OBVIOUS
  <2>2. b = [message |-> m, at |-> n, resolved |-> q, step |-> st, records |-> k]
    BY <1>b, <2>1
  <2>3. PICK d : d = [b EXCEPT !.resolved = @ \o w]
    OBVIOUS
  <2>4. d = [message |-> m, at |-> n, resolved |-> v, step |-> st, records |-> k]
    BY <1>7, <2>2, <2>3
  <2>5. [d EXCEPT !.step = then] = r
    BY <1>9, <2>4
  <2>6. call.message = m /\ call.at = a
    BY <1>b
  <2>7. Resolve(call, C) = [call EXCEPT !.at = n, !.resolved = @ \o w, !.step = then]
    BY <1>3, <1>5, <1>8, <2>6 DEF Resolve
  <2>8. Resolve(call, C) = [d EXCEPT !.step = then]
    BY <2>1, <2>3, <2>7
  <2> QED BY <2>5, <2>8
<1>11. /\ then \in {"callback", "upload", "sent"} /\ (then # "sent" => n \in 1..Len(m))
       /\ then = "upload" => UploadNeeded(m[n]) /\ ~Cached(C, m[n])
  <2>1. CASE waiting = {}
    BY <1>8, <2>1
  <2>2. CASE waiting # {}
    <3>1. n \in 1..Len(m) /\ Awaits(C, m[n]) # "nothing" /\ m[n] \in Block
      BY <1>1, <1>4, <2>2
    <3>2. Awaits(C, m[n]) \in {"callback", "upload", "nothing"}
          /\ (Awaits(C, m[n]) = "upload" => UploadNeeded(m[n]) /\ ~Cached(C, m[n]))
      BY <3>1, AwaitsIs
    <3> QED BY <1>8, <2>2, <3>1, <3>2
  <2> QED BY <2>1, <2>2
<1>12. then = "upload" => /\ m[n].type \in {"image", "file"} /\ m[n].base64 \in Contents
                          /\ ~IsCached(C, m[n].base64, model)
  BY <1>1, <1>11, NeedsContent
<1>13. r \in Calls
  <2>1. n \in Nat /\ then \in Going \cup {"sent", "rejected", "lost"}
    BY <1>1, <1>4, <1>11 DEF Going
  <2> QED BY <1>7, <1>9, <2>1 DEF Calls
<1>14. /\ r.message = m /\ r.records = k /\ r.step = then /\ r.at = n /\ r.resolved = v
  BY <1>9
<1>15. RightCall(r, model, U)
  BY <1>c, <1>7, <1>11, <1>12, <1>14 DEF RightCall, Going
<1> QED BY <1>7, <1>10, <1>11, <1>12, <1>13, <1>14, <1>15 DEF ResolvedTo

-----------------------------------------------------------------------------
\* The call s of send() is one that goes on, or a new one, and becomes this.
CallBecomes(s, call) ==
    /\ sends' \in Seq(Calls) /\ s \in 1..Len(sends') /\ Len(sends) <= Len(sends') /\ sends'[s] = call
    /\ \A t \in 1..Len(sends') : t # s => t \in 1..Len(sends) /\ sends'[t] = sends[t]
    /\ s \in 1..Len(sends) => sends[s].step \in Going /\ call.step # "rejected"

\* It has been resolved up to an await, or to its end, when it enters the queue.
Resolved(call) ==
    /\ call \in Calls /\ call.step \in {"callback", "upload", "sent", "rejected"}
    /\ RightCall(call, model, uploads)
    /\ call.step = "sent" => RightBlocks(call.resolved, call.message, model, uploads)
    /\ call.step = "upload" => ~IsCached(mediaCache, call.message[call.at].base64, model)

\* The calls that there were are still there.
LEMMA BecomesAt ==
    ASSUME UploadTypes, NEW s, NEW call, CallBecomes(s, call)
    PROVE  /\ Len(sends) \in Nat /\ Len(sends') \in Nat /\ s \in Nat
           /\ \A t \in 1..Len(sends) : t \in 1..Len(sends')
<1>1. PICK n \in Nat : n = Len(sends)
  BY DEF UploadTypes
<1>2. PICK k \in Nat : k = Len(sends')
  BY DEF CallBecomes
<1>3. n <= k /\ s \in 1..k
  BY <1>1, <1>2 DEF CallBecomes
<1> QED BY <1>1, <1>2, <1>3

\* What is common to the steps that resolve a call: all but the saves.
LEMMA ResolvedCallHolds ==
    ASSUME UploadInv, NEW s, NEW call, CallBecomes(s, call), Resolved(call), Queues(s, call),
           UNCHANGED <<model, mediaCache, uploads, doubtful>>,
           stored' \in Files,
           RightRecords(stored'.records, uploads), unsure' \in BOOLEAN
    PROVE  UploadTypes' /\ RightUploads' /\ UploadedOnce' /\ KnowsLast' /\ StillNew'
<1>1. /\ model' = model /\ mediaCache' = mediaCache /\ uploads' = uploads /\ doubtful' = doubtful
      /\ sends \in Seq(Calls) /\ queued \in Seq(Entry) /\ uploads \in Seq(Uploaded) /\ model \in Models
  BY DEF UploadInv, UploadTypes
<1>2. Len(sends) \in Nat /\ Len(sends') \in Nat /\ sends' \in Seq(Calls) /\ s \in Nat
      /\ \A t \in 1..Len(sends) : t \in 1..Len(sends')
  <2>1. sends' \in Seq(Calls)
    BY DEF CallBecomes
  <2> QED BY <2>1, BecomesAt DEF UploadInv
<1>3. \A t \in 1..Len(sends') : RightCall(sends'[t], model, uploads)
  BY DEF UploadInv, RightUploads, CallBecomes, Resolved
<1>4. PICK x : x = [send |-> s, provider |-> model, blocks |-> call.resolved]
  OBVIOUS
<1>5. x \in Entry /\ x.send = s /\ x.provider = model /\ x.blocks = call.resolved
  <2>1. call.resolved \in Seq(Block)
    BY DEF Resolved, Calls
  <2> QED BY <1>1, <1>2, <1>4, <2>1 DEF Entry
<1>6. \A k \in 1..Len(queued) : RightQueued(queued[k], sends, uploads) => RightQueued(queued[k], sends', uploads)
  <2>1. ASSUME NEW k \in 1..Len(queued), RightQueued(queued[k], sends, uploads)
        PROVE  RightQueued(queued[k], sends', uploads)
    <3>1. queued[k].send \in 1..Len(sends) /\ sends[queued[k].send].step = "sent"
      BY <2>1 DEF RightQueued
    <3>2. queued[k].send # s
      BY <3>1 DEF CallBecomes, Going
    <3>3. sends'[queued[k].send] = sends[queued[k].send] /\ queued[k].send \in 1..Len(sends')
      BY <1>2, <3>1, <3>2 DEF CallBecomes
    <3> QED BY <2>1, <3>3 DEF RightQueued
  <2> QED BY <2>1
<1>7. queued' \in Seq(Entry) /\ \A k \in 1..Len(queued') : RightQueued(queued'[k], sends', uploads)
  <2>1. CASE call.step # "sent"
    <3>1. queued' = queued
      BY <2>1 DEF Queues
    <3> QED BY <1>1, <1>6, <3>1 DEF UploadInv, RightUploads
  <2>2. CASE call.step = "sent"
    <3>1. queued' = Append(queued, x)
      BY <1>4, <2>2 DEF Queues
    <3>2. PICK q : q = queued' /\ q = Append(queued, x)
      BY <3>1
    <3>3. /\ q \in Seq(Entry) /\ Len(q) = Len(queued) + 1 /\ Len(queued) \in Nat /\ q[Len(queued) + 1] = x
          /\ \A k \in 1..Len(queued) : q[k] = queued[k]
      <4>1. queued \in Seq(Entry) /\ x \in Entry
        BY <1>1, <1>5
      <4> QED BY <3>2, <4>1, AppendProperties
    <3>4. RightQueued(x, sends', uploads)
      <4>1. RightBlocks(call.resolved, call.message, model, uploads)
        BY <2>2 DEF Resolved
      <4> QED BY <1>5, <2>2, <4>1 DEF RightQueued, CallBecomes
    <3>5. \A k \in 1..Len(queued) : RightQueued(queued[k], sends', uploads)
      BY <1>6 DEF UploadInv, RightUploads
    <3> QED BY <3>2, <3>3, <3>4, <3>5
  <2> QED BY <2>1, <2>2
<1>8. \A k \in 1..Len(uploads) : uploads[k].send \in 1..Len(sends') /\ sends'[uploads[k].send].step # "rejected"
  <2>1. ASSUME NEW k \in 1..Len(uploads)
        PROVE  uploads[k].send \in 1..Len(sends') /\ sends'[uploads[k].send].step # "rejected"
    <3>1. PICK t : t = uploads[k].send /\ t \in 1..Len(sends) /\ sends[t].step # "rejected" /\ t \in 1..Len(sends')
      BY <1>2 DEF UploadInv, RightUploads
    <3>2. CASE t = s
      BY <3>1, <3>2 DEF CallBecomes
    <3>3. CASE t # s
      BY <3>1, <3>3 DEF CallBecomes
    <3> QED BY <3>1, <3>2, <3>3
  <2> QED BY <2>1
<1>9. UploadTypes'
  BY <1>1, <1>2, <1>7 DEF UploadTypes, UploadInv
<1>10. RightUploads'
  BY <1>1, <1>3, <1>7, <1>8 DEF RightUploads, UploadInv
<1>11. UploadedOnce' /\ KnowsLast'
  <2>1. UploadedOnce'
    BY <1>1 DEF UploadInv, UploadedOnce
  <2>2. KnowsLast'
    BY <1>1 DEF UploadInv, KnowsLast
  <2> QED BY <2>1, <2>2
<1>12. StillNew'
  <2>1. ASSUME NEW t \in 1..Len(sends'), sends'[t].step = "upload"
        PROVE  LET c == sends'[t].message[sends'[t].at].base64
               IN c \in doubtful \/ ~IsCached(mediaCache, c, model)
    <3>1. CASE t = s
      BY <2>1, <3>1 DEF CallBecomes, Resolved
    <3>2. CASE t # s
      BY <2>1, <3>2 DEF CallBecomes, UploadInv, StillNew
    <3> QED BY <3>1, <3>2
  <2> QED BY <1>1, <2>1 DEF StillNew
<1> QED BY <1>9, <1>10, <1>11, <1>12

\* It changes no save, when it is at none.
LEMMA SavesUntouched ==
    ASSUME UploadTypes, OneSave, NEW s, NEW call, CallBecomes(s, call), call.step \notin SavingStep,
           s \in 1..Len(sends) => sends[s].step \notin SavingStep,
           UNCHANGED <<stored, mediaCache>>
    PROVE  OneSave'
<1>1. Len(sends) \in Nat /\ Len(sends') \in Nat /\ \A t \in 1..Len(sends) : t \in 1..Len(sends')
  BY BecomesAt
<1>2. \A t \in 1..Len(sends') : sends'[t].step \in SavingStep => t \in 1..Len(sends) /\ sends'[t] = sends[t]
  BY DEF CallBecomes
<1>3. LoadMediaCache' = LoadMediaCache
  BY DEF LoadMediaCache
<1>4. \A t \in 1..Len(sends) : sends[t].step \in SavingStep => sends'[t] = sends[t]
  BY <1>1 DEF CallBecomes
<1>5. (\A t \in 1..Len(sends') : sends'[t].step \notin SavingStep)
         => \A t \in 1..Len(sends) : sends[t].step \notin SavingStep
  BY <1>1, <1>4
<1>6. \A t \in 1..Len(sends') : sends'[t].step = "write" => sends'[t].step \in SavingStep
  BY DEF SavingStep
<1> QED BY <1>2, <1>3, <1>5, <1>6 DEF OneSave

-----------------------------------------------------------------------------
\* At first nothing is cached, stored or uploaded.
LEMMA NothingRecorded == /\ NoRecords \in Caches /\ \A U : RightRecords(NoRecords, U)
                         /\ \A c \in Contents : NoRecords[c].file = 0
<1>1. NoRecords \in Caches
  BY DEF NoRecords, Caches, CacheRecord
<1>2. \A c \in Contents : NoRecords[c].file = 0
  BY DEF NoRecords
<1> QED BY <1>1, <1>2 DEF RightRecords, RightRecord

\* The invariant holds at first.
LEMMA UploadInitHolds == UploadInit => UploadInv
<1> SUFFICES ASSUME UploadInit PROVE UploadInv
  OBVIOUS
<1>1. /\ model \in Models /\ mediaCache = NoRecords /\ doubtful = {} /\ unsure = FALSE
      /\ sends = <<>> /\ uploads = <<>> /\ queued = <<>>
  BY DEF UploadInit, Models
<1>2. Len(sends) = 0 /\ Len(uploads) = 0 /\ Len(queued) = 0
  BY <1>1
<1>3. stored \in Files /\ stored.records = NoRecords /\ stored.text = ""
  <2>1. stored = [text |-> "", records |-> NoRecords]
    BY DEF UploadInit
  <2> QED BY <2>1, NothingRecorded DEF Files
<1>4. LoadMediaCache = NoRecords
  BY <1>3 DEF LoadMediaCache
<1>5. UploadTypes
  <2>1. sends \in Seq(Calls) /\ uploads \in Seq(Uploaded) /\ queued \in Seq(Entry)
    BY <1>1
  <2> QED BY <1>1, <1>3, <2>1, NothingRecorded DEF UploadTypes
<1>6. RightUploads
  <2>1. 1..Len(sends) = {} /\ 1..Len(uploads) = {} /\ 1..Len(queued) = {}
    BY <1>2
  <2>2. RightRecords(mediaCache, uploads) /\ RightRecords(stored.records, uploads)
    BY <1>1, <1>3, NothingRecorded
  <2> QED BY <2>1, <2>2 DEF RightUploads
<1>7. UploadedOnce
  BY <1>1, <1>2 DEF UploadedOnce
<1>8. KnowsLast /\ StillNew /\ OneSave
  BY <1>1, <1>2, <1>4 DEF KnowsLast, StillNew, OneSave
<1> QED BY <1>5, <1>6, <1>7, <1>8 DEF UploadInv

-----------------------------------------------------------------------------
\* send() is called.
LEMMA SendHolds ==
    ASSUME UploadInv, NEW message \in Messages, Send(message)
    PROVE  UploadInv'
<1> DEFINE called == [message |-> message, at |-> 0, resolved |-> <<>>, step |-> "called", records |-> NoRecords]
<1>1. /\ sends \in Seq(Calls) /\ uploads \in Seq(Uploaded) /\ mediaCache \in Caches /\ Len(sends) \in Nat
      /\ stored \in Files /\ unsure \in BOOLEAN
  BY DEF UploadInv, UploadTypes
<1>2. UNCHANGED <<model, mediaCache, stored, uploads, doubtful, unsure>>
  BY DEF Send
<1>3. PICK call : /\ call = (IF \A i \in DOMAIN message : ValidBlock(message[i])
                             THEN Resolve(called, mediaCache) ELSE [called EXCEPT !.step = "rejected"])
                  /\ sends' = Append(sends, call) /\ Queues(Len(sends'), call)
  BY DEF Send
<1>4. Resolved(call) /\ call.step \notin SavingStep
  <2>1. CASE call = Resolve(called, mediaCache)
    <3>1. Len(message) \in Nat /\ <<>> \in Seq(Block) /\ Len(<<>>) = 0
      BY MessageBlocks
    <3>2. RightBlocks(<<>>, message, model, uploads)
      BY <3>1 DEF RightBlocks
    <3>3. RightRecords(mediaCache, uploads)
      BY DEF UploadInv, RightUploads
    <3>4. 0 \in 0..Len(message)
      BY <3>1
    <3>5. Resolvable(called, uploads)
      <4>1. RightRecords(NoRecords, uploads) /\ NoRecords \in Caches
        BY NothingRecorded
      <4> QED BY <3>1, <3>2, <3>4, <4>1 DEF Resolvable
    <3>6. ResolvedTo(call, mediaCache, uploads)
      BY <1>1, <2>1, <3>3, <3>5, ResolveIs
    <3> QED BY <3>6 DEF ResolvedTo, Resolved, SavingStep
  <2>2. CASE call = [called EXCEPT !.step = "rejected"]
    <3>1. call = [message |-> message, at |-> 0, resolved |-> <<>>, step |-> "rejected", records |-> NoRecords]
      BY <2>2
    <3>2. call \in Calls
      BY <3>1, NothingRecorded DEF Calls
    <3>3. call.step = "rejected" /\ call.records = NoRecords
      BY <3>1
    <3>4. RightCall(call, model, uploads)
      BY <3>3, NothingRecorded DEF RightCall, Going
    <3> QED BY <3>2, <3>3, <3>4 DEF Resolved, SavingStep
  <2> QED BY <1>3, <2>1, <2>2
<1>5. CallBecomes(Len(sends'), call)
  <2>1. call \in Calls
    BY <1>4 DEF Resolved
  <2>2. PICK S : S = sends' /\ S = Append(sends, call)
    BY <1>3
  <2>3. /\ S \in Seq(Calls) /\ Len(S) = Len(sends) + 1 /\ S[Len(sends) + 1] = call
        /\ \A t \in 1..Len(sends) : S[t] = sends[t]
    BY <1>1, <2>1, <2>2, AppendProperties
  <2> QED BY <1>1, <2>2, <2>3 DEF CallBecomes
<1>6. UploadTypes' /\ RightUploads' /\ UploadedOnce' /\ KnowsLast' /\ StillNew'
  <2>1. stored' \in Files /\ unsure' \in BOOLEAN /\ RightRecords(stored'.records, uploads)
    BY <1>1, <1>2 DEF UploadInv, RightUploads
  <2> QED BY <1>2, <1>3, <1>4, <1>5, <2>1, ResolvedCallHolds
<1>7. ~unsure' => OneSave'
  <2>1. Len(sends') \notin 1..Len(sends)
    <3>1. Len(sends') = Len(sends) + 1
      BY <1>1, <1>3, <1>4, AppendProperties DEF Resolved
    <3> QED BY <1>1, <3>1
  <2> QED BY <1>2, <1>4, <1>5, <2>1, SavesUntouched DEF UploadInv
<1> QED BY <1>6, <1>7 DEF UploadInv

\* A call of send() goes on with what its block has become.
LEMMA GoesOnHolds ==
    ASSUME UploadInv, NEW s \in 1..Len(sends), sends[s].step \in Going,
           NEW blocks \in Seq(Block), RightBlocks(blocks, sends[s].message, model, uploads),
           GoesOnWith(s, blocks)
    PROVE  \E call : CallBecomes(s, call) /\ Resolved(call) /\ Queues(s, call) /\ call.step \notin SavingStep
<1>1. /\ sends \in Seq(Calls) /\ uploads \in Seq(Uploaded) /\ mediaCache \in Caches /\ Len(sends) \in Nat
      /\ RightRecords(mediaCache, uploads)
  BY DEF UploadInv, UploadTypes, RightUploads
<1>2. PICK m \in Messages, a \in Nat, q \in Seq(Block),
           st \in Going \cup {"sent", "rejected", "lost"}, k \in Caches :
           sends[s] = [message |-> m, at |-> a, resolved |-> q, step |-> st, records |-> k]
  <2>1. sends[s] \in Calls
    BY <1>1
  <2> QED BY <2>1 DEF Calls
<1>3. /\ sends[s].message = m /\ sends[s].at = a /\ sends[s].resolved = q
  BY <1>2
<1>4. a \in 1..Len(m) /\ RightBlocks(q, m, model, uploads)
  BY <1>3 DEF UploadInv, RightUploads, RightCall
<1>5. PICK v : v = q \o blocks /\ v \in Seq(Block) /\ RightBlocks(v, m, model, uploads)
  BY <1>3, <1>4, RightJoined
<1>6. PICK goes : goes = [sends[s] EXCEPT !.resolved = @ \o blocks, !.records = NoRecords]
  OBVIOUS
<1>7. goes = [message |-> m, at |-> a, resolved |-> v, step |-> st, records |-> NoRecords]
  <2>0. PICK call : call = sends[s]
    OBVIOUS
  <2>1. PICK b : b = [call EXCEPT !.resolved = @ \o blocks]
    OBVIOUS
  <2>2. b = [message |-> m, at |-> a, resolved |-> v, step |-> st, records |-> k]
    <3>1. call = [message |-> m, at |-> a, resolved |-> q, step |-> st, records |-> k]
      BY <1>2, <2>0
    <3>2. b = [message |-> m, at |-> a, resolved |-> q \o blocks, step |-> st, records |-> k]
      BY <2>1, <3>1
    <3> QED BY <1>5, <3>2
  <2>3. [b EXCEPT !.records = NoRecords]
           = [message |-> m, at |-> a, resolved |-> v, step |-> st, records |-> NoRecords]
    BY <2>2
  <2> QED BY <1>6, <2>0, <2>1, <2>3
<1>8. a \in 0..Len(m) /\ Len(m) \in Nat
  BY <1>4, MessageBlocks
<1>9. Resolvable(goes, uploads)
  <2>1. RightRecords(NoRecords, uploads) /\ NoRecords \in Caches
    BY NothingRecorded
  <2> QED BY <1>5, <1>7, <1>8, <2>1 DEF Resolvable
<1>r. PICK r : r = Resolve(goes, mediaCache) /\ ResolvedTo(r, mediaCache, uploads)
  BY <1>1, <1>9, ResolveIs
<1>10. sends' = [sends EXCEPT ![s] = r] /\ Queues(s, r)
  BY <1>6, <1>r DEF GoesOnWith
<1>11. Resolved(r) /\ r.step \notin SavingStep /\ r.step # "rejected" /\ r \in Calls
  BY <1>r DEF ResolvedTo, Resolved, SavingStep
<1>12. CallBecomes(s, r)
  <2>1. sends' \in Seq(Calls) /\ Len(sends') = Len(sends)
    BY <1>1, <1>11, <1>10
  <2>2. sends'[s] = r /\ \A t \in 1..Len(sends) : t # s => sends'[t] = sends[t]
    BY <1>1, <1>10
  <2> QED BY <1>1, <1>11, <2>1, <2>2 DEF CallBecomes
<1> QED BY <1>10, <1>11, <1>12

\* A block alone, or with another.
LEMMA BlocksAlone ==
    ASSUME NEW m, NEW p, NEW U, NEW b \in Block, RightBlock(b, m, p, U), NEW d \in Block, RightBlock(d, m, p, U)
    PROVE  /\ <<b>> \in Seq(Block) /\ RightBlocks(<<b>>, m, p, U)
           /\ <<b, d>> \in Seq(Block) /\ RightBlocks(<<b, d>>, m, p, U)
<1>1. <<b>> \in Seq(Block) /\ Len(<<b>>) = 1 /\ <<b>>[1] = b
  OBVIOUS
<1>2. <<b, d>> \in Seq(Block) /\ Len(<<b, d>>) = 2 /\ <<b, d>>[1] = b /\ <<b, d>>[2] = d
  OBVIOUS
<1> QED BY <1>1, <1>2 DEF RightBlocks

\* The block at which a call waits is one of its message, and right as it is.
LEMMA BlockAtAwait ==
    ASSUME UploadInv, NEW s \in 1..Len(sends), sends[s].step \in Going
    PROVE  /\ BlockOf(s) \in Block /\ RightBlock(BlockOf(s), sends[s].message, model, uploads)
           /\ <<BlockOf(s)>> \in Seq(Block) /\ RightBlocks(<<BlockOf(s)>>, sends[s].message, model, uploads)
           /\ sends[s] \in Calls /\ sends[s].message \in Messages /\ sends[s].at \in 1..Len(sends[s].message)
           /\ RightCall(sends[s], model, uploads)
<1>1. sends[s] \in Calls /\ RightCall(sends[s], model, uploads)
  BY DEF UploadInv, UploadTypes, RightUploads
<1>2. sends[s].message \in Messages /\ sends[s].at \in 1..Len(sends[s].message)
  BY <1>1 DEF Calls, RightCall
<1>3. BlockOf(s) \in Block /\ (BlockOf(s).type \in MediaTypes => BlockOf(s).file \in {0, Theirs})
  BY <1>2, MessageBlocks DEF BlockOf
<1>4. RightBlock(BlockOf(s), sends[s].message, model, uploads)
  BY <1>3 DEF RightBlock
<1> QED BY <1>1, <1>2, <1>3, <1>4, BlocksAlone

\* A call that goes on without a save.
LEMMA GoingOnHolds ==
    ASSUME UploadInv, NEW s \in 1..Len(sends), sends[s].step \in Going,
           NEW blocks \in Seq(Block), RightBlocks(blocks, sends[s].message, model, uploads),
           GoesOnWith(s, blocks), UNCHANGED <<model, mediaCache, stored, uploads, doubtful>>,
           unsure' \in BOOLEAN, ~unsure' => ~unsure /\ sends[s].step \notin SavingStep
    PROVE  UploadInv'
<1>1. PICK call : CallBecomes(s, call) /\ Resolved(call) /\ Queues(s, call) /\ call.step \notin SavingStep
  BY GoesOnHolds
<1>2. stored' \in Files /\ RightRecords(stored'.records, uploads) /\ UploadTypes
  BY DEF UploadInv, UploadTypes, RightUploads
<1>3. UploadTypes' /\ RightUploads' /\ UploadedOnce' /\ KnowsLast' /\ StillNew'
  BY <1>1, <1>2, ResolvedCallHolds
<1>4. ~unsure' => OneSave'
  BY <1>1, <1>2, SavesUntouched DEF UploadInv
<1> QED BY <1>3, <1>4 DEF UploadInv

\* The frames that take the place of a video are a block without a file.
LEMMA AttachedIs ==
    ASSUME NEW c \in Contents \cup {NoContent}
    PROVE  Attached("image", "", 0, c, "image/png") \in Block /\ Attached("image", "", 0, c, "image/png").file = 0
<1>1. \A t, u, e : Attached(t, u, 0, c, e).file = 0
  BY DEF Attached
<1>2. \A t \in MediaTypes, u, e \in Texts : Attached(t, u, 0, c, e) \in Block
  BY DEF Attached, Block
<1>3. "image" \in MediaTypes
  BY DEF MediaTypes
<1>4. "" \in Texts /\ "image/png" \in Texts
  BY Zenon DEF Texts
<1> QED BY <1>1, <1>2, <1>3, <1>4, Zenon

\* A transcriber or a frame extractor returns, or fails.
LEMMA CallbackHolds ==
    ASSUME UploadInv, NEW s \in 1..Len(sends), CallbackReturns(s)
    PROVE  UploadInv'
<1>1. /\ sends[s].step = "callback" /\ UNCHANGED <<model, mediaCache, stored, uploads, doubtful, unsure>>
      /\ unsure \in BOOLEAN
  BY DEF CallbackReturns, SendAt, UploadInv, UploadTypes
<1>2. sends[s].step \in Going /\ sends[s].step \notin SavingStep
  BY <1>1 DEF Going, SavingStep
<1>3. PICK m, U : m = sends[s].message /\ U = uploads
  OBVIOUS
<1>4. Text \in Block /\ RightBlock(Text, m, model, U)
  BY DEF Block, Text, RightBlock, MediaTypes
<1>5. CASE GoesOnWith(s, <<BlockOf(s)>>)
  BY <1>1, <1>2, <1>5, BlockAtAwait, GoingOnHolds
<1>6. CASE GoesOnWith(s, <<Text>>)
  <2>1. <<Text>> \in Seq(Block) /\ RightBlocks(<<Text>>, m, model, U)
    BY <1>4, BlocksAlone
  <2> QED BY <1>1, <1>2, <1>3, <1>6, <2>1, GoingOnHolds
<1>7. CASE /\ BlockOf(s).type = "video"
           /\ GoesOnWith(s, <<Attached("image", "", 0, BlockOf(s).base64, "image/png"), Text>>)
  <2>0. BlockOf(s).type = "video"
    BY <1>7, Zenon
  <2>1. BlockOf(s) \in Block /\ BlockOf(s) # Text
    <3>1. BlockOf(s) \in Block
      BY <1>2, BlockAtAwait
    <3>2. Text.type = "text"
      BY DEF Text
    <3> QED BY <2>0, <3>1, <3>2
  <2>2. BlockOf(s).base64 \in Contents \cup {NoContent}
    BY <2>1 DEF Block
  <2>3. PICK b : b = Attached("image", "", 0, BlockOf(s).base64, "image/png")
    OBVIOUS
  <2>4. b \in Block /\ b.file = 0
    BY <2>2, <2>3, AttachedIs
  <2>5. RightBlock(b, m, model, U)
    BY <2>4 DEF RightBlock
  <2>6. <<b, Text>> \in Seq(Block) /\ RightBlocks(<<b, Text>>, m, model, U)
    BY <1>4, <2>4, <2>5, BlocksAlone
  <2> QED BY <1>1, <1>2, <1>3, <1>7, <2>3, <2>6, GoingOnHolds
<1> QED BY <1>5, <1>6, <1>7 DEF CallbackReturns

\* An upload fails, and the block stays as it was.
LEMMA UploadFailsHolds ==
    ASSUME UploadInv, NEW s \in 1..Len(sends), UploadFails(s)
    PROVE  UploadInv'
<1>1. /\ sends[s].step = "upload" /\ UNCHANGED <<model, mediaCache, stored, uploads, doubtful, unsure>>
      /\ unsure \in BOOLEAN /\ GoesOnWith(s, <<BlockOf(s)>>)
  BY DEF UploadFails, SendAt, UploadInv, UploadTypes
<1>2. sends[s].step \in Going /\ sends[s].step \notin SavingStep
  BY <1>1 DEF Going, SavingStep
<1> QED BY <1>1, <1>2, BlockAtAwait, GoingOnHolds

\* A save fails; from then on nothing is promised of the saved cache.
LEMMA SaveFailsHolds ==
    ASSUME UploadInv, NEW s \in 1..Len(sends), SaveFails(s)
    PROVE  UploadInv'
<1>1. /\ sends[s].step \in {"open", "write"} /\ UNCHANGED <<model, mediaCache, stored, uploads, doubtful>>
      /\ unsure' = TRUE /\ GoesOnWith(s, <<BlockOf(s)>>)
  BY DEF SaveFails, SendAt
<1>2. sends[s].step \in Going
  BY <1>1 DEF Going
<1> QED BY <1>1, <1>2, BlockAtAwait, GoingOnHolds

\* The records are written, and the block has the file of its own.
LEMMA WriteCacheHolds ==
    ASSUME UploadInv, NEW s \in 1..Len(sends), WriteCache(s)
    PROVE  UploadInv'
<1>1. /\ sends[s].step = "write" /\ UNCHANGED <<model, mediaCache, uploads, doubtful, unsure>>
      /\ unsure \in BOOLEAN
  BY DEF WriteCache, SendAt, UploadInv, UploadTypes
<1>2. sends[s].step \in Going /\ sends[s].step \in SavingStep
  BY <1>1 DEF Going, SavingStep
<1>3. /\ sends[s] \in Calls /\ sends[s].message \in Messages /\ sends[s].at \in 1..Len(sends[s].message)
      /\ RightCall(sends[s], model, uploads)
  BY <1>2, BlockAtAwait
<1>4. PICK k \in Caches : k = sends[s].records
  BY <1>3 DEF Calls
<1>5. PICK c : c = BlockOf(s).base64
  OBVIOUS
<1>6. /\ c \in Contents /\ BlockOf(s).type \in {"image", "file"} /\ RightRecords(k, uploads)
      /\ k[c].file # 0 /\ k[c].provider = model
  BY <1>1, <1>3, <1>4, <1>5 DEF RightCall, BlockOf, Going
<1>7. PICK r \in CacheRecord : r = k[c] /\ RightRecord(r, c, uploads)
  BY <1>6 DEF Caches, RightRecords
<1>8. PICK b : b = ApplyMediaCache(BlockOf(s), r)
  OBVIOUS
<1>9. b \in Block /\ RightBlock(b, sends[s].message, model, uploads)
  <2>1. uploads \in Seq(Uploaded)
    BY DEF UploadInv, UploadTypes
  <2> QED BY <1>3, <1>5, <1>6, <1>7, <1>8, <2>1, AppliedIsRight DEF BlockOf
<1>10. GoesOnWith(s, <<b>>)
  BY <1>4, <1>5, <1>7, <1>8 DEF WriteCache
<1>11. <<b>> \in Seq(Block) /\ RightBlocks(<<b>>, sends[s].message, model, uploads)
  BY <1>9, BlocksAlone
<1>12. PICK call : CallBecomes(s, call) /\ Resolved(call) /\ Queues(s, call) /\ call.step \notin SavingStep
  BY <1>2, <1>10, <1>11, GoesOnHolds
<1>13. PICK t \in {"whole", "mixed"} :
          stored' = [text |-> t, records |-> k] /\ (stored.text = "" => t = "whole")
  BY <1>4 DEF WriteCache
<1>14. stored' \in Files /\ stored'.records = k /\ stored'.text = t
  BY <1>13 DEF Files
<1>15. UploadTypes' /\ RightUploads' /\ UploadedOnce' /\ KnowsLast' /\ StillNew'
  BY <1>1, <1>6, <1>12, <1>14, ResolvedCallHolds
<1>16. ~unsure' => OneSave'
  <2>1. SUFFICES ASSUME ~unsure PROVE OneSave'
    BY <1>1
  <2>2. OneSave
    BY <2>1 DEF UploadInv
  <2>3. k = mediaCache /\ stored.text = ""
    BY <1>1, <1>2, <1>4, <2>2 DEF OneSave
  <2>4. LoadMediaCache' = mediaCache
    BY <1>13, <1>14, <2>3 DEF LoadMediaCache
  <2>5. \A u \in 1..Len(sends') : sends'[u].step \notin SavingStep
    <3>1. \A u \in 1..Len(sends) : sends[u].step \in SavingStep => u = s
      BY <1>2, <2>2 DEF OneSave
    <3> QED BY <1>12, <3>1 DEF CallBecomes
  <2>6. \A u \in 1..Len(sends') : sends'[u].step # "write"
    BY <2>5 DEF SavingStep
  <2> QED BY <1>1, <2>4, <2>5, <2>6 DEF OneSave
<1> QED BY <1>15, <1>16 DEF UploadInv
-----------------------------------------------------------------------------
\* The one call that changes, when the loop does not go on.
LEMMA OneCallChanges ==
    ASSUME UploadTypes, NEW s \in 1..Len(sends), NEW call \in Calls, sends' = [sends EXCEPT ![s] = call]
    PROVE  /\ sends' \in Seq(Calls) /\ Len(sends') = Len(sends) /\ Len(sends) \in Nat
           /\ sends'[s] = call /\ \A t \in 1..Len(sends) : t # s => sends'[t] = sends[t]
<1>1. sends \in Seq(Calls) /\ Len(sends) \in Nat
  BY DEF UploadTypes
<1>2. sends' \in Seq(Calls) /\ Len(sends') = Len(sends)
  BY <1>1
<1> QED BY <1>1, <1>2

\* The messages in the queue stay right when a call under way changes, and more is uploaded.
LEMMA QueuedStays ==
    ASSUME UploadInv, NEW s \in 1..Len(sends), sends[s].step # "sent", NEW S, Len(S) = Len(sends),
           \A t \in 1..Len(sends) : t # s => S[t] = sends[t],
           NEW V, \A m, p : \A q \in Seq(Block) : RightBlocks(q, m, p, uploads) => RightBlocks(q, m, p, V)
    PROVE  \A k \in 1..Len(queued) : RightQueued(queued[k], S, V)
<1>1. ASSUME NEW k \in 1..Len(queued) PROVE RightQueued(queued[k], S, V)
  <2>1. queued[k] \in Entry /\ RightQueued(queued[k], sends, uploads)
    BY DEF UploadInv, UploadTypes, RightUploads
  <2>2. PICK t : t = queued[k].send
    OBVIOUS
  <2>3. t \in 1..Len(sends) /\ t # s /\ sends[t].step = "sent"
    BY <2>1, <2>2 DEF RightQueued
  <2>4. S[t] = sends[t]
    BY <2>3
  <2>5. queued[k].blocks \in Seq(Block)
    BY <2>1 DEF Entry
  <2>6. RightBlocks(queued[k].blocks, sends[t].message, queued[k].provider, V)
    BY <2>1, <2>2, <2>5 DEF RightQueued
  <2> QED BY <2>2, <2>3, <2>4, <2>6 DEF RightQueued
<1> QED BY <1>1

\* The last upload of a content.
LEMMA LastThereIs ==
    ASSUME NEW U \in Seq(Uploaded), NEW c, NEW i \in 1..Len(U), U[i].content = c
    PROVE  \E k \in 1..Len(U) : LastOf(k, c, U) /\ i <= k
<1> DEFINE T == {d \in 0..Len(U) : Len(U) - d \in 1..Len(U) /\ U[Len(U) - d].content = c}
<1>1. Len(U) \in Nat
  OBVIOUS
<1>2. T \in SUBSET Nat /\ Len(U) - i \in T
  <2>1. Len(U) - (Len(U) - i) = i /\ Len(U) - i \in 0..Len(U)
    BY <1>1
  <2> QED BY <1>1, <2>1
<1>3. PICK d \in T : \A e \in T : d <= e
  BY <1>2, LeastOf
<1>4. PICK k : k = Len(U) - d
  OBVIOUS
<1>5. k \in 1..Len(U) /\ U[k].content = c /\ d \in Nat
  BY <1>1, <1>3, <1>4
<1>6. i <= k
  <2>1. d <= Len(U) - i
    BY <1>2, <1>3
  <2> QED BY <1>1, <1>4, <1>5, <2>1
<1>7. ASSUME NEW j \in 1..Len(U), k < j, U[j].content = c PROVE FALSE
  <2>1. Len(U) - j \in 0..Len(U) /\ Len(U) - (Len(U) - j) = j
    BY <1>1
  <2>2. Len(U) - j \in T
    BY <1>7, <2>1
  <2>3. d <= Len(U) - j
    BY <1>3, <2>2
  <2> QED BY <1>1, <1>4, <1>5, <1>7, <2>3
<1> QED BY <1>5, <1>6, <1>7 DEF LastOf

\* What the upload of a call s changes: U is what was uploaded, V what it is now, and c the
\* content.
UploadMade(s, c, x) ==
    /\ x = [content |-> c, provider |-> model, send |-> s]
    /\ uploads' = Append(uploads, x)
    /\ mediaCache' = [mediaCache EXCEPT ![c] = [provider |-> model, file |-> Len(uploads) + 2]]
    /\ doubtful \subseteq doubtful' /\ doubtful' \subseteq Contents
    /\ \A t \in 1..Len(sends) : t # s /\ sends[t].step = "upload" /\ BlockOf(t).base64 = c => c \in doubtful'
    /\ UNCHANGED <<model, stored, queued>>

\* What a step in which an upload returns does.
LEMMA UploadIs ==
    ASSUME UploadInv, NEW s \in 1..Len(sends), UploadReturns(s)
    PROVE  /\ BlockOf(s).base64 \in Contents
           /\ UploadMade(s, BlockOf(s).base64, [content |-> BlockOf(s).base64, provider |-> model, send |-> s])
           /\ sends[s].step = "upload"
           /\ sends' = [sends EXCEPT ![s].step = "open", ![s].records = mediaCache']
           /\ unsure' \in BOOLEAN
           /\ ~unsure' => ~unsure /\ \A t \in 1..Len(sends) : sends[t].step \notin SavingStep
<1>1. sends[s].step = "upload" /\ UNCHANGED <<model, stored, queued>>
  BY DEF UploadReturns, SendAt
<1>2. PICK c : c = BlockOf(s).base64
  OBVIOUS
<1>3. c \in Contents
  <2>1. RightCall(sends[s], model, uploads)
    BY DEF UploadInv, RightUploads
  <2> QED BY <1>1, <1>2, <2>1 DEF RightCall, BlockOf, Going
<1>4. /\ uploads' = Append(uploads, [content |-> c, provider |-> model, send |-> s])
      /\ mediaCache' = [mediaCache EXCEPT ![c] = [provider |-> model, file |-> Len(uploads') + 1]]
      /\ sends' = [sends EXCEPT ![s].step = "open", ![s].records = mediaCache']
      /\ doubtful' = doubtful \cup
            {c : other \in {o \in DOMAIN sends \ {s} : SendAt(o, "upload") /\ BlockOf(o).base64 = c}}
      /\ unsure' = (unsure \/ \E other \in DOMAIN sends : SendAt(other, "open") \/ SendAt(other, "write"))
  BY <1>2 DEF UploadReturns
<1>5. uploads \in Seq(Uploaded) /\ model \in Models /\ Len(sends) \in Nat /\ doubtful \subseteq Contents
      /\ unsure \in BOOLEAN /\ DOMAIN sends = 1..Len(sends)
  BY DEF UploadInv, UploadTypes
<1>6. Len(uploads') + 1 = Len(uploads) + 2
  <2>1. [content |-> c, provider |-> model, send |-> s] \in Uploaded
    BY <1>3, <1>5 DEF Uploaded
  <2>2. Len(uploads') = Len(uploads) + 1
    BY <1>4, <1>5, <2>1, AppendProperties
  <2> QED BY <1>5, <2>2
<1>7. doubtful \subseteq doubtful' /\ doubtful' \subseteq Contents
  BY <1>3, <1>4, <1>5
<1>8. ASSUME NEW t \in 1..Len(sends), t # s, sends[t].step = "upload", BlockOf(t).base64 = c
      PROVE  c \in doubtful'
  BY <1>4, <1>5, <1>8 DEF SendAt
<1>9. UploadMade(s, c, [content |-> c, provider |-> model, send |-> s])
  <2>1. mediaCache' = [mediaCache EXCEPT ![c] = [provider |-> model, file |-> Len(uploads) + 2]]
    BY <1>4, <1>6
  <2> QED BY <1>1, <1>4, <1>7, <1>8, <2>1 DEF UploadMade
<1>10. unsure' \in BOOLEAN /\ (~unsure' => ~unsure /\ \A t \in 1..Len(sends) : sends[t].step \notin SavingStep)
  BY <1>4, <1>5, Zenon DEF SendAt, SavingStep
<1> QED BY <1>1, <1>2, <1>3, <1>4, <1>9, <1>10
\* The records, the uploads and what is in doubt stay right in an upload.
LEMMA UploadKnows ==
    ASSUME UploadInv, NEW s \in 1..Len(sends), NEW c \in Contents, NEW x \in Uploaded, UploadMade(s, c, x)
    PROVE  /\ mediaCache' \in Caches /\ RightRecords(mediaCache', uploads')
           /\ mediaCache'[c].file # 0 /\ mediaCache'[c].provider = model
           /\ \A d \in Contents : d # c => mediaCache'[d] = mediaCache[d]
           /\ KnowsLast'
<1>1. /\ uploads \in Seq(Uploaded) /\ mediaCache \in Caches /\ model \in Models /\ Len(uploads) \in Nat
      /\ RightRecords(mediaCache, uploads) /\ KnowsLast
  BY DEF UploadInv, UploadTypes, RightUploads
<1>2. PICK V : V = uploads'
  OBVIOUS
<1>3. /\ V \in Seq(Uploaded) /\ Len(V) = Len(uploads) + 1 /\ V[Len(uploads) + 1] = x
      /\ \A k \in 1..Len(uploads) : V[k] = uploads[k]
      /\ RightRecords(mediaCache, V)
  BY <1>1, <1>2, RightGrows DEF UploadMade
<1>4. x.content = c /\ x.provider = model
  BY DEF UploadMade
<1>5. PICK r : r = [provider |-> model, file |-> Len(uploads) + 2]
  OBVIOUS
<1>6. r \in CacheRecord /\ r.file = Len(uploads) + 2 /\ r.provider = model
  BY <1>1, <1>5 DEF CacheRecord
<1>7. PICK C : C = mediaCache'
  OBVIOUS
<1>8. C \in Caches /\ C[c] = r /\ \A d \in Contents : d # c => C[d] = mediaCache[d]
  <2>1. C = [mediaCache EXCEPT ![c] = r]
    BY <1>5, <1>7 DEF UploadMade
  <2> QED BY <1>1, <1>6, <2>1 DEF Caches
<1>9. RightRecord(r, c, V)
  BY <1>1, <1>3, <1>4, <1>6 DEF RightRecord
<1>10. RightRecords(C, V)
  BY <1>3, <1>8, <1>9 DEF RightRecords
<1>11. r.file # 0
  BY <1>1, <1>6
<1>12. KnowsLast'
  <2>1. ASSUME NEW d \in Contents \ doubtful', NEW k \in 1..Len(V), LastOf(k, d, V)
        PROVE  C[d].file = k + 1 /\ C[d].provider = V[k].provider
    <3>1. CASE d = c
      <4>1. k = Len(uploads) + 1
        <5>1. Len(uploads) + 1 \in 1..Len(V) /\ V[Len(uploads) + 1].content = d
          BY <1>1, <1>3, <1>4, <3>1
        <5>2. ~(k < Len(uploads) + 1)
          BY <2>1, <5>1 DEF LastOf
        <5> QED BY <1>1, <1>3, <5>2
      <4> QED BY <1>1, <1>3, <1>4, <1>6, <1>8, <3>1, <4>1
    <3>2. CASE d # c
      <4>1. k # Len(uploads) + 1
        BY <1>3, <1>4, <2>1, <3>2 DEF LastOf
      <4>2. k \in 1..Len(uploads)
        BY <1>1, <1>3, <4>1
      <4>3. LastOf(k, d, uploads)
        <5>1. \A j \in 1..Len(uploads) : j \in 1..Len(V)
          BY <1>1, <1>3
        <5> QED BY <1>3, <2>1, <4>2, <5>1 DEF LastOf
      <4>4. d \in Contents \ doubtful
        BY DEF UploadMade
      <4>5. mediaCache[d].file = k + 1 /\ mediaCache[d].provider = uploads[k].provider
        BY <1>1, <4>2, <4>3, <4>4 DEF KnowsLast
      <4> QED BY <1>3, <1>8, <3>2, <4>2, <4>5
    <3> QED BY <3>1, <3>2
  <2> QED BY <1>2, <1>7, <2>1 DEF KnowsLast
<1> QED BY <1>2, <1>6, <1>7, <1>8, <1>10, <1>11, <1>12

\* A content goes again to a provider only when it has been elsewhere, or is in doubt.
LEMMA UploadedAgain ==
    ASSUME UploadInv, NEW s \in 1..Len(sends), sends[s].step = "upload",
           BlockOf(s).base64 \in Contents, NEW x \in Uploaded, UploadMade(s, BlockOf(s).base64, x)
    PROVE  UploadedOnce'
<1>1. /\ uploads \in Seq(Uploaded) /\ Len(uploads) \in Nat /\ doubtful \subseteq doubtful'
      /\ KnowsLast /\ UploadedOnce /\ StillNew
  BY DEF UploadInv, UploadTypes, UploadMade
<1>2. PICK V, c : V = uploads' /\ c = BlockOf(s).base64
  OBVIOUS
<1>3. /\ V \in Seq(Uploaded) /\ Len(V) = Len(uploads) + 1 /\ V[Len(uploads) + 1] = x
      /\ \A k \in 1..Len(uploads) : V[k] = uploads[k]
  BY <1>1, <1>2, RightGrows DEF UploadMade
<1>4. x.content = c /\ x.provider = model /\ c \in Contents
  BY <1>2 DEF UploadMade
<1>5. ASSUME NEW i \in 1..Len(V), NEW j \in 1..Len(V), i < j, V[i].content = V[j].content,
             V[i].provider = V[j].provider, V[i].content \notin doubtful'
      PROVE  \E k \in i + 1 .. j - 1 : V[k].content = V[i].content
  <2>1. i \in 1..Len(uploads) /\ i \in Nat /\ j \in Nat
    BY <1>1, <1>3, <1>5
  <2>2. V[i] = uploads[i] /\ V[i].content \notin doubtful
    BY <1>1, <1>3, <1>5, <2>1
  <2>3. CASE j \in 1..Len(uploads)
    <3>1. V[j] = uploads[j]
      BY <1>3, <2>3
    <3>2. i \in DOMAIN uploads /\ j \in DOMAIN uploads
      BY <1>1, <2>1, <2>3
    <3>3. PICK k \in i + 1 .. j - 1 : uploads[k].content = uploads[i].content
      BY <1>1, <1>5, <2>2, <3>1, <3>2 DEF UploadedOnce
    <3>4. k \in 1..Len(uploads)
      BY <1>1, <2>1, <2>3, <3>3
    <3> QED BY <1>3, <2>2, <3>3, <3>4
  <2>4. CASE j = Len(uploads) + 1
    <3>1. uploads[i].content = c /\ uploads[i].provider = model /\ c \notin doubtful
      BY <1>3, <1>4, <1>5, <2>2, <2>4
    <3>2. PICK k \in 1..Len(uploads) : LastOf(k, c, uploads) /\ i <= k
      BY <1>1, <2>1, <3>1, LastThereIs
    <3>3. mediaCache[c].file = k + 1 /\ mediaCache[c].provider = uploads[k].provider
      BY <1>1, <1>4, <3>1, <3>2 DEF KnowsLast
    <3>4. ~IsCached(mediaCache, c, model)
      BY <1>1, <1>2, <3>1 DEF StillNew, BlockOf
    <3>5. uploads[k].provider # model /\ k \in Nat
      BY <3>2, <3>3, <3>4 DEF IsCached
    <3>6. k # i
      BY <3>1, <3>5
    <3>7. k \in i + 1 .. j - 1
      BY <1>1, <2>1, <2>4, <3>2, <3>5, <3>6
    <3>8. V[k].content = V[i].content
      BY <1>3, <2>2, <3>1, <3>2 DEF LastOf
    <3> QED BY <3>7, <3>8
  <2> QED BY <1>1, <1>3, <2>3, <2>4
<1>6. DOMAIN V = 1..Len(V)
  BY <1>3
<1> QED BY <1>2, <1>5, <1>6 DEF UploadedOnce

\* An upload returns.
LEMMA UploadReturnsHolds ==
    ASSUME UploadInv, NEW s \in 1..Len(sends), UploadReturns(s)
    PROVE  UploadInv'
<1>1. PICK c, x : c = BlockOf(s).base64 /\ x = [content |-> c, provider |-> model, send |-> s]
  OBVIOUS
<1>2. /\ c \in Contents /\ UploadMade(s, c, x) /\ sends[s].step = "upload"
      /\ sends' = [sends EXCEPT ![s].step = "open", ![s].records = mediaCache']
      /\ unsure' \in BOOLEAN
      /\ ~unsure' => ~unsure /\ \A t \in 1..Len(sends) : sends[t].step \notin SavingStep
  BY <1>1, UploadIs
<1>3. /\ sends \in Seq(Calls) /\ uploads \in Seq(Uploaded) /\ queued \in Seq(Entry) /\ stored \in Files
      /\ model \in Models /\ Len(sends) \in Nat /\ Len(uploads) \in Nat
      /\ \A t \in 1..Len(sends) : RightCall(sends[t], model, uploads)
      /\ RightRecords(stored.records, uploads)
  BY DEF UploadInv, UploadTypes, RightUploads
<1>4. x \in Uploaded /\ x.send = s /\ x.content = c /\ x.provider = model
  <2>1. s \in Nat
    BY <1>3
  <2> QED BY <1>1, <1>2, <1>3, <2>1 DEF Uploaded
<1>5. /\ mediaCache' \in Caches /\ RightRecords(mediaCache', uploads')
      /\ mediaCache'[c].file # 0 /\ mediaCache'[c].provider = model
      /\ \A d \in Contents : d # c => mediaCache'[d] = mediaCache[d]
      /\ KnowsLast'
  BY <1>2, <1>4, UploadKnows
<1>6. UploadedOnce'
  BY <1>1, <1>2, <1>4, UploadedAgain
<1>7. /\ uploads' = Append(uploads, x) /\ model' = model /\ stored' = stored /\ queued' = queued
      /\ doubtful' \subseteq Contents /\ doubtful \subseteq doubtful'
  BY <1>2 DEF UploadMade
<1>8. PICK V : V = uploads'
  OBVIOUS
<1>9. /\ V \in Seq(Uploaded) /\ Len(V) = Len(uploads) + 1 /\ V[Len(uploads) + 1] = x
      /\ \A k \in 1..Len(uploads) : V[k] = uploads[k]
      /\ \A m, p : \A q \in Seq(Block) : RightBlocks(q, m, p, uploads) => RightBlocks(q, m, p, V)
      /\ \A C \in Caches : RightRecords(C, uploads) => RightRecords(C, V)
      /\ \A p : \A call \in Calls : RightCall(call, p, uploads) => RightCall(call, p, V)
  BY <1>3, <1>4, <1>7, <1>8, RightGrows
<1>10. PICK m \in Messages, a \in Nat, q \in Seq(Block),
            st \in Going \cup {"sent", "rejected", "lost"}, k \in Caches :
            sends[s] = [message |-> m, at |-> a, resolved |-> q, step |-> st, records |-> k]
  <2>1. sends[s] \in Calls
    BY <1>3
  <2> QED BY <2>1 DEF Calls
<1>11. PICK call : call = [message |-> m, at |-> a, resolved |-> q, step |-> "open", records |-> mediaCache']
  OBVIOUS
<1>12. call.message = m /\ call.at = a /\ call.resolved = q /\ call.step = "open" /\ call.records = mediaCache'
  BY <1>11
<1>13. call \in Calls
  BY <1>5, <1>11 DEF Calls, Going
<1>14. sends' = [sends EXCEPT ![s] = call]
  <2>1. PICK old, C : old = sends[s] /\ C = mediaCache'
    OBVIOUS
  <2>2. PICK b : b = [old EXCEPT !.step = "open"]
    OBVIOUS
  <2>3. b = [message |-> m, at |-> a, resolved |-> q, step |-> "open", records |-> k]
    BY <1>10, <2>1, <2>2
  <2>4. [b EXCEPT !.records = C] = call
    BY <1>11, <2>1, <2>3
  <2>5. PICK S : S = [sends EXCEPT ![s].step = "open"]
    OBVIOUS
  <2>6. S = [sends EXCEPT ![s] = b]
    BY <1>3, <2>1, <2>2, <2>5
  <2>7. sends' = [S EXCEPT ![s].records = C]
    BY <1>2, <2>1, <2>5
  <2>8. S[s] = b /\ DOMAIN S = DOMAIN sends /\ \A t \in DOMAIN sends : t # s => S[t] = sends[t]
    BY <1>3, <2>6
  <2>9. sends' = [S EXCEPT ![s] = call]
    BY <2>4, <2>7, <2>8
  <2>10. [S EXCEPT ![s] = call] = [sends EXCEPT ![s] = call]
    BY <2>6
  <2> QED BY <2>9, <2>10
<1>15. /\ sends' \in Seq(Calls) /\ Len(sends') = Len(sends)
       /\ sends'[s] = call /\ \A t \in 1..Len(sends) : t # s => sends'[t] = sends[t]
  BY <1>13, <1>14, OneCallChanges DEF UploadInv
<1>16. RightCall(call, model, V)
  <2>1. sends[s].message = m /\ sends[s].at = a /\ sends[s].resolved = q
    BY <1>10
  <2>2. /\ a \in 1..Len(m) /\ RightBlocks(q, m, model, uploads)
        /\ m[a].type \in {"image", "file"} /\ m[a].base64 = c
    <3>1. RightCall(sends[s], model, uploads) /\ sends[s].step = "upload"
      BY <1>2, <1>3
    <3>2. BlockOf(s) = m[a]
      BY <2>1 DEF BlockOf
    <3> QED BY <1>1, <2>1, <3>1, <3>2 DEF RightCall, Going
  <2>3. RightBlocks(q, m, model, V)
    BY <1>9, <2>2
  <2> QED BY <1>2, <1>5, <1>8, <1>12, <2>2, <2>3 DEF RightCall
<1>17. RightUploads'
  <2>1. \A t \in 1..Len(sends) : RightCall(sends'[t], model, V)
    BY <1>3, <1>9, <1>15, <1>16
  <2>2. \A j \in 1..Len(queued) : RightQueued(queued[j], sends', V)
    BY <1>2, <1>9, <1>15, QueuedStays
  <2>3. ASSUME NEW j \in 1..Len(V)
        PROVE  V[j].send \in 1..Len(sends) /\ sends'[V[j].send].step # "rejected"
    <3>1. CASE j \in 1..Len(uploads)
      <4>1. V[j] = uploads[j] /\ uploads[j].send \in 1..Len(sends) /\ sends[uploads[j].send].step # "rejected"
        BY <1>9, <3>1 DEF UploadInv, RightUploads
      <4> QED BY <1>12, <1>15, <4>1
    <3>2. CASE j = Len(uploads) + 1
      BY <1>4, <1>9, <1>12, <1>15, <3>2
    <3> QED BY <1>3, <1>9, <3>1, <3>2
  <2>4. RightRecords(stored.records, V)
    <3>1. stored.records \in Caches
      BY <1>3 DEF Files
    <3> QED BY <1>3, <1>9, <3>1
  <2> QED BY <1>5, <1>7, <1>8, <1>15, <2>1, <2>2, <2>3, <2>4 DEF RightUploads
<1>18. StillNew'
  <2>1. ASSUME NEW t \in 1..Len(sends'), sends'[t].step = "upload"
        PROVE  LET d == sends'[t].message[sends'[t].at].base64
               IN d \in doubtful' \/ ~IsCached(mediaCache', d, model)
    <3>1. t # s /\ t \in 1..Len(sends)
      BY <1>12, <1>15, <2>1
    <3>2. sends'[t] = sends[t] /\ sends[t].step = "upload"
      BY <1>15, <2>1, <3>1
    <3>3. PICK d : d = BlockOf(t).base64
      OBVIOUS
    <3>4. sends'[t].message[sends'[t].at].base64 = d
      BY <3>2, <3>3 DEF BlockOf
    <3>5. CASE d = c
      BY <1>2, <3>1, <3>2, <3>3, <3>4, <3>5 DEF UploadMade
    <3>6. CASE d # c
      <4>1. d \in Contents
        <5>1. RightCall(sends[t], model, uploads)
          BY <1>3, <3>1
        <5> QED BY <3>2, <3>3, <5>1 DEF RightCall, Going, BlockOf
      <4>2. mediaCache'[d] = mediaCache[d]
        BY <1>5, <3>6, <4>1
      <4>3. d \in doubtful \/ ~IsCached(mediaCache, d, model)
        BY <3>1, <3>2, <3>3 DEF UploadInv, StillNew, BlockOf
      <4> QED BY <1>7, <3>4, <4>2, <4>3 DEF IsCached
    <3> QED BY <3>5, <3>6
  <2> QED BY <1>7, <2>1 DEF StillNew
<1>19. ~unsure' => OneSave'
  <2>1. SUFFICES ASSUME ~unsure' PROVE OneSave'
    OBVIOUS
  <2>2. \A t \in 1..Len(sends') : sends'[t].step \in SavingStep => t = s
    BY <1>2, <1>15, <2>1
  <2>3. s \in 1..Len(sends') /\ sends'[s].step = "open" /\ sends'[s].records = mediaCache'
    BY <1>12, <1>15
  <2> QED BY <2>2, <2>3 DEF OneSave, SavingStep
<1>20. UploadTypes'
  BY <1>2, <1>3, <1>5, <1>7, <1>8, <1>9, <1>15 DEF UploadTypes
<1> QED BY <1>5, <1>6, <1>17, <1>18, <1>19, <1>20 DEF UploadInv
\* The file is opened, which empties it.
LEMMA OpenCacheHolds ==
    ASSUME UploadInv, NEW s \in 1..Len(sends), OpenCache(s)
    PROVE  UploadInv'
<1>1. /\ sends[s].step = "open" /\ sends' = [sends EXCEPT ![s].step = "write"]
      /\ model' = model /\ mediaCache' = mediaCache /\ uploads' = uploads /\ queued' = queued
      /\ doubtful' = doubtful /\ unsure' = unsure
  BY DEF OpenCache, SendAt
<1>2. /\ sends \in Seq(Calls) /\ uploads \in Seq(Uploaded) /\ queued \in Seq(Entry) /\ stored \in Files
      /\ Len(sends) \in Nat
      /\ \A t \in 1..Len(sends) : RightCall(sends[t], model, uploads)
      /\ RightRecords(stored.records, uploads)
  BY DEF UploadInv, UploadTypes, RightUploads
<1>3. stored' \in Files /\ stored'.records = stored.records /\ stored'.text = ""
  <2>1. stored' = [stored EXCEPT !.text = ""]
    BY DEF OpenCache
  <2>2. PICK w \in {"", "whole", "mixed"}, k \in Caches : stored = [text |-> w, records |-> k]
    BY <1>2 DEF Files
  <2>3. stored' = [text |-> "", records |-> k]
    BY <2>1, <2>2
  <2> QED BY <2>2, <2>3 DEF Files
<1>4. PICK m \in Messages, a \in Nat, q \in Seq(Block),
            st \in Going \cup {"sent", "rejected", "lost"}, k \in Caches :
            sends[s] = [message |-> m, at |-> a, resolved |-> q, step |-> st, records |-> k]
  <2>1. sends[s] \in Calls
    BY <1>2
  <2> QED BY <2>1 DEF Calls
<1>5. PICK call : call = [message |-> m, at |-> a, resolved |-> q, step |-> "write", records |-> k]
  OBVIOUS
<1>6. call.message = m /\ call.at = a /\ call.resolved = q /\ call.step = "write" /\ call.records = k
  BY <1>5
<1>7. call \in Calls
  BY <1>5 DEF Calls, Going
<1>8. sends' = [sends EXCEPT ![s] = call]
  <2>1. PICK old : old = sends[s]
    OBVIOUS
  <2>2. [old EXCEPT !.step = "write"] = call
    BY <1>4, <1>5, <2>1
  <2> QED BY <1>1, <1>2, <2>1, <2>2
<1>9. /\ sends' \in Seq(Calls) /\ Len(sends') = Len(sends)
      /\ sends'[s] = call /\ \A t \in 1..Len(sends) : t # s => sends'[t] = sends[t]
  BY <1>7, <1>8, OneCallChanges DEF UploadInv
<1>10. sends[s].message = m /\ sends[s].at = a /\ sends[s].resolved = q /\ sends[s].records = k
  BY <1>4
<1>11. RightCall(call, model, uploads)
  <2>1. RightCall(sends[s], model, uploads)
    BY <1>2
  <2> QED BY <1>1, <1>6, <1>10, <2>1 DEF RightCall, Going
<1>12. RightUploads'
  <2>1. \A t \in 1..Len(sends) : RightCall(sends'[t], model, uploads)
    BY <1>2, <1>9, <1>11
  <2>2. \A j \in 1..Len(queued) : RightQueued(queued[j], sends', uploads)
    BY <1>1, <1>9, QueuedStays
  <2>3. \A j \in 1..Len(uploads) : uploads[j].send \in 1..Len(sends) /\ sends'[uploads[j].send].step # "rejected"
    <3>1. \A t \in 1..Len(sends) : sends[t].step # "rejected" => sends'[t].step # "rejected"
      BY <1>6, <1>9
    <3> QED BY <3>1 DEF UploadInv, RightUploads
  <2> QED BY <1>1, <1>3, <1>9, <2>1, <2>2, <2>3 DEF RightUploads, UploadInv
<1>13. UploadedOnce' /\ KnowsLast'
  <2>1. UploadedOnce'
    BY <1>1 DEF UploadInv, UploadedOnce
  <2>2. KnowsLast'
    BY <1>1 DEF UploadInv, KnowsLast
  <2> QED BY <2>1, <2>2
<1>14. StillNew'
  <2>1. \A t \in 1..Len(sends') : sends'[t].step = "upload" => t \in 1..Len(sends) /\ sends'[t] = sends[t]
    BY <1>6, <1>9
  <2> QED BY <1>1, <2>1 DEF StillNew, UploadInv
<1>15. ~unsure' => OneSave'
  <2>1. SUFFICES ASSUME ~unsure PROVE OneSave'
    BY <1>1
  <2>2. OneSave
    BY <2>1 DEF UploadInv
  <2>3. \A t \in 1..Len(sends') : sends'[t].step \in SavingStep => t = s
    <3>1. \A t \in 1..Len(sends) : sends[t].step \in SavingStep => t = s
      BY <1>1, <2>2 DEF OneSave, SavingStep
    <3> QED BY <1>9, <3>1
  <2>4. sends'[s].records = mediaCache' /\ s \in 1..Len(sends') /\ sends'[s].step \in SavingStep
    BY <1>1, <1>6, <1>9, <1>10, <2>2 DEF OneSave, SavingStep
  <2>5. \A t \in 1..Len(sends') : sends'[t].step = "write" => sends'[t].step \in SavingStep
    BY DEF SavingStep
  <2> QED BY <1>3, <2>3, <2>4, <2>5 DEF OneSave
<1>16. UploadTypes'
  BY <1>1, <1>3, <1>9 DEF UploadTypes, UploadInv
<1> QED BY <1>12, <1>13, <1>14, <1>15, <1>16 DEF UploadInv

-----------------------------------------------------------------------------
\* The calls under way are lost in a crash, and the others stay.
LEMMA CallsLost ==
    ASSUME UploadInv, NEW provider \in MediaProviders, Restart(provider)
    PROVE  /\ sends' \in Seq(Calls) /\ Len(sends') = Len(sends)
           /\ \A t \in 1..Len(sends) :
                 /\ sends'[t].step \in {"sent", "rejected", "lost"} /\ sends'[t].records = sends[t].records
                 /\ sends[t].step \in {"sent", "rejected"} => sends'[t] = sends[t]
                 /\ sends[t].step # "rejected" => sends'[t].step # "rejected"
<1>1. sends \in Seq(Calls) /\ Len(sends) \in Nat /\ DOMAIN sends = 1..Len(sends)
  BY DEF UploadInv, UploadTypes
<1> DEFINE Lost(t) == IF sends[t].step \in {"sent", "rejected"} THEN sends[t] ELSE [sends[t] EXCEPT !.step = "lost"]
<1>2. sends' = [t \in 1..Len(sends) |-> Lost(t)]
  BY <1>1 DEF Restart
<1>3. ASSUME NEW t \in 1..Len(sends)
      PROVE  /\ Lost(t) \in Calls /\ Lost(t).step \in {"sent", "rejected", "lost"}
             /\ Lost(t).records = sends[t].records
             /\ sends[t].step \in {"sent", "rejected"} => Lost(t) = sends[t]
             /\ sends[t].step # "rejected" => Lost(t).step # "rejected"
  <2>1. sends[t] \in Calls
    BY <1>1
  <2>2. PICK old : old = sends[t]
    OBVIOUS
  <2>3. PICK m \in Messages, a \in Nat, q \in Seq(Block),
              st \in Going \cup {"sent", "rejected", "lost"}, k \in Caches :
              old = [message |-> m, at |-> a, resolved |-> q, step |-> st, records |-> k]
    BY <2>1, <2>2 DEF Calls
  <2>4. PICK new : new = [old EXCEPT !.step = "lost"]
    OBVIOUS
  <2>5. new = [message |-> m, at |-> a, resolved |-> q, step |-> "lost", records |-> k]
    BY <2>3, <2>4
  <2>6. new \in Calls /\ new.step = "lost" /\ new.records = old.records
    BY <2>3, <2>5 DEF Calls
  <2>7. Lost(t) = IF old.step \in {"sent", "rejected"} THEN old ELSE new
    BY <2>2, <2>4
  <2> HIDE DEF Lost
  <2> QED BY <2>1, <2>2, <2>6, <2>7
<1> HIDE DEF Lost
<1>4. sends' \in [1..Len(sends) -> Calls]
  BY <1>2, <1>3
<1>5. sends' \in Seq(Calls) /\ Len(sends') = Len(sends)
  BY <1>1, <1>4, LenProperties
<1>6. \A t \in 1..Len(sends) : sends'[t] = Lost(t)
  BY <1>2
<1> QED BY <1>3, <1>5, <1>6

\* The agent is resumed.
LEMMA RestartHolds ==
    ASSUME UploadInv, NEW provider \in MediaProviders, Restart(provider)
    PROVE  UploadInv'
<1>1. /\ model' = provider /\ mediaCache' = LoadMediaCache
      /\ stored' = stored /\ uploads' = uploads /\ queued' = queued /\ unsure' = unsure
      /\ doubtful' = IF unsure \/ \E s \in DOMAIN sends : sends[s].step \in {"open", "write"}
                     THEN Contents ELSE doubtful
  BY DEF Restart
<1>2. /\ sends \in Seq(Calls) /\ uploads \in Seq(Uploaded) /\ queued \in Seq(Entry) /\ stored \in Files
      /\ Len(sends) \in Nat /\ DOMAIN sends = 1..Len(sends)
      /\ \A t \in 1..Len(sends) : RightCall(sends[t], model, uploads)
      /\ RightRecords(stored.records, uploads) /\ doubtful \subseteq Contents /\ unsure \in BOOLEAN
  BY DEF UploadInv, UploadTypes, RightUploads
<1>3. /\ sends' \in Seq(Calls) /\ Len(sends') = Len(sends)
      /\ \A t \in 1..Len(sends) :
            /\ sends'[t].step \in {"sent", "rejected", "lost"} /\ sends'[t].records = sends[t].records
            /\ sends[t].step \in {"sent", "rejected"} => sends'[t] = sends[t]
            /\ sends[t].step # "rejected" => sends'[t].step # "rejected"
  BY CallsLost
<1>4. LoadMediaCache \in Caches /\ RightRecords(LoadMediaCache, uploads)
  <2>1. stored.records \in Caches
    BY <1>2 DEF Files
  <2> QED BY <1>2, <2>1, NothingRecorded DEF LoadMediaCache
<1>5. KnowsLast' /\ UploadedOnce' /\ doubtful' \subseteq Contents
  <2>1. CASE unsure \/ \E s \in DOMAIN sends : sends[s].step \in {"open", "write"}
    <3>1. doubtful' = Contents
      BY <1>1, <2>1
    <3>2. KnowsLast'
      BY <3>1 DEF KnowsLast
    <3>3. \A i \in DOMAIN uploads : uploads[i].content \in Contents
      <4>1. \A i \in DOMAIN uploads : uploads[i] \in Uploaded
        BY <1>2
      <4> QED BY <4>1 DEF Uploaded
    <3>4. UploadedOnce'
      BY <1>1, <3>1, <3>3 DEF UploadedOnce
    <3> QED BY <3>1, <3>2, <3>4
  <2>2. CASE ~(unsure \/ \E s \in DOMAIN sends : sends[s].step \in {"open", "write"})
    <3>1. doubtful' = doubtful
      BY <1>1, <2>2
    <3>2. OneSave /\ \A s \in 1..Len(sends) : sends[s].step \notin SavingStep
      BY <1>2, <2>2 DEF UploadInv, SavingStep
    <3>3. mediaCache' = mediaCache
      BY <1>1, <3>2 DEF OneSave
    <3>4. KnowsLast'
      BY <1>1, <3>1, <3>3 DEF UploadInv, KnowsLast
    <3>5. UploadedOnce'
      BY <1>1, <3>1 DEF UploadInv, UploadedOnce
    <3> QED BY <1>2, <3>1, <3>4, <3>5
  <2> QED BY <2>1, <2>2
<1>6. RightUploads'
  <2>1. ASSUME NEW t \in 1..Len(sends) PROVE RightCall(sends'[t], model', uploads)
    <3>1. sends'[t].step \notin Going /\ sends'[t].step \notin {"open", "write"}
      BY <1>3 DEF Going
    <3>2. RightRecords(sends'[t].records, uploads)
      BY <1>2, <1>3 DEF RightCall
    <3> QED BY <3>1, <3>2 DEF RightCall
  <2>2. ASSUME NEW j \in 1..Len(queued) PROVE RightQueued(queued[j], sends', uploads)
    <3>1. RightQueued(queued[j], sends, uploads)
      BY DEF UploadInv, RightUploads
    <3>2. PICK t : t = queued[j].send
      OBVIOUS
    <3>3. t \in 1..Len(sends) /\ sends'[t] = sends[t]
      BY <1>3, <3>1, <3>2 DEF RightQueued
    <3> QED BY <1>3, <3>1, <3>2, <3>3 DEF RightQueued
  <2>3. \A j \in 1..Len(uploads) : uploads[j].send \in 1..Len(sends) /\ sends'[uploads[j].send].step # "rejected"
    BY <1>3 DEF UploadInv, RightUploads
  <2> QED BY <1>1, <1>2, <1>3, <1>4, <2>1, <2>2, <2>3 DEF RightUploads
<1>7. \A t \in 1..Len(sends') : sends'[t].step \notin SavingStep /\ sends'[t].step \notin {"upload", "write"}
  BY <1>3 DEF SavingStep
<1>8. StillNew'
  BY <1>7 DEF StillNew
<1>9. OneSave'
  <2>1. LoadMediaCache' = LoadMediaCache
    BY <1>1 DEF LoadMediaCache
  <2> QED BY <1>1, <1>7, <2>1 DEF OneSave
<1>10. UploadTypes'
  <2>1. model' \in Models
    BY <1>1 DEF Models
  <2> QED BY <1>1, <1>2, <1>3, <1>4, <1>5, <2>1 DEF UploadTypes
<1> QED BY <1>5, <1>6, <1>8, <1>9, <1>10 DEF UploadInv

-----------------------------------------------------------------------------
\* Every step keeps the invariant, which holds what is promised of uploads.
LEMMA UploadStep == UploadInv /\ [UploadNext]_uploadVars => UploadInv'
<1>1. CASE UNCHANGED uploadVars
  <2>1. /\ model' = model /\ sends' = sends /\ mediaCache' = mediaCache /\ stored' = stored
        /\ uploads' = uploads /\ queued' = queued /\ doubtful' = doubtful /\ unsure' = unsure
    BY <1>1 DEF uploadVars
  <2>2. ASSUME UploadInv PROVE UploadInv'
    <3>1. UploadTypes' /\ RightUploads'
      BY <2>1, <2>2 DEF UploadInv, UploadTypes, RightUploads
    <3>2. UploadedOnce' /\ KnowsLast'
      BY <2>1, <2>2 DEF UploadInv, UploadedOnce, KnowsLast
    <3>3. StillNew'
      BY <2>1, <2>2 DEF UploadInv, StillNew
    <3>4. LoadMediaCache' = LoadMediaCache
      BY <2>1 DEF LoadMediaCache
    <3>5. ~unsure' => OneSave'
      BY <2>1, <2>2, <3>4 DEF UploadInv, OneSave
    <3> QED BY <3>1, <3>2, <3>3, <3>5 DEF UploadInv
  <2> QED BY <2>2
<1>2. ASSUME UploadInv, UploadNext PROVE UploadInv'
  <2>1. DOMAIN sends = 1..Len(sends)
    BY <1>2 DEF UploadInv, UploadTypes
  <2>2. CASE \E message \in Messages : Send(message)
    BY <1>2, <2>2, SendHolds
  <2>3. CASE \E s \in DOMAIN sends : CallbackReturns(s)
    BY <1>2, <2>1, <2>3, CallbackHolds
  <2>4. CASE \E s \in DOMAIN sends : UploadReturns(s)
    BY <1>2, <2>1, <2>4, UploadReturnsHolds
  <2>5. CASE \E s \in DOMAIN sends : UploadFails(s)
    BY <1>2, <2>1, <2>5, UploadFailsHolds
  <2>6. CASE \E s \in DOMAIN sends : OpenCache(s)
    BY <1>2, <2>1, <2>6, OpenCacheHolds
  <2>7. CASE \E s \in DOMAIN sends : WriteCache(s)
    BY <1>2, <2>1, <2>7, WriteCacheHolds
  <2>8. CASE \E s \in DOMAIN sends : SaveFails(s)
    BY <1>2, <2>1, <2>8, SaveFailsHolds
  <2>9. CASE \E provider \in MediaProviders : Restart(provider)
    BY <1>2, <2>9, RestartHolds
  <2> QED BY <1>2, <2>2, <2>3, <2>4, <2>5, <2>6, <2>7, <2>8, <2>9, Zenon DEF UploadNext
<1> QED BY <1>1, <1>2

\* The invariant holds what is promised of uploads.
LEMMA UploadsKeptByInv == UploadInv => UploadsKept
<1> SUFFICES ASSUME UploadInv PROVE UploadsKept
  OBVIOUS
<1>1. /\ sends \in Seq(Calls) /\ uploads \in Seq(Uploaded) /\ queued \in Seq(Entry)
      /\ Len(sends) \in Nat /\ Len(uploads) \in Nat /\ Len(queued) \in Nat
      /\ DOMAIN uploads = 1..Len(uploads) /\ DOMAIN queued = 1..Len(queued)
  BY DEF UploadInv, UploadTypes
<1>2. ASSUME NEW q \in Range(queued), NEW b \in Range(q.blocks), b.type \in MediaTypes, b.file \notin {0, Theirs}
      PROVE  /\ uploads[b.file - 1].provider = q.provider
             /\ \E sent \in Range(sends[q.send].message) :
                   sent.type = b.type /\ sent.base64 = uploads[b.file - 1].content
  <2>1. PICK j \in 1..Len(queued) : q = queued[j]
    BY <1>1 DEF Range
  <2>2. q \in Entry /\ RightQueued(q, sends, uploads)
    BY <1>1, <2>1 DEF UploadInv, RightUploads
  <2>3. q.blocks \in Seq(Block)
    BY <2>2 DEF Entry
  <2>4. PICK k \in 1..Len(q.blocks) : b = q.blocks[k]
    BY <2>3 DEF Range
  <2>5. PICK m : m = sends[q.send].message
    OBVIOUS
  <2>6. RightBlock(b, m, q.provider, uploads)
    BY <2>2, <2>4, <2>5 DEF RightQueued, RightBlocks
  <2>7. m \in Messages /\ DOMAIN m = 1..Len(m)
    <3>1. sends[q.send] \in Calls
      BY <1>1, <2>2 DEF RightQueued
    <3>2. m \in Messages
      BY <2>5, <3>1 DEF Calls
    <3> QED BY <3>2, MessageBlocks
  <2>8. PICK i \in 1..Len(m) : m[i].type = b.type /\ m[i].base64 = uploads[b.file - 1].content
    BY <1>2, <2>6 DEF RightBlock
  <2>9. m[i] \in Range(m)
    BY <2>7, <2>8 DEF Range
  <2>10. uploads[b.file - 1].provider = q.provider
    BY <1>2, <2>6 DEF RightBlock
  <2> QED BY <2>5, <2>8, <2>9, <2>10
<1>3. FileIdsAreRight
  BY <1>2 DEF FileIdsAreRight
<1>4. \A u \in Range(uploads) : ~SendAt(u.send, "rejected")
  BY <1>1 DEF Range, UploadInv, RightUploads, SendAt
<1>5. \A q \in Range(queued) : SendAt(q.send, "sent")
  BY <1>1 DEF Range, UploadInv, RightUploads, RightQueued, SendAt
<1> QED BY <1>3, <1>4, <1>5 DEF UploadsKept, RejectedLeavesNothing, UploadInv

\* File ids that reach the model are right, what is rejected leaves nothing, and
\* nothing is uploaded twice without a reason, whatever is sent, however many
\* calls of send() there are at once, and whatever fails.
THEOREM UploadsHold == UploadSpec => []UploadsKept
<1>1. UploadInit => UploadInv
  BY UploadInitHolds
<1>2. UploadInv /\ [UploadNext]_uploadVars => UploadInv'
  BY UploadStep
<1>3. UploadInv => UploadsKept
  BY UploadsKeptByInv
<1> QED BY <1>1, <1>2, <1>3, PTL DEF UploadSpec

-----------------------------------------------------------------------------
(* Fork points (ForkPoints).                                               *)

Thoughts == {"signed", "plain"}
\* Only the model makes calls.
Spoken == [role : {"user", "assistant"}, uses : SUBSET ForkCalls, results : SUBSET ForkCalls,
           thoughts : SUBSET Thoughts]
UsersCallNothing(spoken) == \A i \in 1..Len(spoken) : spoken[i].role = "user" => spoken[i].uses = {}
TalkOK == talk \in Seq(Spoken) /\ UsersCallNothing(talk)

\* A conversation in which only the thoughts are others.
SameButThoughts(spoken, others) ==
    /\ others \in Seq(Spoken) /\ Len(others) = Len(spoken)
    /\ \A i \in 1..Len(spoken) :
          /\ others[i].role = spoken[i].role /\ others[i].uses = spoken[i].uses
          /\ others[i].results = spoken[i].results

-----------------------------------------------------------------------------
\* A message with other thoughts.
LEMMA ThoughtsChange ==
    ASSUME NEW m \in Spoken, NEW t \in SUBSET Thoughts
    PROVE  LET n == [m EXCEPT !.thoughts = t]
           IN n \in Spoken /\ n.role = m.role /\ n.uses = m.uses /\ n.results = m.results /\ n.thoughts = t
<1>1. PICK r \in {"user", "assistant"}, u \in SUBSET ForkCalls, s \in SUBSET ForkCalls, o \in SUBSET Thoughts :
          m = [role |-> r, uses |-> u, results |-> s, thoughts |-> o]
  BY DEF Spoken
<1>2. PICK n : n = [m EXCEPT !.thoughts = t]
  OBVIOUS
<1>3. n = [role |-> r, uses |-> u, results |-> s, thoughts |-> t]
  BY <1>1, <1>2
<1>4. n \in Spoken
  BY <1>3 DEF Spoken
<1> QED BY <1>1, <1>2, <1>3, <1>4

\* Every handler keeps some of the thoughts, and DeepSeek's none.
LEMMA ThoughtsKept ==
    ASSUME NEW provider, NEW t \in SUBSET Thoughts
    PROVE  Kept(provider, t) \in SUBSET Thoughts /\ (provider = "deepseek" => Kept(provider, t) = {})
BY DEF Kept, AnthropicResume, OpenaiChatResume, GeminiResume, DeepseekResume

\* Preparing for a provider changes thoughts only, as its handler has it.
LEMMA PreparedIs ==
    ASSUME NEW spoken \in Seq(Spoken), NEW provider
    PROVE  LET prepared == PrepareMessagesForResume(spoken, provider)
           IN /\ SameButThoughts(spoken, prepared)
              /\ \A i \in 1..Len(spoken) : spoken[i].role = "assistant" =>
                    prepared[i].thoughts = Kept(provider, spoken[i].thoughts)
<1>1. Len(spoken) \in Nat /\ DOMAIN spoken = 1..Len(spoken)
  OBVIOUS
<1>2. PICK P : P = PrepareMessagesForResume(spoken, provider)
  OBVIOUS
<1>3. P = [i \in 1..Len(spoken) |->
              IF spoken[i].role = "assistant"
              THEN [spoken[i] EXCEPT !.thoughts = Kept(provider, spoken[i].thoughts)] ELSE spoken[i]]
  BY <1>1, <1>2 DEF PrepareMessagesForResume
<1>4. ASSUME NEW i \in 1..Len(spoken)
      PROVE  /\ P[i] \in Spoken /\ P[i].role = spoken[i].role /\ P[i].uses = spoken[i].uses
             /\ P[i].results = spoken[i].results
             /\ spoken[i].role = "assistant" => P[i].thoughts = Kept(provider, spoken[i].thoughts)
  <2>1. spoken[i] \in Spoken
    BY <1>1
  <2>2. PICK m, t : m = spoken[i] /\ t = Kept(provider, m.thoughts)
    OBVIOUS
  <2>3. m \in Spoken /\ t \in SUBSET Thoughts
    <3>1. m.thoughts \in SUBSET Thoughts
      BY <2>1, <2>2 DEF Spoken
    <3> QED BY <2>1, <2>2, <3>1, ThoughtsKept
  <2>4. PICK n : n = [m EXCEPT !.thoughts = t]
    OBVIOUS
  <2>5. n \in Spoken /\ n.role = m.role /\ n.uses = m.uses /\ n.results = m.results /\ n.thoughts = t
    BY <2>3, <2>4, ThoughtsChange
  <2>6. P[i] = IF m.role = "assistant" THEN n ELSE m
    BY <1>3, <2>2, <2>4
  <2> QED BY <2>2, <2>3, <2>5, <2>6
<1>5. P \in Seq(Spoken) /\ Len(P) = Len(spoken)
  <2>1. DOMAIN P = 1..Len(spoken)
    BY <1>3
  <2>2. P = [i \in 1..Len(spoken) |-> P[i]]
    BY <1>3, <2>1
  <2>3. P \in [1..Len(spoken) -> Spoken]
    BY <1>4, <2>2
  <2>4. P \in Seq(Spoken)
    BY <1>1, <2>3
  <2> QED BY <1>1, <2>1, <2>4, LenProperties
<1> QED BY <1>2, <1>4, <1>5 DEF SameButThoughts

\* So does storing.
LEMMA SerializedIs ==
    ASSUME NEW spoken \in Seq(Spoken), NEW transport
    PROVE  SameButThoughts(spoken, SerializeForResume(spoken, transport))
<1>1. Len(spoken) \in Nat /\ DOMAIN spoken = 1..Len(spoken)
  OBVIOUS
<1>2. PICK P : P = SerializeForResume(spoken, transport)
  OBVIOUS
<1>3. P = [i \in 1..Len(spoken) |->
              [spoken[i] EXCEPT !.thoughts = IF transport = "provider" THEN spoken[i].thoughts ELSE {}]]
  BY <1>1, <1>2 DEF SerializeForResume
<1>4. ASSUME NEW i \in 1..Len(spoken)
      PROVE  /\ P[i] \in Spoken /\ P[i].role = spoken[i].role /\ P[i].uses = spoken[i].uses
             /\ P[i].results = spoken[i].results
  <2>1. PICK m, t : m = spoken[i] /\ t = IF transport = "provider" THEN m.thoughts ELSE {}
    OBVIOUS
  <2>2. m \in Spoken /\ t \in SUBSET Thoughts
    <3>1. m \in Spoken
      BY <1>1, <2>1
    <3> QED BY <2>1, <3>1 DEF Spoken
  <2>3. PICK n : n = [m EXCEPT !.thoughts = t]
    OBVIOUS
  <2>4. n \in Spoken /\ n.role = m.role /\ n.uses = m.uses /\ n.results = m.results
    BY <2>2, <2>3, ThoughtsChange
  <2>5. P[i] = n
    BY <1>3, <2>1, <2>3
  <2> QED BY <2>1, <2>4, <2>5
<1>5. P \in Seq(Spoken) /\ Len(P) = Len(spoken)
  <2>1. DOMAIN P = 1..Len(spoken)
    BY <1>3
  <2>2. P = [i \in 1..Len(spoken) |-> P[i]]
    BY <1>3, <2>1
  <2>3. P \in [1..Len(spoken) -> Spoken]
    BY <1>4, <2>2
  <2>4. P \in Seq(Spoken)
    BY <1>1, <2>3
  <2> QED BY <1>1, <2>1, <2>4, LenProperties
<1> QED BY <1>2, <1>4, <1>5 DEF SameButThoughts

-----------------------------------------------------------------------------
\* Nothing is said at first.
LEMMA ForkInitHolds == ForkInit => TalkOK
<1> SUFFICES ASSUME ForkInit PROVE TalkOK
  OBVIOUS
<1>1. talk = <<>> /\ talk \in Seq(Spoken) /\ Len(talk) = 0
  BY DEF ForkInit
<1> QED BY <1>1 DEF TalkOK, UsersCallNothing

\* A message is added.
LEMMA AddHolds ==
    ASSUME TalkOK, NEW m \in Spoken, m.role = "user" => m.uses = {}, Add(m)
    PROVE  TalkOK'
<1>1. talk' = Append(talk, m) /\ talk \in Seq(Spoken) /\ Len(talk) \in Nat
  BY DEF Add, TalkOK
<1>2. /\ talk' \in Seq(Spoken) /\ Len(talk') = Len(talk) + 1 /\ talk'[Len(talk) + 1] = m
      /\ \A i \in 1..Len(talk) : talk'[i] = talk[i]
  BY <1>1, AppendProperties
<1>3. ASSUME NEW i \in 1..Len(talk'), talk'[i].role = "user" PROVE talk'[i].uses = {}
  <2>1. CASE i \in 1..Len(talk)
    BY <1>2, <1>3, <2>1 DEF TalkOK, UsersCallNothing
  <2>2. CASE i = Len(talk) + 1
    BY <1>2, <1>3, <2>2
  <2> QED BY <1>1, <1>2, <2>1, <2>2
<1> QED BY <1>2, <1>3 DEF TalkOK, UsersCallNothing

\* Every step leaves a conversation in which only the model makes calls.
LEMMA ForkStepHolds == TalkOK /\ [ForkNext]_forkVars => TalkOK'
<1> SUFFICES ASSUME TalkOK, [ForkNext]_forkVars PROVE TalkOK'
  OBVIOUS
<1>0. talk \in Seq(Spoken) /\ Len(talk) \in Nat /\ DOMAIN talk = 1..Len(talk)
  BY DEF TalkOK
<1>1. CASE UNCHANGED forkVars
  BY <1>1 DEF forkVars, TalkOK, UsersCallNothing
<1>2. CASE UserWrites
  <2>1. PICK m : m = Says("user", {}, {}, {}) /\ Add(m)
    BY <1>2 DEF UserWrites
  <2>2. m \in Spoken /\ m.uses = {}
    BY <2>1 DEF Says, Spoken
  <2> QED BY <2>1, <2>2, AddHolds
<1>3. CASE ModelAnswers
  <2>1. PICK uses \in SUBSET (ForkCalls \ Used), thoughts \in SUBSET {"signed", "plain"} :
            Add(Says("assistant", uses, {}, thoughts))
    BY <1>3 DEF ModelAnswers
  <2>2. PICK m : m = Says("assistant", uses, {}, thoughts)
    OBVIOUS
  <2>3. m \in Spoken /\ m.role = "assistant"
    BY <2>2 DEF Says, Spoken, Thoughts
  <2> QED BY <2>1, <2>2, <2>3, AddHolds
<1>4. CASE ToolsReturn
  <2>0. PICK k \in DOMAIN talk : \E results \in SUBSET talk[k].uses : Add(Says("user", {}, results, {}))
    BY <1>4 DEF ToolsReturn
  <2>1. PICK results \in SUBSET talk[k].uses : Add(Says("user", {}, results, {}))
    BY <2>0
  <2>2. PICK m : m = Says("user", {}, results, {})
    OBVIOUS
  <2>3. results \subseteq ForkCalls
    <3>1. talk[k] \in Spoken
      BY <1>0
    <3> QED BY <3>1 DEF Spoken
  <2>4. m \in Spoken /\ m.uses = {}
    BY <2>2, <2>3 DEF Says, Spoken
  <2> QED BY <2>1, <2>2, <2>4, AddHolds
<1>5. ASSUME NEW i \in DOMAIN talk, ForkAt(i) PROVE TalkOK'
  <2>1. PICK s : s = SubSeq(talk, 1, i) /\ talk' = s
    BY <1>5 DEF ForkAt
  <2>2. /\ s \in Seq(Spoken) /\ Len(s) = i
        /\ \A j \in 1..i : s[j] = talk[j]
    <3>1. 1 \in 1..(Len(talk) + 1) /\ i \in 1..Len(talk) /\ i \in 0..Len(talk)
      BY <1>0
    <3>2. s \in Seq(Spoken) /\ Len(s) = i
      BY <1>0, <2>1, <3>1, SubSeqProperties
    <3>3. \A j \in 1..i : s[j] = talk[j]
      BY <1>0, <2>1, <3>1, SubSeqProperties
    <3> QED BY <3>2, <3>3
  <2>3. \A j \in 1..i : j \in 1..Len(talk)
    BY <1>0
  <2> QED BY <2>1, <2>2, <2>3 DEF TalkOK, UsersCallNothing
<1>6. ASSUME NEW P, SameButThoughts(talk, P), talk' = P PROVE TalkOK'
  BY <1>6 DEF TalkOK, UsersCallNothing, SameButThoughts
<1>7. ASSUME NEW provider \in ResumeProviders, Resume(provider) PROVE TalkOK'
  <2>1. talk' = PrepareMessagesForResume(talk, provider)
    BY <1>7 DEF Resume
  <2>2. SameButThoughts(talk, PrepareMessagesForResume(talk, provider))
    BY <1>0, PreparedIs
  <2> QED BY <1>6, <2>1, <2>2
<1>8. ASSUME NEW transport, Store(transport) PROVE TalkOK'
  <2>1. talk' = SerializeForResume(talk, transport)
    BY <1>8 DEF Store
  <2> QED BY <1>0, <1>6, <2>1, SerializedIs
<1> QED BY <1>1, <1>2, <1>3, <1>4, <1>5, <1>7, <1>8 DEF ForkNext

-----------------------------------------------------------------------------
\* What Anthropic accepts: each call is answered by the next message, if there is one.
LEMMA AcceptedIs ==
    ASSUME TalkOK, ValidateMessagesForResume(talk, "anthropic"), NEW k \in 1..Len(talk), talk[k].uses # {}, k < Len(talk)
    PROVE  talk[k + 1].role = "user" /\ talk[k].uses \subseteq talk[k + 1].results
<1>1. AnthropicErrors(talk) = {} /\ DOMAIN talk = 1..Len(talk)
  BY DEF ValidateMessagesForResume, TalkOK
<1> QED BY <1>1 DEF AnthropicErrors

\* After what Anthropic accepts, safe are the words of the user and an answer without calls.
LEMMA SafeIs ==
    ASSUME TalkOK, ValidateMessagesForResume(talk, "anthropic"), NEW i \in 1..Len(talk)
    PROVE  CanForkAt(talk, i) <=> talk[i].uses = {}
<1>1. talk \in Seq(Spoken) /\ DOMAIN talk = 1..Len(talk) /\ Len(talk) \in Nat
  BY DEF TalkOK
<1>2. CanForkAt(talk, i) <=> AnalyzeForkSafety(talk, i)
  BY <1>1 DEF CanForkAt, FindSafeForkPoints
<1>3. CASE talk[i].role = "user"
  <2>1. talk[i].uses = {}
    BY <1>3 DEF TalkOK, UsersCallNothing
  <2>2. i = 1 \/ talk[i - 1].uses \subseteq talk[i].results
    <3>1. SUFFICES ASSUME i # 1 PROVE talk[i - 1].uses \subseteq talk[i].results
      OBVIOUS
    <3>2. i - 1 \in 1..Len(talk) /\ i - 1 < Len(talk) /\ (i - 1) + 1 = i
      BY <1>1, <3>1
    <3>3. PICK k : k = i - 1
      OBVIOUS
    <3>4. k \in 1..Len(talk) /\ k < Len(talk) /\ k + 1 = i
      BY <3>2, <3>3
    <3>5. talk[k].uses # {} => talk[k].uses \subseteq talk[k + 1].results
      BY <3>4, AcceptedIs
    <3> QED BY <3>3, <3>4, <3>5
  <2> QED BY <1>2, <1>3, <2>1, <2>2 DEF AnalyzeForkSafety
<1>4. CASE talk[i].role # "user"
  BY <1>2, <1>4 DEF AnalyzeForkSafety
<1> QED BY <1>3, <1>4

\* What SafeIs says of one message, for all calls before it.
LEMMA SafePointsHold == TalkOK => SafePointsAreComplete
<1> SUFFICES ASSUME TalkOK, ValidateMessagesForResume(talk, "anthropic"), NEW i \in DOMAIN talk
             PROVE  CanForkAt(talk, i) <=> Complete(i)
  BY DEF SafePointsAreComplete
<1>1. i \in 1..Len(talk) /\ Len(talk) \in Nat
  BY DEF TalkOK
<1>2. Complete(i) <=> talk[i].uses = {}
  <2>1. ASSUME Complete(i) PROVE talk[i].uses = {}
    <3>1. i \in 1..i /\ ~(i < i)
      BY <1>1
    <3> QED BY <2>1, <3>1 DEF Complete
  <2>2. ASSUME talk[i].uses = {} PROVE Complete(i)
    <3>1. ASSUME NEW k \in 1..i, talk[k].uses # {} PROVE k < i /\ talk[k].uses \subseteq talk[k + 1].results
      <4>1. k < i /\ k \in 1..Len(talk) /\ k < Len(talk)
        BY <1>1, <2>2, <3>1
      <4> QED BY <3>1, <4>1, AcceptedIs
    <3> QED BY <3>1 DEF Complete
  <2> QED BY <2>1, <2>2
<1> QED BY <1>1, <1>2, SafeIs

\* Neither fork points nor answers depend on thoughts.
LEMMA PreparedHolds == TalkOK => PreparedIsAccepted
<1> SUFFICES ASSUME TalkOK, NEW provider \in ResumeProviders
             PROVE  LET prepared == PrepareMessagesForResume(talk, provider)
                    IN /\ FindSafeForkPoints(prepared) = FindSafeForkPoints(talk)
                       /\ ValidateMessagesForResume(talk, "anthropic") =>
                             ValidateMessagesForResume(prepared, provider)
  BY DEF PreparedIsAccepted
<1>1. talk \in Seq(Spoken) /\ Len(talk) \in Nat /\ DOMAIN talk = 1..Len(talk)
  BY DEF TalkOK
<1>2. PICK P : P = PrepareMessagesForResume(talk, provider)
  OBVIOUS
<1>3. /\ SameButThoughts(talk, P)
      /\ \A i \in 1..Len(talk) : talk[i].role = "assistant" => P[i].thoughts = Kept(provider, talk[i].thoughts)
  BY <1>1, <1>2, PreparedIs
<1>4. /\ DOMAIN P = 1..Len(talk) /\ Len(P) = Len(talk)
      /\ \A i \in 1..Len(talk) : P[i].role = talk[i].role /\ P[i].uses = talk[i].uses /\ P[i].results = talk[i].results
  BY <1>1, <1>3 DEF SameButThoughts
<1>5. FindSafeForkPoints(P) = FindSafeForkPoints(talk)
  <2>1. ASSUME NEW i \in 1..Len(talk) PROVE AnalyzeForkSafety(P, i) <=> AnalyzeForkSafety(talk, i)
    <3>1. i = 1 \/ i - 1 \in 1..Len(talk)
      BY <1>1
    <3> QED BY <1>4, <3>1 DEF AnalyzeForkSafety
  <2> QED BY <1>1, <1>4, <2>1 DEF FindSafeForkPoints
<1>6. ASSUME ValidateMessagesForResume(talk, "anthropic") PROVE ValidateMessagesForResume(P, provider)
  <2>1. CASE provider = "anthropic"
    <3>1. AnthropicErrors(P) = {}
      <4>1. ASSUME NEW i \in 1..Len(talk), P[i].uses # {}, i < Len(P)
            PROVE  P[i + 1].role = "user" /\ P[i].uses \subseteq P[i + 1].results
        <5>1. i + 1 \in 1..Len(talk) /\ i < Len(talk) /\ talk[i].uses # {}
          BY <1>1, <1>4, <4>1
        <5>2. talk[i + 1].role = "user" /\ talk[i].uses \subseteq talk[i + 1].results
          BY <1>6, <5>1, AcceptedIs
        <5> QED BY <1>4, <5>1, <5>2
      <4> QED BY <1>4, <4>1 DEF AnthropicErrors
    <3> QED BY <2>1, <3>1 DEF ValidateMessagesForResume
  <2>2. CASE provider = "deepseek"
    <3>1. DeepseekErrors(P) = {}
      <4>1. ASSUME NEW i \in 1..Len(talk), P[i].role = "assistant" PROVE P[i].thoughts = {}
        <5>1. talk[i].role = "assistant" /\ talk[i].thoughts \in SUBSET Thoughts
          <6>1. talk[i] \in Spoken
            BY <1>1
          <6> QED BY <1>4, <4>1, <6>1 DEF Spoken
        <5> QED BY <1>3, <2>2, <5>1, ThoughtsKept
      <4> QED BY <1>4, <4>1 DEF DeepseekErrors
    <3> QED BY <2>2, <3>1 DEF ValidateMessagesForResume
  <2>3. CASE provider \notin {"anthropic", "deepseek"}
    BY <2>3 DEF ValidateMessagesForResume
  <2> QED BY <2>1, <2>2, <2>3
<1> QED BY <1>2, <1>5, <1>6

\* The last of some messages.
LEMMA LastOfPoints ==
    ASSUME NEW n \in Nat, NEW points \in SUBSET (1..n), points # {}
    PROVE  Max(points) \in points /\ \A i \in points : i <= Max(points)
<1> DEFINE T == {d \in 0..n : n - d \in points}
<1>1. T \in SUBSET Nat /\ T # {}
  <2>1. PICK i \in points : TRUE
    OBVIOUS
  <2>2. n - (n - i) = i /\ n - i \in 0..n
    BY <2>1
  <2>3. n - i \in T
    BY <2>1, <2>2
  <2>4. \A e \in 0..n : e \in Nat
    OBVIOUS
  <2> QED BY <2>3, <2>4
<1>2. PICK d \in T : \A e \in T : d <= e
  BY <1>1, LeastOf
<1>3. PICK k : k = n - d /\ k \in points
  BY <1>2
<1>4. ASSUME NEW i \in points PROVE i <= k
  <2>1. n - (n - i) = i /\ n - i \in 0..n
    OBVIOUS
  <2>2. d <= n - i
    BY <1>2, <1>4, <2>1
  <2> QED BY <1>2, <1>3, <2>2
<1>5. \E x \in points : \A y \in points : x >= y
  BY <1>3, <1>4
<1>6. Max(points) \in points /\ \A y \in points : Max(points) >= y
  BY <1>5 DEF Max
<1> QED BY <1>6

\* Before an answer with open calls is what the user said, and that is a safe point.
LEMMA LastPointHolds == TalkOK => LastPointIsSafe
<1> SUFFICES ASSUME TalkOK, ValidateMessagesForResume(talk, "anthropic"), talk # <<>>, talk[1].role = "user"
             PROVE  GetLastSafeForkPoint(talk) > 0 /\ Len(talk) - GetLastSafeForkPoint(talk) <= 1
  BY DEF LastPointIsSafe
<1>1. talk \in Seq(Spoken) /\ Len(talk) \in Nat /\ DOMAIN talk = 1..Len(talk) /\ Len(talk) > 0
  BY DEF TalkOK
<1>2. PICK n, points : n \in Nat /\ n = Len(talk) /\ n > 0 /\ points = FindSafeForkPoints(talk)
  BY <1>1
<1>3. points \in SUBSET (1..n) /\ \A i \in 1..n : i \in points <=> talk[i].uses = {}
  <2>1. points \in SUBSET (1..n)
    BY <1>1, <1>2 DEF FindSafeForkPoints
  <2> QED BY <1>2, <2>1, SafeIs DEF CanForkAt
<1>4. \E i \in points : n - i <= 1
  <2>1. CASE talk[n].uses = {}
    <3>1. n \in points /\ n - n <= 1
      BY <1>2, <1>3, <2>1
    <3> QED BY <3>1
  <2>2. CASE talk[n].uses # {}
    <3>1. talk[n].role # "user"
      BY <1>2, <2>2 DEF TalkOK, UsersCallNothing
    <3>2. PICK k : k = n - 1
      OBVIOUS
    <3>3. k \in 1..n /\ k < n /\ k + 1 = n
      BY <1>2, <3>1, <3>2
    <3>4. talk[k].uses = {}
      BY <1>2, <3>1, <3>3, AcceptedIs
    <3> QED BY <1>3, <3>2, <3>3, <3>4
  <2> QED BY <2>1, <2>2
<1>5. PICK i \in points : n - i <= 1
  BY <1>4
<1>6. Max(points) \in points /\ i <= Max(points)
  BY <1>2, <1>3, <1>5, LastOfPoints
<1>7. GetLastSafeForkPoint(talk) = Max(points)
  BY <1>2, <1>5 DEF GetLastSafeForkPoint
<1> QED BY <1>2, <1>3, <1>5, <1>6, <1>7

\* A conversation may be cut at its safe points, and is accepted by every provider it
\* is prepared for, whatever was said, answered, cut and converted before.
THEOREM ForksHold == ForkSpec => []ForksAreWhole
<1>1. TalkOK => ForksAreWhole
  BY SafePointsHold, PreparedHolds, LastPointHolds DEF ForksAreWhole
<1> QED BY <1>1, ForkInitHolds, ForkStepHolds, PTL DEF ForkSpec

-----------------------------------------------------------------------------
(* Sums over a sequence (the folds of ContextWindow).                      *)

\* f takes the last place off a set of places, and adds what the field has
\* there.
AddsUp(f, D, seq, field) ==
    f = [s \in SUBSET D |-> IF s = {} THEN 0 ELSE f[s \ {Max(s)}] + seq[Max(s)][field]]

\* The last place.
LEMMA LastPlace ==
    ASSUME NEW k \in Nat, NEW s \in SUBSET (1..(k + 1)), k + 1 \in s
    PROVE  Max(s) = k + 1 /\ s \ {k + 1} \in SUBSET (1..k)
<1>1. \A y \in s : y \in Int /\ k + 1 >= y
  OBVIOUS
<1>2. \A x \in s : (\A y \in s : x >= y) => x = k + 1
  BY <1>1
<1>3. \E x \in s : \A y \in s : x >= y
  BY <1>1
<1>4. Max(s) = k + 1
  BY <1>2, <1>3 DEF Max
<1>5. QED
  BY <1>4

\* There is such an f.
LEMMA SumExists ==
    ASSUME NEW seq, NEW field, NEW n \in Nat
    PROVE  \E f : AddsUp(f, 1..n, seq, field)
<1> DEFINE Bad == {k \in Nat : ~\E f : AddsUp(f, 1..k, seq, field)}
<1> SUFFICES ASSUME Bad # {} PROVE FALSE
  OBVIOUS
<1>1. PICK k \in Bad : \A m \in Bad : k <= m
  BY LeastOf
<1>2. k # 0
  <2>1. AddsUp([s \in SUBSET (1..0) |-> 0], 1..0, seq, field)
    <3>1. SUBSET (1..0) = {{}}
      OBVIOUS
    <3>2. QED
      BY <3>1 DEF AddsUp
  <2>2. QED
    BY <2>1
<1>3. k - 1 \in Nat /\ k - 1 \notin Bad
  BY <1>1, <1>2
<1>4. PICK g : AddsUp(g, 1..(k - 1), seq, field)
  BY <1>3
<1> DEFINE f == [s \in SUBSET (1..k) |-> IF k \in s THEN g[s \ {k}] + seq[k][field] ELSE g[s]]
<1>5. \A s \in SUBSET (1..(k - 1)) : f[s] = g[s] /\ s \in SUBSET (1..k)
  BY <1>3
<1>6. ASSUME NEW s \in SUBSET (1..k)
      PROVE  f[s] = IF s = {} THEN 0 ELSE f[s \ {Max(s)}] + seq[Max(s)][field]
  <2>1. CASE k \in s
    <3>1. Max(s) = k /\ s \ {k} \in SUBSET (1..(k - 1))
      <4>1. PICK j \in Nat : j = k - 1 /\ k = j + 1
        BY <1>1, <1>3
      <4>2. s \in SUBSET (1..(j + 1)) /\ j + 1 \in s
        BY <2>1, <4>1
      <4>3. QED
        BY <4>1, <4>2, LastPlace
    <3>2. f[s \ {k}] = g[s \ {k}]
      BY <1>5, <3>1
    <3>3. QED
      BY <2>1, <3>1, <3>2
  <2>2. CASE k \notin s
    <3>1. s \in SUBSET (1..(k - 1))
      BY <1>3, <2>2
    <3>2. f[s] = g[s] /\ g[s] = IF s = {} THEN 0 ELSE g[s \ {Max(s)}] + seq[Max(s)][field]
      BY <1>4, <1>5, <3>1 DEF AddsUp
    <3>3. f[s \ {Max(s)}] = g[s \ {Max(s)}]
      BY <1>5, <3>1
    <3>4. QED
      BY <3>2, <3>3
  <2>3. QED
    BY <2>1, <2>2
<1>7. AddsUp(f, 1..k, seq, field)
  <2>1. f = [s \in SUBSET (1..k) |-> f[s]]
    OBVIOUS
  <2> HIDE DEF f
  <2>2. QED
    BY <1>6, <2>1 DEF AddsUp
<1>8. QED
  BY <1>1, <1>7

\* The sum, place by place.
Subtotals(t, seq, field) ==
    /\ t \in [0..Len(seq) -> Nat] /\ t[0] = 0
    /\ \A k \in 1..Len(seq) : t[k] = t[k - 1] + seq[k][field]

SumsAreNumbers(seq, field) == \A k \in 1..Len(seq) : seq[k][field] \in Nat

\* A sum is the last of its subtotals.
LEMMA SumSubtotals ==
    ASSUME NEW S, NEW seq \in Seq(S), NEW field, SumsAreNumbers(seq, field)
    PROVE  \E t : Subtotals(t, seq, field) /\ SumOf(field, seq) = t[Len(seq)]
<1>1. PICK n \in Nat : n = Len(seq) /\ DOMAIN seq = 1..n
  OBVIOUS
<1>2. PICK f : AddsUp(f, 1..n, seq, field) /\ SumOf(field, seq) = f[1..n]
  <2>1. SumOf(field, seq) =
             (CHOOSE f : f = [s \in SUBSET (1..n) |->
                                IF s = {} THEN 0
                                ELSE f[s \ {Max(s)}] + seq[Max(s)][field]])[1..n]
    BY <1>1 DEF SumOf, FoldLeft, MapThenFoldSet
  <2>2. SumOf(field, seq) = (CHOOSE f : AddsUp(f, 1..n, seq, field))[1..n]
    BY <2>1 DEF AddsUp
  <2>3. QED
    BY <2>2, SumExists
<1> DEFINE t == [k \in 0..n |-> f[1..k]]
<1>3. t[0] = 0
  BY <1>2 DEF AddsUp
<1>4. ASSUME NEW k \in 1..n
      PROVE  t[k] = t[k - 1] + seq[k][field]
  <2>1. k - 1 \in Nat /\ k \in 1..k /\ 1..k \in SUBSET (1..n) /\ 1..((k - 1) + 1) = 1..k
    OBVIOUS
  <2>2. Max(1..k) = k
    <3>1. PICK j \in Nat : j = k - 1 /\ k = j + 1
      BY <2>1
    <3>2. 1..k \in SUBSET (1..(j + 1)) /\ j + 1 \in 1..k
      BY <3>1
    <3>3. QED
      BY <3>1, <3>2, LastPlace
  <2>3. (1..k) \ {k} = 1..(k - 1)
    OBVIOUS
  <2>4. f[1..k] = f[1..(k - 1)] + seq[k][field]
    BY <1>2, <2>1, <2>2, <2>3 DEF AddsUp
  <2>5. QED
    BY <2>4
<1>5. \A k \in 0..n : t[k] \in Nat
  <2> DEFINE Bad == {k \in 0..n : t[k] \notin Nat}
  <2> HIDE DEF t
  <2> SUFFICES ASSUME Bad # {} PROVE FALSE
    OBVIOUS
  <2>0. Bad \in SUBSET Nat
    OBVIOUS
  <2> HIDE DEF Bad
  <2>1. PICK k \in Bad : \A m \in Bad : k <= m
    BY <2>0, LeastOf
  <2> USE DEF Bad
  <2>2. k \in 1..n /\ k - 1 \notin Bad /\ k - 1 \in 0..n
    BY <1>3, <2>1
  <2>3. QED
    BY <1>1, <1>4, <2>1, <2>2 DEF SumsAreNumbers
<1>6. t[n] = f[1..n]
  OBVIOUS
<1>7. t \in [0..n -> Nat]
  BY <1>5
<1> HIDE DEF t
<1>8. Subtotals(t, seq, field)
  BY <1>1, <1>3, <1>4, <1>7 DEF Subtotals
<1>9. QED
  BY <1>1, <1>2, <1>6, <1>8

\* Subtotals agree as far as the sequences do.
LEMMA SubtotalsAgree ==
    ASSUME NEW seq, NEW more, NEW field, NEW t, NEW u, Len(seq) \in Nat, Len(more) \in Nat,
           Subtotals(t, seq, field), Subtotals(u, more, field), Len(seq) <= Len(more),
           \A k \in 1..Len(seq) : more[k] = seq[k]
    PROVE  \A k \in 0..Len(seq) : t[k] = u[k]
<1> DEFINE Bad == {k \in 0..Len(seq) : t[k] # u[k]}
<1> SUFFICES ASSUME Bad # {} PROVE FALSE
  OBVIOUS
<1>0. Bad \in SUBSET Nat
  OBVIOUS
<1> HIDE DEF Bad
<1>1. PICK k \in Bad : \A m \in Bad : k <= m
  BY <1>0, LeastOf
<1> USE DEF Bad
<1>2. k \in 1..Len(seq) /\ k - 1 \notin Bad /\ k - 1 \in 0..Len(seq)
  BY <1>1 DEF Subtotals
<1>3. k \in 1..Len(more) /\ more[k] = seq[k] /\ t[k - 1] = u[k - 1]
  BY <1>2
<1>4. t[k] = t[k - 1] + seq[k][field] /\ u[k] = u[k - 1] + more[k][field]
  BY <1>2, <1>3 DEF Subtotals
<1>5. QED
  BY <1>1, <1>3, <1>4

\* A sum is a number, and grows by what comes behind.
LEMMA SumAppends ==
    ASSUME NEW S, NEW seq \in Seq(S), NEW m \in S, NEW field,
           SumsAreNumbers(seq, field), m[field] \in Nat
    PROVE  /\ SumOf(field, seq) \in Nat
           /\ SumOf(field, Append(seq, m)) = SumOf(field, seq) + m[field]
<1>0. Append(seq, m) \in Seq(S)
  OBVIOUS
<1>1. PICK more \in Seq(S) : more = Append(seq, m)
  BY <1>0
<1>2. Len(more) = Len(seq) + 1 /\ Len(seq) \in Nat /\ more[Len(seq) + 1] = m
      /\ \A k \in 1..Len(seq) : more[k] = seq[k]
  BY <1>1
<1>3. SumsAreNumbers(more, field)
  BY <1>2 DEF SumsAreNumbers
<1>4. PICK t : Subtotals(t, seq, field) /\ SumOf(field, seq) = t[Len(seq)]
  BY SumSubtotals
<1>5. PICK u : Subtotals(u, more, field) /\ SumOf(field, more) = u[Len(more)]
  BY <1>3, SumSubtotals
<1>6. t[Len(seq)] = u[Len(seq)]
  BY <1>2, <1>4, <1>5, SubtotalsAgree
<1>7. u[Len(seq) + 1] = u[Len(seq)] + m[field] /\ t[Len(seq)] \in Nat
  BY <1>2, <1>4, <1>5 DEF Subtotals
<1>8. QED
  BY <1>1, <1>2, <1>4, <1>5, <1>6, <1>7
-----------------------------------------------------------------------------
(* The window of the context (ContextWindow).                              *)

WindowMessages == [id : Nat, tokens : Nat, media : Nat]

\* seq is the end of what was added, behind some summaries.
View(seq, front, from) ==
    /\ front \in 0..Len(seq) /\ from \in 0..Len(added)
    /\ Len(seq) - front = Len(added) - from
    /\ \A p \in 1..front : seq[p] = Summary
    /\ \A p \in (front + 1)..Len(seq) : seq[p] = added[p - front + from]
IsView(seq) == seq \in Seq(WindowMessages) /\ \E front, from \in Nat : View(seq, front, from)

\* Nothing that seq no longer has is missing in the windows, nor are the
\* recent media missing in seq.
Remembers(seq) == /\ DOMAIN added \subseteq MessageIds(seq) \cup windows
                  /\ RecentMedia(added) \subseteq MessageIds(seq)

ContextTypeOK == /\ added \in Seq(WindowMessages) /\ \A i \in DOMAIN added : added[i].id = i
                 /\ IsView(messages) /\ IsView(storedMessages)
                 /\ step \in {"idle", "saving", "recording", "replaced"}

\* What compress has done so far: the window holds all the conversation, and
\* the cut is before the recent media.
CompressOK == /\ step = "saving" => ShouldCompress(messages)
              /\ step = "recording" => /\ MessageIds(messages) \subseteq windows
                                       /\ cut \in 0..Len(messages)
                                       /\ cut <= BeforeRecentMedia(messages)

ContextIInv == /\ ContextTypeOK /\ CompressOK
               /\ Remembers(messages) /\ Remembers(storedMessages)

\* The ids of a view are those of the messages from its beginning on.
LEMMA ViewIds ==
    ASSUME ContextTypeOK, NEW seq \in Seq(WindowMessages), NEW front \in Nat, NEW from \in Nat,
           View(seq, front, from)
    PROVE  MessageIds(seq) \ {0} = (from + 1)..Len(added)
<1>1. DOMAIN seq = 1..Len(seq) /\ DOMAIN added = 1..Len(added) /\ Len(seq) \in Nat
      /\ Len(added) \in Nat
  BY DEF ContextTypeOK
<1>2. MessageIds(seq) = {seq[p].id : p \in 1..Len(seq)}
  BY <1>1 DEF MessageIds, Range
<1>3. \A p \in 1..front : seq[p].id = 0
  BY DEF View, Summary
<1>4. \A p \in (front + 1)..Len(seq) : /\ p - front + from \in (from + 1)..Len(added)
                                       /\ seq[p].id = p - front + from
  BY <1>1 DEF View, ContextTypeOK
<1>5. \A i \in (from + 1)..Len(added) : /\ i - from + front \in (front + 1)..Len(seq)
                                        /\ seq[i - from + front].id = i
  <2> SUFFICES ASSUME NEW i \in (from + 1)..Len(added)
               PROVE  /\ i - from + front \in (front + 1)..Len(seq)
                      /\ seq[i - from + front].id = i
    OBVIOUS
  <2>1. PICK p \in Int : p = i - from + front
    BY <1>1
  <2>2. p \in (front + 1)..Len(seq) /\ p - front + from = i
    BY <1>1, <2>1 DEF View
  <2>3. QED
    BY <1>4, <2>1, <2>2
<1>6. ASSUME NEW x \in MessageIds(seq) \ {0} PROVE x \in (from + 1)..Len(added)
  <2>1. PICK p \in 1..Len(seq) : x = seq[p].id
    BY <1>2, <1>6
  <2>2. p \in (front + 1)..Len(seq)
    BY <1>1, <1>3, <1>6, <2>1 DEF View
  <2>3. QED
    BY <1>4, <2>1, <2>2
<1>7. ASSUME NEW x \in (from + 1)..Len(added) PROVE x \in MessageIds(seq) \ {0}
  <2>1. PICK p \in (front + 1)..Len(seq) : p = x - from + front /\ seq[p].id = x
    BY <1>5, <1>7
  <2>2. p \in 1..Len(seq) /\ x # 0
    BY <1>1, <2>1
  <2>3. QED
    BY <1>2, <2>1, <2>2
<1>8. QED
  BY <1>6, <1>7

\* The ids of what is added to a sequence.
LEMMA AppendIds ==
    ASSUME NEW seq \in Seq(WindowMessages), NEW m \in WindowMessages
    PROVE  MessageIds(Append(seq, m)) = MessageIds(seq) \cup {m.id}
<1>1. PICK more \in Seq(WindowMessages) : more = Append(seq, m)
  <2>1. Append(seq, m) \in Seq(WindowMessages)
    OBVIOUS
  <2>2. QED
    BY <2>1
<1>2. /\ Len(more) = Len(seq) + 1 /\ Len(seq) \in Nat /\ more[Len(seq) + 1] = m
      /\ \A k \in 1..Len(seq) : more[k] = seq[k]
      /\ DOMAIN more = 1..(Len(seq) + 1) /\ DOMAIN seq = 1..Len(seq)
  BY <1>1
<1>3. MessageIds(more) = {more[p].id : p \in 1..(Len(seq) + 1)}
      /\ MessageIds(seq) = {seq[p].id : p \in 1..Len(seq)}
  BY <1>2 DEF MessageIds, Range
<1>4. \A p \in 1..(Len(seq) + 1) : p \in 1..Len(seq) \/ p = Len(seq) + 1
  BY <1>2
<1>5. MessageIds(more) \subseteq MessageIds(seq) \cup {m.id}
  BY <1>2, <1>3, <1>4
<1>6. \A p \in 1..Len(seq) : p \in 1..(Len(seq) + 1)
  BY <1>2
<1>7. MessageIds(seq) \cup {m.id} \subseteq MessageIds(more)
  <2>1. Len(seq) + 1 \in 1..(Len(seq) + 1)
    BY <1>2
  <2>2. QED
    BY <1>2, <1>3, <1>6, <2>1
<1>8. QED
  BY <1>1, <1>5, <1>7

\* The end of a sequence, place by place.
LEMMA EndOf ==
    ASSUME NEW S, NEW seq \in Seq(S), NEW i \in Nat, i <= Len(seq),
           NEW r, r = SubSeq(seq, i + 1, Len(seq))
    PROVE  r \in Seq(S) /\ Len(r) = Len(seq) - i /\ \A k \in 1..Len(r) : r[k] = seq[i + k]
<1>1. Len(seq) \in Nat
  OBVIOUS
<1>2. QED
  BY <1>1

\* What follows a place of a view is what follows its message.
LEMMA ViewEnds ==
    ASSUME ContextTypeOK, NEW seq \in Seq(WindowMessages), NEW front \in Nat, NEW from \in Nat,
           View(seq, front, from), NEW i \in (from + 1)..Len(added)
    PROVE  /\ i - from + front \in (front + 1)..Len(seq)
           /\ seq[i - from + front] = added[i]
           /\ MediaAfter(seq, i - from + front) = MediaAfter(added, i)
<1>1. DOMAIN seq = 1..Len(seq) /\ DOMAIN added = 1..Len(added) /\ Len(seq) \in Nat
      /\ Len(added) \in Nat /\ added \in Seq(WindowMessages)
  BY DEF ContextTypeOK
<1>2. PICK p \in Int : p = i - from + front
  BY <1>1
<1>3. p \in (front + 1)..Len(seq) /\ p - front + from = i
  BY <1>1, <1>2 DEF View
<1>4. seq[p] = added[i]
  BY <1>3 DEF View
<1>5. SubSeq(seq, p + 1, Len(seq)) = SubSeq(added, i + 1, Len(added))
  <2> DEFINE s == SubSeq(seq, p + 1, Len(seq))
             t == SubSeq(added, i + 1, Len(added))
  <2>1. p \in Nat /\ i \in Nat /\ p <= Len(seq) /\ i <= Len(added)
    BY <1>1, <1>3
  <2>2. s \in Seq(WindowMessages) /\ Len(s) = Len(seq) - p /\ \A k \in 1..Len(s) : s[k] = seq[p + k]
    BY <2>1, EndOf
  <2>3. t \in Seq(WindowMessages) /\ Len(t) = Len(added) - i /\ \A k \in 1..Len(t) : t[k] = added[i + k]
    <3>1. added \in Seq(WindowMessages)
      BY <1>1
    <3> HIDE DEF s
    <3>2. QED
      BY <2>1, <3>1, EndOf
  <2> HIDE DEF s, t
  <2>4. Len(s) = Len(t)
    <3>1. Len(seq) - front = Len(added) - from
      BY DEF View
    <3>2. Len(seq) \in Int /\ Len(added) \in Int /\ p - front + from = i
      BY <1>1, <1>3
    <3>3. Len(s) = Len(seq) - p /\ Len(t) = Len(added) - i
      BY <2>2, <2>3
    <3>4. QED
      BY <3>1, <3>2, <3>3
  <2>5. ASSUME NEW k \in 1..Len(s) PROVE s[k] = t[k]
    <3>1. p + k \in (front + 1)..Len(seq) /\ (p + k) - front + from = i + k
      BY <1>1, <1>3, <2>2
    <3>2. seq[p + k] = added[i + k]
      BY <3>1 DEF View
    <3>3. QED
      BY <2>2, <2>3, <2>4, <3>2
  <2>6. QED
    BY <2>2, <2>3, <2>4, <2>5, SeqEqual DEF s, t
<1>6. QED
  BY <1>2, <1>3, <1>4, <1>5 DEF MediaAfter

\* Sums over the end of a conversation.
LEMMA EndSums ==
    ASSUME NEW seq \in Seq(WindowMessages), NEW i \in Nat, i <= Len(seq)
    PROVE  /\ SubSeq(seq, i + 1, Len(seq)) \in Seq(WindowMessages)
           /\ WindowTokens(seq) \in Nat /\ MediaAfter(seq, i) \in Nat
           /\ \A m \in WindowMessages : MediaAfter(Append(seq, m), i) = MediaAfter(seq, i) + m.media
<1>1. PICK s \in Seq(WindowMessages) : s = SubSeq(seq, i + 1, Len(seq))
  <2>1. SubSeq(seq, i + 1, Len(seq)) \in Seq(WindowMessages)
    OBVIOUS
  <2>2. QED
    BY <2>1
<1>2. SumsAreNumbers(s, "media") /\ SumsAreNumbers(seq, "tokens")
  <2>1. \A u \in Seq(WindowMessages) : \A k \in 1..Len(u) : u[k] \in WindowMessages
    OBVIOUS
  <2>2. QED
    BY <2>1 DEF SumsAreNumbers, WindowMessages
<1>3. \A m \in WindowMessages : m["media"] \in Nat /\ m["tokens"] \in Nat /\ m["media"] = m.media
  BY DEF WindowMessages
<1>4. Summary \in WindowMessages
  BY DEF WindowMessages, Summary
<1>5. SumOf("media", s) \in Nat /\ SumOf("tokens", seq) \in Nat
  BY <1>2, <1>3, <1>4, SumAppends
<1>6. ASSUME NEW m \in WindowMessages
      PROVE  MediaAfter(Append(seq, m), i) = MediaAfter(seq, i) + m.media
  <2>1. SubSeq(Append(seq, m), i + 1, Len(Append(seq, m))) = Append(s, m)
    <3>1. PICK more \in Seq(WindowMessages) : more = Append(seq, m)
      <4>1. Append(seq, m) \in Seq(WindowMessages)
        OBVIOUS
      <4>2. QED
        BY <4>1
    <3>2. Len(more) = Len(seq) + 1 /\ Len(seq) \in Nat /\ more[Len(seq) + 1] = m
          /\ \A k \in 1..Len(seq) : more[k] = seq[k]
      BY <3>1
    <3> DEFINE r == SubSeq(more, i + 1, Len(more))
               q == Append(s, m)
    <3>3. r \in Seq(WindowMessages) /\ Len(r) = Len(seq) + 1 - i /\ \A k \in 1..Len(r) : r[k] = more[i + k]
      BY <3>2
    <3>4. Len(s) = Len(seq) - i /\ \A k \in 1..Len(s) : s[k] = seq[i + k]
      BY <1>1, <3>2
    <3>5. q \in Seq(WindowMessages) /\ Len(q) = Len(s) + 1 /\ q[Len(s) + 1] = m
          /\ \A k \in 1..Len(s) : q[k] = s[k]
      OBVIOUS
    <3> HIDE DEF r, q
    <3>6. Len(r) = Len(q)
      BY <3>2, <3>3, <3>4, <3>5
    <3>7. ASSUME NEW k \in 1..Len(r) PROVE r[k] = q[k]
      <4>1. CASE k = Len(s) + 1
        <5>1. r[k] = more[Len(seq) + 1]
          BY <3>2, <3>3, <3>4, <4>1
        <5>2. QED
          BY <3>2, <3>5, <4>1, <5>1
      <4>2. CASE k # Len(s) + 1
        <5>1. k \in 1..Len(s) /\ i + k \in 1..Len(seq)
          BY <3>2, <3>4, <3>5, <3>6, <4>2
        <5>2. QED
          BY <3>2, <3>3, <3>4, <3>5, <5>1
      <4>3. QED
        BY <4>1, <4>2
    <3>8. r = q
      BY <3>3, <3>5, <3>6, <3>7, SeqEqual
    <3>9. QED
      BY <3>1, <3>8 DEF r, q
  <2>2. SumOf("media", Append(s, m)) = SumOf("media", s) + m["media"]
    BY <1>2, <1>3, SumAppends
  <2>3. QED
    BY <1>1, <1>3, <2>1, <2>2 DEF MediaAfter
<1>7. QED
  BY <1>1, <1>5, <1>6 DEF MediaAfter, WindowTokens

-----------------------------------------------------------------------------
\* A message is added to the conversation, to what is stored, and to all.
LEMMA AddKeeps ==
    ASSUME ContextIInv, NEW text \in Nat, NEW media \in Nat, AddMessage(text, media)
    PROVE  ContextIInv'
<1>1. PICK m \in WindowMessages :
        /\ m = WindowMessage(Len(added) + 1, text, media)
        /\ added' = Append(added, m) /\ messages' = Append(messages, m)
        /\ storedMessages' = messages' /\ UNCHANGED <<windows, step, cut>> /\ step = "idle"
  <2>1. WindowMessage(Len(added) + 1, text, media) \in WindowMessages
    <3>1. media * MediaSize \in Nat
      BY ContextAssumption
    <3>2. Len(added) + 1 \in Nat
      BY DEF ContextIInv, ContextTypeOK
    <3>3. text + media * MediaSize \in Nat
      BY <3>1
    <3>4. QED
      BY <3>2, <3>3 DEF WindowMessage, WindowMessages
  <2>2. QED
    BY <2>1 DEF AddMessage
<1>2. added \in Seq(WindowMessages) /\ messages \in Seq(WindowMessages) /\ m.id = Len(added) + 1
      /\ Len(added) \in Nat /\ Len(messages) \in Nat
  BY <1>1 DEF ContextIInv, ContextTypeOK, IsView, WindowMessage
<1>3. /\ added' \in Seq(WindowMessages) /\ Len(added') = Len(added) + 1 /\ added'[Len(added) + 1] = m
      /\ \A k \in 1..Len(added) : added'[k] = added[k]
      /\ DOMAIN added' = 1..(Len(added) + 1) /\ DOMAIN added = 1..Len(added)
  BY <1>1, <1>2
<1>4. /\ messages' \in Seq(WindowMessages) /\ Len(messages') = Len(messages) + 1
      /\ messages'[Len(messages) + 1] = m
      /\ \A k \in 1..Len(messages) : messages'[k] = messages[k]
  BY <1>1, <1>2
<1>5. IsView(messages)'
  <2>1. PICK front \in Nat, from \in Nat : View(messages, front, from)
    BY DEF ContextIInv, ContextTypeOK, IsView
  <2>2. front \in 0..Len(messages) /\ from \in 0..Len(added)
        /\ Len(messages) - front = Len(added) - from
    BY <2>1 DEF View
  <2>3. front \in 0..Len(messages') /\ from \in 0..Len(added')
        /\ Len(messages') - front = Len(added') - from
    <3>1. Len(messages') = Len(messages) + 1 /\ Len(added') = Len(added) + 1
      BY <1>3, <1>4
    <3>2. QED
      BY <1>2, <2>2, <3>1
  <2>4. ASSUME NEW p \in 1..front PROVE messages'[p] = Summary
    <3>1. p \in 1..Len(messages)
      BY <1>2, <2>2
    <3>2. messages[p] = Summary
      BY <2>1 DEF View
    <3>3. QED
      BY <1>4, <3>1, <3>2
  <2>5. ASSUME NEW p \in (front + 1)..Len(messages') PROVE messages'[p] = added'[p - front + from]
    <3>1. CASE p = Len(messages) + 1
      <4>1. p - front + from = Len(added) + 1
        BY <1>2, <2>2, <3>1
      <4>2. QED
        BY <1>3, <1>4, <3>1, <4>1
    <3>2. CASE p # Len(messages) + 1
      <4>1. p \in 1..Len(messages) /\ p \in (front + 1)..Len(messages)
            /\ p - front + from \in 1..Len(added)
        BY <1>2, <1>4, <2>2, <3>2
      <4>2. QED
        BY <1>3, <1>4, <2>1, <4>1 DEF View
    <3>3. QED
      BY <3>1, <3>2
  <2>6. View(messages, front, from)'
    BY <2>3, <2>4, <2>5 DEF View
  <2>7. QED
    BY <1>4, <2>6 DEF IsView
<1>6. \A i \in DOMAIN added' : added'[i].id = i
  BY <1>2, <1>3 DEF ContextIInv, ContextTypeOK
<1>7. MessageIds(messages') = MessageIds(messages) \cup {Len(added) + 1}
  BY <1>1, <1>2, AppendIds
<1>8. RecentMedia(added') \subseteq MessageIds(messages')
  <2> SUFFICES ASSUME NEW i \in RecentMedia(added') PROVE i \in MessageIds(messages')
    OBVIOUS
  <2>1. i \in 1..(Len(added) + 1) /\ added'[i].media > 0
        /\ MediaAfter(added', i) < KeepRecentMultimodal
    BY <1>3 DEF RecentMedia
  <2>2. CASE i = Len(added) + 1
    BY <1>7, <2>2
  <2>3. CASE i # Len(added) + 1
    <3>1. i \in 1..Len(added) /\ i \in Nat /\ i <= Len(added)
      BY <1>2, <2>1, <2>3
    <3>2. MediaAfter(added', i) = MediaAfter(added, i) + m.media /\ MediaAfter(added, i) \in Nat
      BY <1>1, <1>2, <3>1, EndSums
    <3>3. MediaAfter(added, i) < KeepRecentMultimodal
      BY <2>1, <3>2, ContextAssumption DEF WindowMessages
    <3>4. i \in RecentMedia(added)
      BY <1>3, <2>1, <3>1, <3>3 DEF RecentMedia
    <3>5. QED
      BY <1>7, <3>4 DEF ContextIInv, Remembers
  <2>4. QED
    BY <2>2, <2>3
<1>9. DOMAIN added' \subseteq MessageIds(messages') \cup windows'
  <2>1. DOMAIN added' = DOMAIN added \cup {Len(added) + 1}
    BY <1>2, <1>3
  <2>2. QED
    BY <1>1, <1>7, <2>1 DEF ContextIInv, Remembers
<1>10. Remembers(messages)' /\ Remembers(storedMessages)' /\ IsView(storedMessages)'
  BY <1>1, <1>5, <1>8, <1>9 DEF Remembers, IsView, View, RecentMedia, MediaAfter
<1>11. QED
  BY <1>1, <1>3, <1>5, <1>6, <1>10 DEF ContextIInv, ContextTypeOK, CompressOK

\* A view stays one as long as nothing is added.
LEMMA MessagesStay ==
    ASSUME ContextTypeOK, messages' = messages, added' = added
    PROVE  IsView(messages)'
<1>1. PICK front \in Nat, from \in Nat : View(messages, front, from)
  BY DEF ContextTypeOK, IsView
<1>2. View(messages, front, from)'
  BY <1>1 DEF View
<1>3. QED
  BY <1>2 DEF IsView, ContextTypeOK

\* So does what the store has.
LEMMA StoredStay ==
    ASSUME ContextTypeOK, storedMessages' = storedMessages, added' = added
    PROVE  IsView(storedMessages)'
<1>1. PICK front \in Nat, from \in Nat : View(storedMessages, front, from)
  BY DEF ContextTypeOK, IsView
<1>2. View(storedMessages, front, from)'
  BY <1>1 DEF View
<1>3. QED
  BY <1>2 DEF IsView, ContextTypeOK

\* The window is saved with all the conversation; the cut goes past no recent
\* media.
LEMMA SaveKeeps ==
    ASSUME ContextIInv, SaveHistoryWindow
    PROVE  ContextIInv'
<1>1. messages \in Seq(WindowMessages) /\ Len(messages) \in Nat /\ WindowTokens(messages) > MaxTokens
  BY DEF ContextIInv, ContextTypeOK, IsView, CompressOK, ShouldCompress, SaveHistoryWindow
<1>2. WindowTokens(messages) \in Nat \ {0}
  <2>1. WindowTokens(messages) \in Nat
    <3>1. 0 \in Nat /\ 0 <= Len(messages)
      BY <1>1
    <3>2. QED
      BY <1>1, <3>1, EndSums
  <2>2. QED
    BY <1>1, <2>1, ContextAssumption
<1>3. KeepCount(messages) \in Int
  <2>1. PICK w \in Nat \ {0} : w = WindowTokens(messages)
    BY <1>2
  <2>2. PICK a \in Nat : a = Len(messages) * CompressToTokens
    BY <1>1, ContextAssumption
  <2>3. PICK b \in Nat : b = Len(messages) * 6
    BY <1>1
  <2>4. CeilDiv(a, w) \in Int /\ CeilDiv(b, 10) \in Int
    BY <2>1 DEF CeilDiv
  <2>5. QED
    BY <2>1, <2>2, <2>3, <2>4 DEF KeepCount, Larger
<1>4. BeforeRecentMedia(messages) \in 0..Len(messages)
  <2>1. CASE RecentMedia(messages) = {}
    BY <1>1, <2>1 DEF BeforeRecentMedia
  <2>2. CASE RecentMedia(messages) # {}
    <3>1. PICK S \in SUBSET (1..Len(messages)) : S = RecentMedia(messages) /\ S # {}
      <4>1. DOMAIN messages = 1..Len(messages)
        BY <1>1
      <4>2. RecentMedia(messages) \in SUBSET DOMAIN messages
        BY DEF RecentMedia
      <4>3. QED
        BY <2>2, <4>1, <4>2
    <3>2. S \in SUBSET Nat
      BY <3>1
    <3>3. PICK n \in S : \A m \in S : n <= m
      BY <3>1, <3>2, LeastOf
    <3>4. Min(S) \in S
      BY <3>3 DEF Min
    <3>5. QED
      BY <1>1, <2>2, <3>1, <3>4 DEF BeforeRecentMedia
  <2>3. QED
    BY <2>1, <2>2
<1>5. KeepFrom(messages) \in 0..Len(messages) /\ KeepFrom(messages) <= BeforeRecentMedia(messages)
  <2>1. PICK b \in 0..Len(messages) : b = BeforeRecentMedia(messages)
    BY <1>4
  <2>2. PICK k \in Int : k = Len(messages) - KeepCount(messages)
    BY <1>1, <1>3
  <2>3. QED
    BY <1>1, <2>1, <2>2 DEF KeepFrom, Larger, Smaller
<1>6. /\ windows' = windows \cup MessageIds(messages) /\ cut' = KeepFrom(messages)
      /\ step' = "recording" /\ UNCHANGED <<messages, storedMessages, added>>
  BY DEF SaveHistoryWindow
<1>7. ContextTypeOK'
  <2>1. IsView(messages)' /\ IsView(storedMessages)'
    BY <1>6, MessagesStay, StoredStay DEF ContextIInv
  <2>2. QED
    BY <1>6, <2>1 DEF ContextIInv, ContextTypeOK
<1>8. Remembers(messages)' /\ Remembers(storedMessages)'
  BY <1>6 DEF ContextIInv, Remembers
<1>9. CompressOK'
  <2>1. BeforeRecentMedia(messages') = BeforeRecentMedia(messages)
        /\ MessageIds(messages') = MessageIds(messages) /\ Len(messages') = Len(messages)
    BY <1>6
  <2>2. QED
    BY <1>5, <1>6, <2>1 DEF CompressOK
<1>10. QED
  BY <1>7, <1>8, <1>9 DEF ContextIInv

\* What was cut is in the window, and the recent media are behind the cut.
LEMMA ReplaceKeeps ==
    ASSUME ContextIInv, ReplaceMessages
    PROVE  ContextIInv'
<1>0. PICK n \in Nat : n = Len(messages)
  BY DEF ContextIInv, ContextTypeOK, IsView
<1>1. /\ step = "recording" /\ step' = "replaced" /\ UNCHANGED <<storedMessages, windows, added>>
      /\ messages' = <<Summary>> \o SubSeq(messages, cut + 1, Len(messages))
  BY DEF ReplaceMessages
<1>2. /\ messages \in Seq(WindowMessages) /\ cut \in 0..n /\ Len(added) \in Nat
      /\ MessageIds(messages) \subseteq windows /\ cut <= BeforeRecentMedia(messages)
      /\ DOMAIN messages = 1..n /\ DOMAIN added = 1..Len(added)
  BY <1>0, <1>1 DEF ContextIInv, ContextTypeOK, IsView, CompressOK
<1>3. PICK front \in Nat, from \in Nat : View(messages, front, from)
  BY DEF ContextIInv, ContextTypeOK, IsView
<1>4. /\ front \in 0..n /\ from \in 0..Len(added) /\ n - front = Len(added) - from
      /\ \A p \in 1..front : messages[p] = Summary
      /\ \A p \in (front + 1)..n : messages[p] = added[p - front + from]
  BY <1>0, <1>3 DEF View
<1>5. PICK rest \in Seq(WindowMessages) : /\ rest = SubSeq(messages, cut + 1, Len(messages))
                               /\ Len(rest) = n - cut
                               /\ \A k \in 1..(n - cut) : rest[k] = messages[cut + k]
  <2>1. cut \in Nat /\ cut <= Len(messages)
    BY <1>0, <1>2
  <2>2. PICK r : r = SubSeq(messages, cut + 1, Len(messages))
    OBVIOUS
  <2>3. r \in Seq(WindowMessages) /\ Len(r) = Len(messages) - cut
        /\ \A k \in 1..Len(r) : r[k] = messages[cut + k]
    BY <1>2, <2>1, <2>2, EndOf
  <2>4. QED
    BY <1>0, <2>2, <2>3
<1>6. PICK seq \in Seq(WindowMessages) : /\ seq = messages' /\ Len(seq) = n - cut + 1 /\ seq[1] = Summary
                              /\ \A p \in 2..(n - cut + 1) : seq[p] = messages[cut + p - 1]
  <2>1. PICK s \in WindowMessages : s = Summary
    BY DEF Summary, WindowMessages
  <2>2. PICK one \in Seq(WindowMessages) : one = <<s>> /\ Len(one) = 1 /\ one[1] = s
    <3>1. <<s>> \in Seq(WindowMessages) /\ Len(<<s>>) = 1 /\ <<s>>[1] = s
      BY <2>1
    <3>2. QED
      BY <3>1
  <2>3. PICK seq \in Seq(WindowMessages) : seq = one \o rest
    <3>1. one \o rest \in Seq(WindowMessages)
      OBVIOUS
    <3>2. QED
      BY <3>1
  <2>4. PICK l \in Nat : l = n - cut /\ l = Len(rest)
    BY <1>2, <1>5
  <2>5. Len(seq) = 1 + l /\ seq[1] = s
        /\ \A p \in 2..(1 + l) : seq[p] = rest[p - 1]
    BY <2>2, <2>3, <2>4
  <2>6. ASSUME NEW p \in 2..(n - cut + 1) PROVE seq[p] = messages[cut + p - 1]
    <3>1. p \in 2..(1 + l) /\ p - 1 \in 1..(n - cut) /\ cut + (p - 1) = cut + p - 1
      BY <1>2, <2>4
    <3>2. rest[p - 1] = messages[cut + (p - 1)]
      BY <1>5, <3>1
    <3>3. QED
      BY <2>5, <3>1, <3>2
  <2>7. Len(seq) = n - cut + 1
    BY <2>4, <2>5
  <2>8. seq = messages'
    BY <1>1, <1>5, <2>1, <2>2, <2>3
  <2>9. QED
    BY <2>1, <2>5, <2>6, <2>7, <2>8
<1>7. PICK d \in Nat, f \in Nat : \/ cut <= front /\ d = front - cut + 1 /\ f = from
                                  \/ cut > front /\ d = 1 /\ f = from + cut - front
  <2>1. cut \in Nat
    BY <1>2
  <2>2. CASE cut <= front
    <3>1. PICK e \in Nat : e = front - cut + 1
      BY <2>1, <2>2
    <3> WITNESS e \in Nat, from \in Nat
    <3>2. QED
      BY <2>2, <3>1
  <2>3. CASE cut > front
    <3>1. from + cut - front \in Nat
      BY <2>1, <2>3
    <3>2. QED
      BY <2>3, <3>1
  <2>4. QED
    BY <2>1, <2>2, <2>3
<1>8. /\ d \in 0..Len(seq) /\ f \in 0..Len(added) /\ Len(seq) - d = Len(added) - f
      /\ from <= f
  <2>0. PICK l \in Nat : l = n - cut + 1
    BY <1>2
  <2>1. PICK m \in Nat : m = Len(added) /\ l = Len(seq)
    BY <1>2, <1>6, <2>0
  <2>2. cut \in 0..n /\ front \in 0..n /\ from \in 0..m /\ n - front = m - from
    BY <1>2, <1>4, <2>1
  <2>3. d \in 0..l /\ f \in 0..m /\ l - d = m - f /\ from <= f
    BY <1>7, <2>0, <2>2
  <2>4. QED
    BY <2>1, <2>3
<1>9. ASSUME NEW p \in 1..d PROVE seq[p] = Summary
  <2>1. CASE p = 1
    BY <1>6, <2>1
  <2>2. CASE p # 1
    <3>1. cut + p - 1 \in 1..front /\ p \in 2..(n - cut + 1)
      BY <1>2, <1>4, <1>7, <2>2
    <3>2. QED
      BY <1>4, <1>6, <3>1
  <2>3. QED
    BY <2>1, <2>2
<1>10. ASSUME NEW p \in (d + 1)..Len(seq) PROVE seq[p] = added[p - d + f]
  <2>1. PICK q \in Int : q = cut + p - 1
    BY <1>2
  <2>2. q \in (front + 1)..n /\ q - front + from = p - d + f /\ p \in 2..(n - cut + 1)
    BY <1>2, <1>4, <1>6, <1>7, <2>1
  <2>3. messages[q] = added[q - front + from]
    BY <1>4, <2>2
  <2>4. QED
    BY <1>6, <2>1, <2>2, <2>3
<1>11. View(seq, d, f) /\ View(messages, d, f)'
  <2>1. View(seq, d, f)
    BY <1>8, <1>9, <1>10 DEF View
  <2>2. QED
    BY <1>1, <1>6, <2>1 DEF View
<1>12. IsView(messages)' /\ IsView(storedMessages)'
  <2>1. IsView(messages)'
    BY <1>6, <1>11 DEF IsView
  <2>2. QED
    BY <1>1, <2>1, StoredStay DEF ContextIInv
<1>13. MessageIds(messages) \ {0} = (from + 1)..Len(added)
       /\ MessageIds(seq) \ {0} = (f + 1)..Len(added)
  BY <1>2, <1>3, <1>11, ViewIds DEF ContextIInv
<1>14. DOMAIN added \subseteq windows
  BY <1>2 DEF ContextIInv, Remembers
<1>15. ASSUME NEW i \in RecentMedia(added) PROVE i \in MessageIds(seq)
  <2>1. i \in 1..Len(added) /\ i \in MessageIds(messages) /\ added[i].media > 0
        /\ MediaAfter(added, i) < KeepRecentMultimodal
    BY <1>2, <1>15 DEF RecentMedia, ContextIInv, Remembers
  <2>2. i \in (from + 1)..Len(added)
    BY <1>13, <2>1
  <2>3. PICK p \in Int : p = i - from + front
    BY <2>2
  <2>4. /\ p \in (front + 1)..n /\ messages[p] = added[i]
        /\ MediaAfter(messages, p) = MediaAfter(added, i)
    BY <1>2, <1>3, <2>2, <2>3, ViewEnds DEF ContextIInv
  <2>5. p \in RecentMedia(messages)
    BY <1>2, <1>4, <2>1, <2>4 DEF RecentMedia
  <2>6. cut <= p - 1
    <3>1. PICK S \in SUBSET (1..n) : S = RecentMedia(messages) /\ p \in S
      <4>1. RecentMedia(messages) \in SUBSET DOMAIN messages
        BY DEF RecentMedia
      <4>2. QED
        BY <1>2, <2>5, <4>1
    <3>2. S \in SUBSET Nat /\ S # {}
      BY <3>1
    <3>3. PICK x \in S : \A y \in S : x <= y
      BY <3>2, LeastOf
    <3>4. Min(S) \in S /\ \A y \in S : Min(S) <= y
      BY <3>3 DEF Min
    <3>5. BeforeRecentMedia(messages) = Min(S) - 1
      BY <3>1 DEF BeforeRecentMedia
    <3>6. QED
      BY <1>2, <3>1, <3>4, <3>5
  <2>7. i \in (f + 1)..Len(added)
    <3>1. CASE cut <= front
      BY <1>2, <1>4, <1>7, <2>2, <3>1
    <3>2. CASE cut > front
      BY <1>2, <1>4, <1>7, <2>2, <2>3, <2>6, <3>2
    <3>3. QED
      BY <1>2, <3>1, <3>2
  <2>8. QED
    BY <1>13, <2>7
<1>16. Remembers(messages)'
  <2>1. DOMAIN added' \subseteq windows' /\ RecentMedia(added') = RecentMedia(added)
        /\ MessageIds(messages') = MessageIds(seq)
    BY <1>1, <1>6, <1>14
  <2>2. QED
    BY <1>15, <2>1 DEF Remembers
<1>17. Remembers(storedMessages)'
  BY <1>1 DEF ContextIInv, Remembers
<1>18. CompressOK' /\ ContextTypeOK'
  BY <1>1, <1>12 DEF ContextIInv, ContextTypeOK, CompressOK
<1>19. QED
  BY <1>16, <1>17, <1>18 DEF ContextIInv

\* The other steps leave the conversation, or take up what the store has.
LEMMA ContextStep ==
    ContextIInv /\ [ContextNext]_contextVars => ContextIInv'
<1> SUFFICES ASSUME ContextIInv, [ContextNext]_contextVars PROVE ContextIInv'
  OBVIOUS
<1> USE DEF ContextIInv
<1>1. ASSUME NEW text \in TextSizes, AddMessage(text, 0) PROVE ContextIInv'
  BY <1>1, AddKeeps, ContextAssumption
<1>2. ASSUME NEW media \in 1..2, AddMessage(0, media) PROVE ContextIInv'
  BY <1>2, AddKeeps
<1>3. CASE SaveHistoryWindow
  BY <1>3, SaveKeeps
<1>4. CASE ReplaceMessages
  BY <1>4, ReplaceKeeps
<1>5. CASE BeginCompress \/ HistorySaveFails \/ UNCHANGED contextVars
  <2>1. UNCHANGED <<messages, storedMessages, windows, added>>
    BY <1>5 DEF BeginCompress, HistorySaveFails, contextVars
  <2>2. Remembers(messages)' /\ Remembers(storedMessages)'
    BY <2>1 DEF Remembers
  <2>3. IsView(messages)' /\ IsView(storedMessages)'
    BY <2>1, MessagesStay, StoredStay
  <2>4. CompressOK'
    <3>1. MessageIds(messages') = MessageIds(messages) /\ Len(messages') = Len(messages)
          /\ BeforeRecentMedia(messages') = BeforeRecentMedia(messages)
          /\ ShouldCompress(messages') = ShouldCompress(messages)
      BY <2>1
    <3>2. QED
      BY <1>5, <2>1, <3>1 DEF CompressOK, BeginCompress, HistorySaveFails, contextVars
  <2>5. ContextTypeOK'
    BY <1>5, <2>1, <2>3 DEF ContextTypeOK, BeginCompress, HistorySaveFails, contextVars
  <2>6. QED
    BY <2>2, <2>4, <2>5
<1>6. CASE PersistMessages \/ CrashAndResume
  <2>1. /\ UNCHANGED <<windows, added>> /\ step' = "idle"
        /\ \/ messages' = messages /\ storedMessages' = messages
           \/ messages' = storedMessages /\ storedMessages' = storedMessages
    BY <1>6 DEF PersistMessages, CrashAndResume
  <2>2. Remembers(messages)' /\ Remembers(storedMessages)'
    BY <2>1 DEF Remembers
  <2>3. CASE messages' = messages /\ storedMessages' = messages
    <3>1. IsView(messages)'
      BY <2>1, <2>3, MessagesStay
    <3>2. IsView(storedMessages)'
      BY <2>3, <3>1 DEF IsView, View
    <3>3. QED
      BY <2>1, <2>2, <3>1, <3>2 DEF ContextTypeOK, CompressOK
  <2>4. CASE messages' = storedMessages /\ storedMessages' = storedMessages
    <3>1. IsView(storedMessages)'
      BY <2>1, <2>4, StoredStay
    <3>2. IsView(messages)'
      BY <2>4, <3>1 DEF IsView, View
    <3>3. QED
      BY <2>1, <2>2, <3>1, <3>2 DEF ContextTypeOK, CompressOK
  <2>5. QED
    BY <2>1, <2>3, <2>4
<1>7. QED
  BY <1>1, <1>2, <1>3, <1>4, <1>5, <1>6 DEF ContextNext

\* However often the context is compressed, whatever save fails and whenever the
\* process ends, every message is stored or in a history window, the recent
\* media stay in the conversation, and it has no gap (ContextManager.compress).
THEOREM ContextHolds == ContextSpec => []ContextKept
<1>1. ContextInit => ContextIInv
  <2> SUFFICES ASSUME ContextInit PROVE ContextIInv
    OBVIOUS
  <2>1. messages = <<>> /\ storedMessages = <<>> /\ added = <<>> /\ step = "idle"
    BY DEF ContextInit
  <2>2. View(<<>>, 0, 0)
    BY <2>1 DEF View
  <2>3. DOMAIN added = {} /\ RecentMedia(added) = {}
    BY <2>1 DEF RecentMedia
  <2>4. <<>> \in Seq(WindowMessages)
    OBVIOUS
  <2>5. ContextTypeOK
    BY <2>1, <2>2, <2>3, <2>4 DEF ContextTypeOK, IsView
  <2>6. QED
    BY <2>1, <2>3, <2>5 DEF ContextIInv, CompressOK, Remembers
<1>2. ContextIInv => ContextKept
  <2> SUFFICES ASSUME ContextIInv PROVE ContextKept
    OBVIOUS
  <2>1. PICK front \in Nat, from \in Nat : View(messages, front, from)
    BY DEF ContextIInv, ContextTypeOK, IsView
  <2>2. MessageIds(messages) \ {0} = (from + 1)..Len(added) /\ from \in 0..Len(added)
    BY <2>1, ViewIds DEF ContextIInv, ContextTypeOK, IsView, View
  <2>3. QED
    BY <2>2 DEF ContextIInv, Remembers, ContextKept, NothingForgotten, RecentMediaStay
<1>3. QED
  BY <1>1, <1>2, ContextStep, PTL DEF ContextSpec

-----------------------------------------------------------------------------
(* Retries of provider calls (ProviderRetry).                              *)

RetryTypeOK ==
    /\ mode \in {"retry", "timed"} /\ phase \in {"calling", "waiting", "returned", "thrown"}
    /\ attempt \in 0..MaxRetries /\ clock \in Nat /\ delay \in Nat /\ abandoned \in Nat
    /\ error \in Errors

\* It goes on only after an error that may be tried again, and a wait that has
\* begun ends before the deadline.  The property speaks of the moments after
\* the wait.
GoesOnWell ==
    phase \in {"calling", "waiting"} =>
        /\ error = NoError \/ Retryable(ParseProviderError(error))
        /\ mode = "timed" => abandoned = 0
WaitFits == phase = "waiting" => /\ attempt # MaxRetries
                                 /\ mode = "timed" => clock + delay <= Timeout

RetryIInv == /\ RetryTypeOK /\ GoesOnWell /\ WaitFits /\ WaitsAsAsked
             /\ mode = "timed" => clock <= Timeout

\* f doubles the delay up to k attempts.
Doubles(f, k) == f = [i \in 0..k |-> IF i = 0 THEN BaseDelay ELSE 2 * f[i - 1]]

\* There is such an f.
LEMMA DoublesExists ==
    ASSUME NEW n \in Nat
    PROVE  \E f : Doubles(f, n)
<1> DEFINE Bad == {k \in Nat : ~\E f : Doubles(f, k)}
<1> SUFFICES ASSUME Bad # {} PROVE FALSE
  OBVIOUS
<1>1. PICK k \in Bad : \A m \in Bad : k <= m
  BY LeastOf
<1>2. k # 0
  <2>1. Doubles([i \in 0..0 |-> BaseDelay], 0)
    BY DEF Doubles
  <2>2. QED
    BY <2>1
<1>3. k - 1 \in Nat /\ k - 1 \notin Bad
  BY <1>1, <1>2
<1>4. PICK g : Doubles(g, k - 1)
  BY <1>3
<1>5. PICK f : f = [i \in 0..k |-> IF i = 0 THEN BaseDelay ELSE 2 * g[i - 1]]
  OBVIOUS
<1>6. ASSUME NEW i \in 0..(k - 1) PROVE f[i] = g[i]
  BY <1>3, <1>4, <1>5 DEF Doubles
<1>7. \A i \in 0..k : i # 0 => f[i - 1] = g[i - 1]
  BY <1>3, <1>6
<1>8. Doubles(f, k)
  BY <1>5, <1>7 DEF Doubles
<1>9. QED
  BY <1>8

\* The delay is at least the one it starts with.
LEMMA DoubledGrows ==
    ASSUME NEW k \in 0..MaxRetries
    PROVE  Doubled[k] \in Nat /\ BaseDelay <= Doubled[k]
<1>1. MaxRetries \in Nat /\ BaseDelay \in Nat
  BY RetryAssumption
<1>2. PICK d : d = Doubled
  OBVIOUS
<1>3. Doubles(d, MaxRetries)
  BY <1>1, <1>2, DoublesExists DEF Doubled, Doubles
<1>4. /\ d[0] = BaseDelay
      /\ \A i \in 0..MaxRetries : i # 0 => d[i] = 2 * d[i - 1]
  BY <1>1, <1>3 DEF Doubles
<1> DEFINE Bad == {i \in 0..MaxRetries : ~(d[i] \in Nat /\ BaseDelay <= d[i])}
<1>5. Bad = {}
  <2> SUFFICES ASSUME Bad # {} PROVE FALSE
    OBVIOUS
  <2>1. Bad \in SUBSET Nat
    OBVIOUS
  <2>2. PICK i \in Bad : \A j \in Bad : i <= j
    <3> HIDE DEF Bad
    <3> QED BY <2>1, LeastOf
  <2>3. i # 0
    BY <1>1, <1>4
  <2>4. i - 1 \in 0..MaxRetries /\ i - 1 \notin Bad
    <3>1. i \in Nat /\ i \in 0..MaxRetries
      BY <2>1, <2>2
    <3>2. i - 1 \in 0..MaxRetries /\ i - 1 < i
      BY <1>1, <2>3, <3>1
    <3>3. QED
      BY <2>2, <3>2
  <2>5. PICK e \in Nat : e = d[i - 1] /\ BaseDelay <= e
    BY <2>4
  <2>6. d[i] = 2 * e
    BY <1>4, <2>3, <2>5
  <2>7. QED
    BY <1>1, <2>5, <2>6
<1>6. QED
  BY <1>2, <1>5

\* The larger of two numbers, and the smaller.
LEMMA MaxOfTwo ==
    ASSUME NEW a \in Int, NEW b \in Int
    PROVE  Max({a, b}) = (IF a >= b THEN a ELSE b) /\ Min({a, b}) = (IF a <= b THEN a ELSE b)
<1>1. \A x \in {a, b} : (\A y \in {a, b} : x >= y) => x = IF a >= b THEN a ELSE b
  OBVIOUS
<1>2. \E x \in {a, b} : \A y \in {a, b} : x >= y
  OBVIOUS
<1>3. \A x \in {a, b} : (\A y \in {a, b} : x <= y) => x = IF a <= b THEN a ELSE b
  OBVIOUS
<1>4. \E x \in {a, b} : \A y \in {a, b} : x <= y
  OBVIOUS
<1>5. QED
  BY <1>1, <1>2, <1>3, <1>4 DEF Max, Min

\* A wait is not nothing, and not less than what was asked, but for the jitter.
LEMMA WaitsLong ==
    ASSUME NEW k \in 0..MaxRetries, NEW after \in Nat,
           NEW d \in ApplyJitter(Max({CalculateBackoffDelay(k), after}))
    PROVE  d \in Nat /\ d >= 1 /\ d >= (after * (100 - Jitter)) \div 100
<1>1. /\ BaseDelay \in Nat /\ MaxDelay \in Nat /\ Jitter \in Nat
      /\ BaseDelay * (100 - Jitter) >= 100 /\ BaseDelay <= MaxDelay
  BY RetryAssumption
<1>2. PICK b \in Nat : b = CalculateBackoffDelay(k) /\ BaseDelay <= b
  <2>1. PICK e \in Nat : e = Doubled[k] /\ BaseDelay <= e
    BY DoubledGrows
  <2>2. CalculateBackoffDelay(k) = IF e <= MaxDelay THEN e ELSE MaxDelay
    <3>1. MaxDelay \in Int /\ e \in Int
      BY <1>1, <2>1
    <3>3. Min({e, MaxDelay}) = IF e <= MaxDelay THEN e ELSE MaxDelay
      BY <3>1, MaxOfTwo
    <3>2. QED
      BY <2>1, <3>3 DEF CalculateBackoffDelay
  <2>3. QED
    BY <1>1, <2>1, <2>2
<1>3. PICK m \in Nat : m = Max({CalculateBackoffDelay(k), after}) /\ b <= m /\ after <= m
  BY <1>2, MaxOfTwo
<1>4. PICK share \in Nat : share = 100 - Jitter /\ share >= 1
  <2>1. CASE Jitter >= 100
    <3>1. 100 - Jitter <= 0 /\ 100 - Jitter \in Int
      BY <1>1, <2>1
    <3>2. BaseDelay * (100 - Jitter) <= 0
      BY <1>1, <3>1
    <3>3. QED
      BY <1>1, <3>2
  <2>2. CASE Jitter < 100
    BY <1>1, <2>2
  <2>3. QED
    BY <1>1, <2>1, <2>2
<1>5. PICK part \in Nat : d = (m * part) \div 100 /\ share <= part
  <2>1. PICK j \in {-Jitter, 0, Jitter} : d = (m * (100 + j)) \div 100
    BY <1>3 DEF ApplyJitter
  <2>2. 100 + j \in Nat /\ share <= 100 + j
    BY <1>1, <1>4, <2>1
  <2>3. QED
    BY <2>1, <2>2
<1>6. BaseDelay * share <= m * part /\ after * share <= m * part
  <2>1. BaseDelay <= m
    BY <1>1, <1>2, <1>3
  <2>2. BaseDelay * share <= m * share /\ after * share <= m * share
    BY <1>1, <1>3, <1>4, <2>1
  <2>3. m * share <= m * part
    BY <1>3, <1>4, <1>5
  <2>4. QED
    BY <1>1, <1>4, <2>2, <2>3
<1>7. PICK x \in Nat, y \in Nat : x = m * part /\ y = after * share /\ y <= x /\ 100 <= x
  BY <1>1, <1>4, <1>6
<1>8. x \div 100 \in Nat /\ x \div 100 >= 1 /\ x \div 100 >= y \div 100
  BY <1>7
<1>9. QED
  BY <1>4, <1>5, <1>7, <1>8

\* The catch clause throws or waits, and the wait fits.
LEMMA CatchWaits ==
    ASSUME RetryTypeOK, NEW class, NEW e \in Errors, NEW at \in Nat,
           mode = "timed" => at <= Timeout, Catch(class, e, at)
    PROVE  /\ attempt' = attempt
           /\ \/ phase' = "thrown" /\ delay' = delay
              \/ /\ phase' = "waiting" /\ delay' \in Nat /\ delay' >= 1
                 /\ Retryable(class) /\ attempt # MaxRetries
                 /\ delay' >= (RespectedAfter(class, e) * (100 - Jitter)) \div 100
                 /\ mode = "timed" => at + delay' <= Timeout
<1>1. Timeout \in Nat /\ MaxRetries \in Nat
  BY RetryAssumption
<1>2. RespectedAfter(class, e) \in Nat
  BY RetryAssumption DEF RespectedAfter, Errors
<1>3. CASE ~Retryable(class) \/ attempt = MaxRetries
  BY <1>3 DEF Catch, RetryEnds
<1>4. CASE ~(~Retryable(class) \/ attempt = MaxRetries)
  <2>1. PICK d \in ApplyJitter(Max({CalculateBackoffDelay(attempt), RespectedAfter(class, e)})) :
           IF mode = "timed" /\ d > Timeout - at THEN RetryEnds("thrown")
           ELSE phase' = "waiting" /\ delay' = d /\ UNCHANGED attempt
    BY <1>4 DEF Catch
  <2>2. d \in Nat /\ d >= 1 /\ d >= (RespectedAfter(class, e) * (100 - Jitter)) \div 100
    BY <1>2, <2>1, WaitsLong DEF RetryTypeOK
  <2>3. CASE mode = "timed" /\ d > Timeout - at
    BY <2>1, <2>3 DEF RetryEnds
  <2>4. CASE ~(mode = "timed" /\ d > Timeout - at)
    <3>1. phase' = "waiting" /\ delay' = d /\ attempt' = attempt
      BY <2>1, <2>4
    <3>2. mode = "timed" => at + d <= Timeout
      BY <1>1, <2>2, <2>4
    <3>3. QED
      BY <1>4, <2>2, <3>1, <3>2
  <2>5. QED
    BY <2>3, <2>4
<1>5. QED
  BY <1>3, <1>4

\* Catching an error keeps the invariant.
LEMMA CatchKeeps ==
    ASSUME RetryIInv, NEW e \in Errors, NEW at \in Nat, phase = "calling",
           mode = "timed" => at <= Timeout, Catch(ParseProviderError(e), e, at),
           clock' = at, error' = e, mode' = mode,
           \/ abandoned' = abandoned
           \/ abandoned' = abandoned + 1 /\ mode = "timed" /\ at = Timeout
    PROVE  RetryIInv'
<1> DEFINE class == ParseProviderError(e)
<1>1. /\ attempt' = attempt
      /\ \/ phase' = "thrown" /\ delay' = delay
         \/ /\ phase' = "waiting" /\ delay' \in Nat /\ delay' >= 1
            /\ Retryable(class) /\ attempt # MaxRetries
            /\ delay' >= (RespectedAfter(class, e) * (100 - Jitter)) \div 100
            /\ mode = "timed" => at + delay' <= Timeout
  BY CatchWaits DEF RetryIInv
<1>2. RetryTypeOK'
  BY <1>1 DEF RetryIInv, RetryTypeOK
<1>3. (mode = "timed" => clock <= Timeout)' /\ WaitFits'
  BY <1>1 DEF WaitFits
<1>4. GoesOnWell'
  <2>1. CASE phase' = "thrown"
    BY <2>1 DEF GoesOnWell
  <2>2. CASE phase' = "waiting"
    <3>1. Retryable(ParseProviderError(error'))
      BY <1>1, <2>2
    <3>2. mode = "timed" => abandoned' = 0
      <4>1. mode = "timed" => abandoned = 0
        BY DEF RetryIInv, GoesOnWell
      <4>2. ~(mode = "timed" /\ at = Timeout)
        BY <1>1, <2>2, RetryAssumption
      <4>3. QED
        BY <4>1, <4>2
    <3>3. QED
      BY <3>1, <3>2 DEF GoesOnWell
  <2>3. QED
    BY <1>1, <2>1, <2>2
<1>5. WaitsAsAsked'
  <2> SUFFICES ASSUME phase' = "waiting",
                      e.status = 429 \/ (e.status = 503 /\ mode = "retry")
               PROVE  delay' >= (e.after * (100 - Jitter)) \div 100
    BY DEF WaitsAsAsked
  <2>1. e.status \in Int /\ RespectedAfter(class, e) = e.after
    BY DEF RespectedAfter, ParseProviderError, Errors
  <2>2. QED
    BY <1>1, <2>1
<1>6. QED
  BY <1>2, <1>3, <1>4, <1>5 DEF RetryIInv

\* Every step keeps it.
LEMMA RetryStep ==
    RetryIInv /\ [RetryNext]_retryVars => RetryIInv'
<1> SUFFICES ASSUME RetryIInv, [RetryNext]_retryVars PROVE RetryIInv'
  OBVIOUS
<1> USE DEF RetryIInv
<1>a. Timeout \in Nat /\ MaxRetries \in Nat /\ CallTimes \subseteq Nat
  BY RetryAssumption
<1>1. CASE CallReturns
  <2>1. PICK t \in CallTimes : clock' = clock + t
    BY <1>1 DEF CallReturns
  <2>2. clock' \in Nat
    BY <1>a, <2>1 DEF RetryTypeOK
  <2>3. QED
    BY <1>1, <2>2 DEF CallReturns, RetryEnds, RetryTypeOK, GoesOnWell, WaitFits, WaitsAsAsked
<1>2. CASE CallFails
  <2>1. PICK e \in Errors, t \in CallTimes :
            /\ phase = "calling" /\ (mode = "timed" => clock + t <= Timeout)
            /\ clock' = clock + t /\ error' = e /\ Catch(ParseProviderError(e), e, clock + t)
            /\ mode' = mode /\ abandoned' = abandoned
    BY <1>2 DEF CallFails
  <2>2. PICK at \in Nat : at = clock + t
    BY <1>a DEF RetryTypeOK
  <2>3. QED
    <3>1. phase = "calling" /\ clock' = at /\ error' = e /\ Catch(ParseProviderError(e), e, at)
          /\ mode' = mode /\ abandoned' = abandoned
      BY <2>1, <2>2
    <3>2. mode = "timed" => at <= Timeout
      BY <2>1, <2>2
    <3>3. QED
      BY <3>1, <3>2, CatchKeeps
<1>3. CASE CallTimesOut
  <2>1. PICK e \in Errors : e = [NoError EXCEPT !.says = "timeout"] /\ ParseProviderError(e) = "Timeout"
    <3>1. PICK e \in Errors : e = [status |-> 0, says |-> "timeout", code |-> "none", after |-> 0]
      <4>1. PICK e : e = [status |-> 0, says |-> "timeout", code |-> "none", after |-> 0]
        OBVIOUS
      <4>2. e \in Errors
        BY <4>1 DEF Errors
      <4>3. QED
        BY <4>1, <4>2
    <3>2. e = [NoError EXCEPT !.says = "timeout"]
      BY <3>1 DEF NoError
    <3>3. ParseProviderError(e) = "Timeout"
      BY <3>1 DEF ParseProviderError
    <3>4. QED
      BY <3>2, <3>3
  <2>2. QED
    BY <1>3, <1>a, <2>1, CatchKeeps DEF CallTimesOut
<1>4. CASE SleepEnds
  <2>1. clock' \in Nat /\ clock' = clock + delay /\ attempt' \in Nat /\ attempt' = attempt + 1
    BY <1>4 DEF SleepEnds, RetryTypeOK
  <2>2. attempt' \in 0..MaxRetries
    BY <1>4, <1>a, <2>1 DEF SleepEnds, RetryTypeOK, WaitFits
  <2>3. phase' \in {"calling", "thrown"} /\ UNCHANGED <<mode, delay, error, abandoned>>
        /\ phase = "waiting" /\ (mode = "timed" => clock' <= Timeout)
    BY <1>4, <2>1 DEF SleepEnds, WaitFits
  <2>4. RetryTypeOK'
    BY <2>1, <2>2, <2>3 DEF RetryTypeOK
  <2>5. GoesOnWell' /\ WaitFits' /\ WaitsAsAsked' /\ (mode = "timed" => clock <= Timeout)'
    BY <2>3 DEF GoesOnWell, WaitFits, WaitsAsAsked
  <2>6. QED
    BY <2>4, <2>5
<1>5. CASE UNCHANGED retryVars
  BY <1>5 DEF retryVars, RetryTypeOK, GoesOnWell, WaitFits, WaitsAsAsked
<1>6. QED
  BY <1>1, <1>2, <1>3, <1>4, <1>5 DEF RetryNext

\* Retries stop at what the API refused and at the deadline, waits included,
\* and heed the time that the server asked for, with whatever delays, jitter and
\* number of retries they are configured (withRetry, withRetryAndTimeout).
THEOREM RetriesHold == RetrySpec => []RetriesWell
<1>1. RetryInit => RetryIInv
  <2> SUFFICES ASSUME RetryInit PROVE RetryIInv
    OBVIOUS
  <2>1. NoError \in Errors
    BY DEF NoError, Errors
  <2>2. 0 \in 0..MaxRetries /\ 0 <= Timeout
    BY RetryAssumption
  <2>3. QED
    BY <2>1, <2>2 DEF RetryInit, RetryIInv, RetryTypeOK, GoesOnWell, WaitFits, WaitsAsAsked
<1>2. RetryIInv => RetriesWell
  <2> SUFFICES ASSUME RetryIInv PROVE RetriesWell
    OBVIOUS
  <2>1. RefusedIsFinal
    <3> SUFFICES ASSUME error.status \in {400, 401, 402, 403, 404}, phase \in {"waiting", "calling"}
                 PROVE  error.status = 400 /\ error.says = "timeout"
      BY DEF RefusedIsFinal
    <3>1. error # NoError
      BY DEF NoError
    <3>2. Retryable(ParseProviderError(error))
      BY <3>1 DEF RetryIInv, GoesOnWell
    <3>3. QED
      BY <3>2 DEF ParseProviderError, Retryable, RetryIInv, RetryTypeOK, Errors
  <2>2. DeadlineKept
    BY DEF RetryIInv, DeadlineKept, GoesOnWell
  <2>3. QED
    BY <2>1, <2>2 DEF RetriesWell, RetryIInv
<1>3. QED
  BY <1>1, <1>2, RetryStep, PTL DEF RetrySpec
=============================================================================
