---------------------------- MODULE EventCursor ----------------------------
(***************************************************************************)
(* src/core/events.ts and agent.ts: the numbers that a session's events    *)
(* bear from process to process.  A resumed agent numbers its events after *)
(* the bookmark of its info record or, if there is none, of the last done  *)
(* event in the store; clients ask for what comes after a bookmark that    *)
(* they have kept.  Event bus, store and resume are as far here as these   *)
(* numbers need: an append lands in order or fails, and a save of the info *)
(* record lands whole.                                                     *)
(***************************************************************************)
EXTENDS Integers, Sequences

CONSTANTS MaxEvents,      \* bound: events that are recorded here
          MaxNumber,      \* bound: numbers that a process gives out
          MaxEnds,        \* bound: processes that end
          MaxFailures     \* bound: appends of done events that fail

ASSUME CursorAssumption == {MaxEvents, MaxNumber, MaxEnds, MaxFailures} \subseteq Nat

NoBookmark == -1

VARIABLES
    bus,        \* the process: where it is, seq, lastBookmark, the bookmark that a resume found
    info,       \* lastBookmark of the stored info record
    sending,    \* done events of this process whose append is in flight
    failed,     \* those whose append has failed: failedEvents
    doneLog,    \* done events in the store, in the order of the file
    streams,    \* bookmarks of done events handed to a chatStream() that was not asked for more
    emitted,    \* history: progress events and agent_resumed, of all processes
    unguarded,    \* history: an order of saves against which the code does not guard
    ends,       \* of processes
    failures    \* of appends

cursorVars == <<bus, info, sending, failed, doneLog, streams, emitted, unguarded, ends, failures>>

Numbers == 0..MaxNumber
Bookmarks == Numbers \cup {NoBookmark}
Recorded == [seq : Numbers, kind : {"chunk", "done", "resumed"}]
Up == {"synced", "ready", "round", "done"}

CursorTypeOK ==
    /\ bus \in [at : Up \cup {"down", "found", "blank"}, seq : 0..(MaxNumber + 1),
                last : Bookmarks, found : Bookmarks]
    /\ info \in Bookmarks
    /\ sending \in Seq(Numbers) /\ failed \in Seq(Numbers) /\ doneLog \in Seq(Numbers)
    /\ streams \subseteq Numbers
    /\ emitted \in Seq(Recorded)
    /\ unguarded \in BOOLEAN
    /\ ends \in 0..MaxEnds /\ failures \in 0..MaxFailures

Members(q) == {q[i] : i \in DOMAIN q}

\* Agent.create.
CursorInit ==
    /\ bus = [at |-> "ready", seq |-> 0, last |-> NoBookmark, found |-> NoBookmark]
    /\ info = NoBookmark
    /\ sending = <<>> /\ failed = <<>> /\ doneLog = <<>>
    /\ streams = {} /\ emitted = <<>> /\ unguarded = FALSE
    /\ ends = 0 /\ failures = 0

-----------------------------------------------------------------------------
\* emit(): one counter for all channels.  An event that is neither progress nor
\* agent_resumed takes a number and is not followed.
Numbered == bus.seq \in Numbers
Takes == /\ Numbered
         /\ bus' = [bus EXCEPT !.seq = @ + 1]
Emits(kind) == /\ Len(emitted) < MaxEvents
               /\ emitted' = Append(emitted, [seq |-> bus.seq, kind |-> kind])

EmitMonitor ==
    /\ bus.at \in Up \cup {"found", "blank"}
    /\ Takes
    /\ UNCHANGED <<info, sending, failed, doneLog, streams, emitted, unguarded, ends, failures>>

BeginRound ==
    /\ bus.at = "ready"
    /\ bus' = [bus EXCEPT !.at = "round"]
    /\ UNCHANGED <<info, sending, failed, doneLog, streams, emitted, unguarded, ends, failures>>

EmitChunk ==
    /\ bus.at = "round"
    /\ Takes /\ Emits("chunk")
    /\ UNCHANGED <<info, sending, failed, doneLog, streams, unguarded, ends, failures>>

\* The end of runStep: the done event, whose bookmark is the last one.
EmitDoneEvent ==
    /\ bus.at = "round"
    /\ Numbered /\ Emits("done")
    /\ bus' = [bus EXCEPT !.seq = @ + 1, !.last = bus.seq,
                          !.at = IF bus.last = bus.seq THEN "ready" ELSE "done"]
    /\ sending' = Append(sending, bus.seq)
    /\ streams' \in {streams, streams \cup {bus.seq}}
    /\ UNCHANGED <<info, failed, doneLog, unguarded, ends, failures>>

\* persistInfo(), after a done event or with the messages.
InfoRecordSaved ==
    /\ bus.at \in Up
    /\ info' = bus.last
    /\ bus' = [bus EXCEPT !.at = IF @ = "done" THEN "ready" ELSE @]
    /\ UNCHANGED <<sending, failed, doneLog, streams, emitted, unguarded, ends, failures>>

\* chatStream() sets lastBookmark when it is asked for what comes after the done
\* event, and that may be after another one.
StreamGoesOn(d) ==
    /\ bus.at \in Up /\ d \in streams
    /\ bus' = [bus EXCEPT !.last = d]
    /\ streams' = streams \ {d}
    /\ unguarded' = (unguarded \/ d # bus.last)
    /\ UNCHANGED <<info, sending, failed, doneLog, emitted, ends, failures>>

-----------------------------------------------------------------------------
\* The append of a done event ends.
Landed ==
    /\ sending # <<>>
    /\ doneLog' = Append(doneLog, Head(sending))
    /\ sending' = Tail(sending)
    /\ unguarded' = (unguarded \/ \E d \in Members(doneLog) : d > Head(sending))
    /\ UNCHANGED <<bus, info, failed, streams, emitted, ends, failures>>

AppendFails ==
    /\ sending # <<>> /\ failures < MaxFailures
    /\ failures' = failures + 1
    /\ sending' = Tail(sending) /\ failed' = Append(failed, Head(sending))
    /\ UNCHANGED <<bus, info, doneLog, streams, emitted, unguarded, ends>>

\* retryFailedEvents(), after the append of any event has landed.
AppendRetried ==
    /\ failed # <<>>
    /\ sending' = Append(sending, Head(failed)) /\ failed' = Tail(failed)
    /\ UNCHANGED <<bus, info, doneLog, streams, emitted, unguarded, ends, failures>>

-----------------------------------------------------------------------------
\* The saves of the last done event are over: its bookmark is in the info record,
\* and no done event is newer than all that are in the store.
DoneIsSaved ==
    /\ bus.at # "done"
    /\ \A i \in DOMAIN emitted : emitted[i].kind = "done" =>
          \E d \in Members(doneLog) : emitted[i].seq <= d

\* The process ends or dies, at any await.
ProcessEnds ==
    /\ bus.at # "down" /\ ends < MaxEnds
    /\ bus' = [at |-> "down", seq |-> 0, last |-> NoBookmark, found |-> NoBookmark]
    /\ sending' = <<>> /\ failed' = <<>> /\ streams' = {}
    /\ unguarded' = (unguarded \/ ~DoneIsSaved)
    /\ ends' = ends + 1
    /\ UNCHANGED <<info, doneLog, emitted, failures>>

\* Agent.resume reads the info record, and the events if it has no bookmark.
LastDone == IF doneLog = <<>> THEN NoBookmark ELSE doneLog[Len(doneLog)]
\* Faulty variant: the record alone, although a resume that was cut short has emptied it.
ResumeBookmarkOfInfo == info
ResumeBookmark == IF info # NoBookmark THEN info ELSE LastDone

BookmarkFound ==
    /\ bus.at = "down"
    /\ bus' = [bus EXCEPT !.at = "found", !.found = ResumeBookmark]
    /\ UNCHANGED <<info, sending, failed, doneLog, streams, emitted, unguarded, ends, failures>>

\* initialize() of the new agent saves its info before the bookmark is restored.
Initialized ==
    /\ bus.at = "found"
    /\ info' = NoBookmark
    /\ bus' = [bus EXCEPT !.at = "blank"]
    /\ UNCHANGED <<sending, failed, doneLog, streams, emitted, unguarded, ends, failures>>

\* syncCursor(): the numbers go on after the bookmark, if there is one.
SyncCursor(seq, bookmark) == IF seq < bookmark + 1 THEN bookmark + 1 ELSE seq

Synced ==
    /\ bus.at = "blank"
    /\ bus' = [bus EXCEPT !.at = "synced", !.last = bus.found,
                          !.seq = SyncCursor(bus.seq, bus.found)]
    /\ UNCHANGED <<info, sending, failed, doneLog, streams, emitted, unguarded, ends, failures>>

\* After the sealing, if any, with its saves.
AgentResumed ==
    /\ bus.at = "synced"
    /\ Numbered /\ Emits("resumed")
    /\ bus' = [bus EXCEPT !.seq = @ + 1, !.at = "ready"]
    /\ UNCHANGED <<info, sending, failed, doneLog, streams, unguarded, ends, failures>>

CursorNext ==
    \/ EmitMonitor \/ BeginRound \/ EmitChunk \/ EmitDoneEvent
    \/ InfoRecordSaved \/ Landed \/ AppendFails \/ AppendRetried
    \/ \E d \in streams : StreamGoesOn(d)
    \/ ProcessEnds \/ BookmarkFound \/ Initialized \/ Synced \/ AgentResumed

CursorSpec == CursorInit /\ [][CursorNext]_cursorVars

-----------------------------------------------------------------------------
\* With the bookmark of a done event a client gets all that came after it,
\* through any number of ends and resumes, one that is cut short included
\* (readEvents keeps what is greater than `since`); unless a process ended
\* between a done event and its two saves, a retried append put a done event
\* behind a later one, or a slow stream set the bookmark back.
DoneResumes ==
    unguarded \/ \A i, j \in DOMAIN emitted :
        i < j /\ emitted[i].kind = "done" => emitted[i].seq < emitted[j].seq
=============================================================================
