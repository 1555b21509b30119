------------------------------ MODULE FilePool ------------------------------
(***************************************************************************)
(* The file tools and the FilePool, which remembers when the agent read    *)
(* and edited a file, to notice that somebody else changed it.  The tool   *)
(* calls of a round run side by side, every access to the file system is   *)
(* an await, and users and other programs edit at any time.                *)
(*                                                                         *)
(* One file: its content is the set of edits that it has, every write      *)
(* gives it a new mtime.  Records are objects that calls hold on to over   *)
(* their awaits, so the model has them all, and which one the map has.     *)
(***************************************************************************)
EXTENDS Naturals, Sequences, FiniteSets

CONSTANTS FileSlots,       \* calls that run at a time
          MaxFileCalls,    \* bound: calls of file tools, the two edits of a
                           \* fs_multi_edit counting as two
          MaxOutsideEdits  \* bound: edits by others

VARIABLES file,          \* [edits, mtime]
          objects,       \* the FileRecords: read, readMtime, knownMtime; 0 is undefined
          tracked,       \* FilePool.records: the index of the record, or 0
          watch,         \* none, pending or set: watchers and watchPending
          watchersMade,  \* watchers the sandbox has opened
          notified,      \* a watch event is on its way
          fileCall,      \* slot -> the call
          fileCalls,     \* calls made
          outside,       \* edits made by others
          seen,          \* edits that a fs_read showed to the model
          quiet          \* edits by others, of a file that the agent had read, while
                         \* no call was running

fileVars == <<file, objects, tracked, watch, watchersMade, notified, fileCall,
              fileCalls, outside, seen, quiet>>

NoFileCall == [tool |-> "none"]
Busy == {s \in FileSlots : fileCall[s] # NoFileCall}

FileInit ==
    /\ file = [edits |-> {}, mtime |-> 1]
    /\ objects = <<>> /\ tracked = 0
    /\ watch = "none" /\ watchersMade = 0 /\ notified = FALSE
    /\ fileCall = [s \in FileSlots |-> NoFileCall] /\ fileCalls = 0
    /\ outside = {} /\ seen = {} /\ quiet = {}

AtStep(s, tool, step) == fileCall[s].tool = tool /\ fileCall[s].step = step
Advances(s, step) == fileCall' = [fileCall EXCEPT ![s].step = step]
\* A call ends; fs_multi_edit goes on with its next edit, which begins with
\* validateWrite too.
NextEdit(call, record) ==
    [call EXCEPT !.id = Append(@, "next"), !.object = record, !.more = FALSE,
                 !.step = "validate", !.content = {}]
Returns(s, record) ==
    fileCall' = [fileCall EXCEPT ![s] = IF @.more THEN NextEdit(@, record) ELSE NoFileCall]

\* A call begins; fs_write and fs_multi_edit begin with validateWrite, which
\* looks the record up before it awaits stat.
CallTool(s, tool) ==
    /\ s = CHOOSE free \in FileSlots : fileCall[free] = NoFileCall
    /\ fileCalls' = fileCalls + (IF tool = "fs_multi_edit" THEN 2 ELSE 1)
    /\ fileCalls' <= MaxFileCalls
    /\ fileCall' = [fileCall EXCEPT ![s] =
           [tool |-> tool, id |-> <<"tool", fileCalls'>>, object |-> tracked, content |-> {},
            more |-> tool = "fs_multi_edit",
            step |-> IF tool \in {"fs_write", "fs_multi_edit"} THEN "validate" ELSE "read"]]
    /\ UNCHANGED <<file, objects, tracked, watch, watchersMade, notified, outside, seen, quiet>>

\* Faulty variant: compares the time that the watcher knows of.
ValidateAgainstKnown(s) ==
    /\ fileCall[s] # NoFileCall /\ fileCall[s].step = "validate"
    /\ LET object == fileCall[s].object
           isFresh == \/ object = 0
                      \/ /\ objects[object].read
                         /\ objects[object].knownMtime \in {0, file.mtime}
       IN IF ~isFresh THEN Returns(s, tracked)
          ELSE Advances(s, IF fileCall[s].tool = "fs_write" THEN "write" ELSE "read")
    /\ UNCHANGED <<file, objects, tracked, watch, watchersMade, notified, fileCalls, outside,
                   seen, quiet>>

\* validateWrite
ValidateWrite(s) ==
    /\ fileCall[s] # NoFileCall /\ fileCall[s].step = "validate"
    /\ LET object == fileCall[s].object
           isFresh == \/ object = 0
                      \/ /\ objects[object].read
                         /\ objects[object].readMtime \in {0, file.mtime}
       IN IF ~isFresh THEN Returns(s, tracked)
          ELSE Advances(s, IF fileCall[s].tool = "fs_write" THEN "write" ELSE "read")
    /\ UNCHANGED <<file, objects, tracked, watch, watchersMade, notified, fileCalls, outside,
                   seen, quiet>>

\* The object of the record: the one in the map, or a new one, which is not in
\* the map before recordRead or recordEdit has its mtime.
Record(s, read) ==
    IF tracked # 0
    THEN /\ objects' = [objects EXCEPT ![tracked].read = @ \/ read]
         /\ fileCall' = [fileCall EXCEPT ![s].object = tracked, ![s].step = "stat"]
    ELSE /\ objects' = Append(objects, [read |-> read, readMtime |-> 0, knownMtime |-> 0])
         /\ fileCall' = [fileCall EXCEPT ![s].object = Len(objects'), ![s].step = "stat"]

\* fs_read: the content goes to the model; recordRead notes the time at once.
FsRead(s) ==
    /\ AtStep(s, "fs_read", "read")
    /\ seen' = seen \cup file.edits
    /\ Record(s, TRUE)
    /\ UNCHANGED <<file, tracked, watch, watchersMade, notified, fileCalls, outside, quiet>>

\* fs_edit reads the file and changes what it read; it returns if the text is
\* not found, or found more than once.
ReadToEdit(s) ==
    /\ AtStep(s, "fs_edit", "read")
    /\ \/ Returns(s, tracked)
       \/ fileCall' = [fileCall EXCEPT ![s].content = file.edits, ![s].step = "write"]
    /\ UNCHANGED <<file, objects, tracked, watch, watchersMade, notified, fileCalls, outside,
                   seen, quiet>>

\* So does fs_multi_edit, for each edit; one that fails is skipped.
ReadToMultiEdit(s) ==
    /\ AtStep(s, "fs_multi_edit", "read")
    /\ \/ Returns(s, tracked)
       \/ fileCall' = [fileCall EXCEPT ![s].content = file.edits, ![s].step = "write"]
    /\ UNCHANGED <<file, objects, tracked, watch, watchersMade, notified, fileCalls, outside,
                   seen, quiet>>

Changes(edits) == /\ file' = [edits |-> edits, mtime |-> file.mtime + 1]
                  /\ notified' = (notified \/ watch = "set")

\* The write, after which recordEdit begins.
FsWrite(s) ==
    /\ fileCall[s] # NoFileCall /\ fileCall[s].step = "write"
    /\ Changes(fileCall[s].content \cup {fileCall[s].id})
    /\ Record(s, FALSE)
    /\ UNCHANGED <<tracked, watch, watchersMade, fileCalls, outside, seen, quiet>>

\* recordRead and recordEdit have the mtime.  ensureWatch opens a watcher
\* unless there is one, or waits for the call that opens one.
RecordMtime(s) ==
    /\ fileCall[s] # NoFileCall /\ fileCall[s].step = "stat"
    /\ LET object == fileCall[s].object
       IN /\ objects' = [objects EXCEPT
                ![object].readMtime = IF fileCall[s].tool = "fs_read" THEN file.mtime ELSE @,
                ![object].knownMtime = file.mtime]
          /\ tracked' = object
    /\ CASE watch = "none"    -> watch' = "pending" /\ Advances(s, "watch")
         [] watch = "pending" -> Advances(s, "wait") /\ UNCHANGED watch
         [] OTHER             -> Returns(s, tracked') /\ UNCHANGED watch
    /\ UNCHANGED <<file, watchersMade, notified, fileCalls, outside, seen, quiet>>

\* doWatch succeeds, or fails and is tried again by a later call.
DoWatch(s) ==
    /\ fileCall[s] # NoFileCall /\ fileCall[s].step = "watch"
    /\ \/ watch' = "set" /\ watchersMade' = watchersMade + 1
       \/ watch' = "none" /\ UNCHANGED watchersMade
    /\ Returns(s, tracked)
    /\ UNCHANGED <<file, objects, tracked, notified, fileCalls, outside, seen, quiet>>

AwaitWatch(s) ==
    /\ fileCall[s] # NoFileCall /\ fileCall[s].step = "wait" /\ watch # "pending"
    /\ Returns(s, tracked)
    /\ UNCHANGED <<file, objects, tracked, watch, watchersMade, notified, fileCalls, outside,
                   seen, quiet>>

\* The watcher's callback, with the mtime it has found.
WatchEvent ==
    /\ notified
    /\ notified' = FALSE
    /\ objects' = IF tracked = 0 THEN objects
                  ELSE [objects EXCEPT ![tracked].knownMtime = file.mtime]
    /\ UNCHANGED <<file, tracked, watch, watchersMade, fileCall, fileCalls, outside, seen, quiet>>

OutsideEdit ==
    LET id == <<"other", Cardinality(outside) + 1>>
    IN /\ Cardinality(outside) < MaxOutsideEdits
       /\ Changes(file.edits \cup {id})
       /\ outside' = outside \cup {id}
       /\ quiet' = IF Busy = {} /\ tracked # 0 /\ objects[tracked].read THEN quiet \cup {id}
                   ELSE quiet
       /\ UNCHANGED <<objects, tracked, watch, watchersMade, fileCall, fileCalls, seen>>

FileNext ==
    \/ /\ Busy # FileSlots
       /\ \E s \in FileSlots, tool \in {"fs_read", "fs_write", "fs_edit", "fs_multi_edit"} :
             CallTool(s, tool)
    \/ \E s \in FileSlots :
          \/ ValidateWrite(s) \/ FsRead(s) \/ ReadToEdit(s) \/ ReadToMultiEdit(s) \/ FsWrite(s)
          \/ RecordMtime(s) \/ DoWatch(s) \/ AwaitWatch(s)
    \/ WatchEvent \/ OutsideEdit

FileSpec == FileInit /\ [][FileNext]_fileVars
-----------------------------------------------------------------------------
\* What somebody else wrote to a file that the agent has read, at a moment
\* when no tool was at work on it, is not overwritten before the agent has
\* read it, however the calls that follow interleave.
QuietEditsSurvive == quiet \subseteq file.edits \cup seen

\* Calls that end at the same time open one watcher for the file.
OneWatcher == watchersMade <= 1

\* Edits by others survive the tools, and one watcher looks out for them.
OutsideEditsKept == QuietEditsSurvive /\ OneWatcher
=============================================================================
