---------------------------- MODULE SandboxWatch ----------------------------
(***************************************************************************)
(* The OpenSandbox adapter: one object that stands for a remote sandbox,   *)
(* which init() creates or connects to and dispose() kills, and a watch of *)
(* its files, by a stream of events or by polling.  Every call of the      *)
(* remote sandbox is an await, during which init(), dispose(),             *)
(* unwatchFiles() and the timer of the watch run.                          *)
(*                                                                         *)
(* The model has one watch.  An mtime is the number of changes of a file;  *)
(* a stat that fails gives 0, for undefined.                               *)
(***************************************************************************)
EXTENDS Naturals, Sequences, FiniteSets, FiniteSetsExt

CONSTANTS Inits,           \* calls of init()
          Paths,           \* 1 .. n, in the order of the watch's paths
          MaxFileChanges   \* bound: changes of files in the sandbox

ASSUME PathsAssumption == Cardinality(Paths) \in Nat \ {0} /\ Paths = 1..Cardinality(Paths)

VARIABLES remotes,      \* the remote sandboxes created: "running" or "killed"
          client,       \* this.sandbox, or 0
          sandboxId,    \* options.sandboxId, or 0
          initCall,     \* the calls of init(): [step, target]
          disposing,    \* the sandbox that dispose() is killing, or 0
          mtime,        \* path -> the file's mtime
          watching,     \* watchFiles(): not wanted, idle, probing, polling,
                        \* returned or failed
          entry,        \* watchers.get(id): none, native or polling
          baseline,     \* startPollingWatcher: [at, mtimes], at = 0 when it does not run
          poll,         \* the PollWatcher: [polling, pending, at, read, lastMtimes]
          aborted,      \* the stream's AbortController
          stream,       \* none, open or over
          heard,        \* path -> the mtime that the listener knows of
          dueMtimes,    \* path -> the mtime when the timer last fired
          late,         \* calls of the listener after unwatchFiles() or dispose()
          unwatched,    \* unwatchFiles() or dispose() has been called
          excused       \* two init() overlapped, a kill failed, or the watch was ended
                        \* while a poller was being started: [overlap, kill, watch]

sandboxVars == <<remotes, client, sandboxId, initCall, disposing>>
watchVars == <<mtime, watching, entry, baseline, poll, aborted, stream, heard, dueMtimes, late,
               unwatched>>
watcherVars == <<sandboxVars, watchVars, excused>>

AllZero == [p \in Paths |-> 0]
NotPolling == [polling |-> FALSE, pending |-> FALSE, at |-> 0, read |-> <<>>,
               lastMtimes |-> AllZero]

SandboxInit ==
    /\ remotes = <<>> /\ client = 0 /\ sandboxId = 0 /\ disposing = 0
    /\ initCall \in [Inits -> [step : {"not called", "done"}, target : {0}]]
    /\ mtime = [p \in Paths |-> 1]
    /\ watching \in {"idle", "not wanted"} /\ entry = "none"
    /\ baseline = [at |-> 0, mtimes |-> AllZero]
    /\ poll = NotPolling /\ aborted = FALSE /\ stream = "none"
    /\ heard = AllZero /\ dueMtimes = AllZero /\ late = 0 /\ unwatched = FALSE
    /\ excused = [overlap |-> FALSE, kill |-> FALSE, watch |-> FALSE]

UnderWay == {i \in Inits : initCall[i].step \in {"create", "connect"}}

\* init(): nothing looks whether another one is at it.
InitCalled(i) ==
    /\ initCall[i].step = "not called"
    /\ initCall' = [initCall EXCEPT ![i] =
           [step |-> CASE client # 0                   -> "done"
                       [] client = 0 /\ sandboxId # 0 -> "connect"
                       [] client = 0 /\ sandboxId = 0 -> "create",
            target |-> sandboxId]]
    /\ excused' = [excused EXCEPT !.overlap = @ \/ UnderWay # {}]
    /\ UNCHANGED <<remotes, client, sandboxId, disposing, watchVars>>

InitReturns(i) ==
    /\ initCall' = [initCall EXCEPT ![i].step = "done"]
    /\ \/ /\ initCall[i].step = "create"
          /\ remotes' = Append(remotes, "running")
          /\ client' = Len(remotes') /\ sandboxId' = client'
       \/ /\ initCall[i].step = "connect" /\ remotes[initCall[i].target] = "running"
          /\ client' = initCall[i].target /\ sandboxId' = client'
          /\ UNCHANGED remotes
       \/ initCall[i].step \in {"create", "connect"} /\ UNCHANGED <<remotes, client, sandboxId>>
    /\ UNCHANGED <<disposing, watchVars, excused>>

EndWatch ==
    /\ entry' = "none"
    /\ aborted' = (aborted \/ entry = "native")
    /\ unwatched' = (watching \notin {"idle", "not wanted"})
    /\ excused' = [excused EXCEPT !.watch = @ \/ (entry = "none" /\ (watching = "probing"
                                                                    \/ baseline.at # 0))]
    /\ UNCHANGED <<mtime, watching, baseline, poll, stream, heard, dueMtimes, late>>

UnwatchFiles == watching = "returned" /\ ~unwatched /\ EndWatch /\ UNCHANGED sandboxVars

\* dispose(): ends the watch, and kills the sandbox if there is one.
Dispose ==
    /\ EndWatch
    /\ disposing = 0
    /\ disposing' = client
    /\ client' = 0
    /\ UNCHANGED <<remotes, sandboxId, initCall>>

KillReturns ==
    /\ disposing # 0
    /\ disposing' = 0
    /\ \/ remotes' = [remotes EXCEPT ![disposing] = "killed"] /\ UNCHANGED excused
       \/ excused' = [excused EXCEPT !.kill = TRUE] /\ UNCHANGED remotes
    /\ UNCHANGED <<client, sandboxId, initCall, watchVars>>

Stat(path) == IF client = 0 \/ remotes[client] = "killed" THEN 0 ELSE mtime[path]

\* Starts the poller: a stat of each path comes first.
StartPollingWatcher == baseline' = [at |-> 1, mtimes |-> AllZero]

\* watchFiles(), with a probe for inotifywait, which needs the sandbox, in native
\* mode.
WatchFiles ==
    /\ watching = "idle" /\ ~unwatched
    /\ \/ watching' = (IF client = 0 THEN "failed" ELSE "probing") /\ UNCHANGED baseline
       \/ watching' = "polling" /\ StartPollingWatcher
    /\ UNCHANGED <<sandboxVars, mtime, entry, poll, aborted, stream, heard, dueMtimes, late, unwatched,
                   excused>>

\* exec: the code of a command that ran, from its error and from its status,
\* which may lack the exit code.
ExecCode(error, exitCode, failed) ==
    CASE exitCode # <<>>                      -> exitCode[1]
      [] exitCode = <<>> /\ (failed \/ error) -> 1
      [] OTHER                                -> 0

\* The stream begins, unless the sandbox has been disposed of meanwhile; or
\* polling takes its place.
ProbeReturns ==
    /\ watching = "probing"
    /\ \E error, failed, echoed \in BOOLEAN, exitCode \in {<<>>, <<0>>, <<1>>} :
          LET ready == ExecCode(error, exitCode, failed) = 0 /\ echoed
          IN CASE ~ready ->
                    /\ watching' = "polling" /\ StartPollingWatcher
                    /\ UNCHANGED <<stream, entry, heard>>
               [] ready /\ client = 0 ->
                    /\ watching' = "failed"
                    /\ UNCHANGED <<baseline, stream, entry, heard>>
               [] OTHER ->
                    /\ watching' = "returned" /\ stream' = "open" /\ entry' = "native"
                    /\ heard' = mtime
                    /\ UNCHANGED baseline
    /\ UNCHANGED <<sandboxVars, mtime, poll, aborted, dueMtimes, late, unwatched, excused>>

\* A stat of startPollingWatcher returns.  With the last one the poller is in
\* place, and the first poll begins.
BaselineStat ==
    /\ baseline.at # 0
    /\ LET mtimes == [baseline.mtimes EXCEPT ![baseline.at] = Stat(baseline.at)]
       IN IF baseline.at + 1 \in Paths
          THEN /\ baseline' = [at |-> baseline.at + 1, mtimes |-> mtimes]
               /\ UNCHANGED <<entry, poll, heard, dueMtimes, watching>>
          ELSE /\ baseline' = [at |-> 0, mtimes |-> AllZero]
               /\ entry' = "polling"
               /\ poll' = [polling |-> TRUE, pending |-> FALSE, at |-> 1, read |-> <<>>,
                           lastMtimes |-> mtimes]
               /\ heard' = mtimes /\ dueMtimes' = mtimes
               /\ watching' = "returned"
    /\ UNCHANGED <<sandboxVars, mtime, aborted, stream, late, unwatched, excused>>

TimerFires ==
    /\ entry = "polling"
    /\ poll' = [poll EXCEPT !.pending = poll.polling, !.polling = TRUE,
                            !.at = IF poll.polling THEN @ ELSE 1]
    /\ dueMtimes' = [p \in Paths |-> Stat(p)]
    /\ UNCHANGED <<sandboxVars, mtime, watching, entry, baseline, aborted, stream, heard, late,
                   unwatched, excused>>

PollReads ==
    /\ poll.polling /\ poll.read = <<>>
    /\ poll' = [poll EXCEPT !.read = <<Stat(poll.at)>>]
    /\ UNCHANGED <<sandboxVars, mtime, watching, entry, baseline, aborted, stream, heard, dueMtimes,
                   late, unwatched, excused>>

\* Faulty variant: what the timer asked for during the poll is not looked at.
GoesOnceRound(watched) ==
    IF watched /\ poll.at + 1 \in Paths
    THEN [poll EXCEPT !.at = @ + 1, !.read = <<>>, !.lastMtimes[poll.at] = poll.read[1]]
    ELSE [poll EXCEPT !.at = 0, !.read = <<>>, !.lastMtimes[poll.at] = poll.read[1],
                      !.polling = FALSE]

\* The poll goes on with the next path, begins again if the timer has fired
\* meanwhile, or is over.
GoesOn(watched) ==
    LET noted == [poll EXCEPT !.read = <<>>, !.lastMtimes[poll.at] = poll.read[1]]
    IN CASE watched /\ poll.at + 1 \in Paths -> [noted EXCEPT !.at = @ + 1]
         [] watched /\ poll.at + 1 \notin Paths /\ poll.pending ->
                [noted EXCEPT !.at = 1, !.pending = FALSE]
         [] OTHER -> [noted EXCEPT !.at = 0, !.polling = FALSE]

Heard(path, now) == /\ heard' = [heard EXCEPT ![path] = now]
                    /\ late' = late + (IF unwatched THEN 1 ELSE 0)

\* The stat of a poll returns, and the listener is called even if the watch
\* has ended since.
PollReturns ==
    /\ poll.polling /\ poll.read # <<>>
    /\ IF poll.read[1] = poll.lastMtimes[poll.at] THEN UNCHANGED <<heard, late>>
       ELSE Heard(poll.at, poll.read[1])
    /\ poll' = GoesOn(entry = "polling")
    /\ UNCHANGED <<sandboxVars, mtime, watching, entry, baseline, aborted, stream, dueMtimes,
                   unwatched, excused>>

\* The stream ends, by itself or because it was aborted; a last line without a
\* line break is still told.  The watcher is replaced if it is in the map.
WatchStreamEnds ==
    /\ stream = "open"
    /\ stream' = "over"
    /\ \/ UNCHANGED <<heard, late>>
       \/ \E p \in Paths : Heard(p, mtime[p])
    /\ IF entry = "native" THEN entry' = "none" /\ StartPollingWatcher
       ELSE UNCHANGED <<entry, baseline>>
    /\ UNCHANGED <<sandboxVars, mtime, watching, poll, aborted, dueMtimes, unwatched, excused>>

\* A file in the sandbox changes; an open stream that is not aborted tells it.
FileChanges(p) ==
    /\ MapThenSumSet(LAMBDA q : mtime[q] - 1, Paths) < MaxFileChanges
    /\ mtime' = [mtime EXCEPT ![p] = @ + 1]
    /\ heard' = IF stream = "open" /\ ~aborted THEN [heard EXCEPT ![p] = mtime'[p]] ELSE heard
    /\ UNCHANGED <<sandboxVars, watching, entry, baseline, poll, aborted, stream, dueMtimes, late,
                   unwatched, excused>>

SandboxNext ==
    \/ \E i \in Inits : InitCalled(i) \/ InitReturns(i)
    \/ Dispose \/ KillReturns
    \/ WatchFiles \/ UnwatchFiles \/ ProbeReturns \/ BaselineStat
    \/ TimerFires \/ PollReads \/ PollReturns \/ WatchStreamEnds
    \/ \E p \in Paths : FileChanges(p)

SandboxSpec == SandboxInit /\ [][SandboxNext]_watcherVars
-----------------------------------------------------------------------------
\* A tick of the poller's timer is never lost while the sandbox runs: when the
\* poller rests, the listener knows of every change that was there when the
\* timer last fired, also if it fired in the middle of the poll before (unless
\* one of two overlapping init() put another sandbox in its place).
TicksAreHeeded ==
    /\ entry = "polling" /\ ~poll.polling /\ ~unwatched /\ ~excused.overlap
    /\ client # 0 /\ remotes[client] = "running"
    => \A p \in Paths : heard[p] >= dueMtimes[p]

\* After unwatchFiles() or dispose() the listener is called once more at most,
\* and nothing watches any longer, unless the poller was just being started.
UnwatchedIsQuiet ==
    unwatched /\ ~excused.watch => entry = "none" /\ baseline.at = 0 /\ late <= 1

\* A disposed adapter leaves no remote sandbox behind that runs, and is paid
\* for, unless two calls of init() overlapped or the kill failed.
NoneLeftRunning ==
    /\ client = 0 /\ disposing = 0 /\ UnderWay = {} /\ ~excused.overlap /\ ~excused.kill
    => \A r \in DOMAIN remotes : remotes[r] = "killed"

\* The watch and the remote sandbox are looked after.
SandboxKept == TicksAreHeeded /\ UnwatchedIsQuiet /\ NoneLeftRunning
=============================================================================
