----------------------------- MODULE JsonStore ------------------------------
(***************************************************************************)
(* The JSON store of one agent: the messages file (WalFile) and one event  *)
(* channel (EventLog), that share a process which may crash, and the scan  *)
(* the constructor of the next store starts and does not wait for          *)
(* (recoverAllWALs): first the files, then the channels.                   *)
(***************************************************************************)
EXTENDS WalFile, EventLog

CONSTANT MaxStoreCrashes    \* bound: crashes of the process

ASSUME StoreAssumption == MaxStoreCrashes \in Nat

VARIABLES scanning,      \* how far recoverAllWALs is
          storeCrashes

storeVars == <<fileVars, logVars, scanning, storeCrashes>>

StoreTypeOK ==
    /\ FileTypeOK /\ LogTypeOK
    /\ scanning \in {"files", "channels", "done"}
    /\ storeCrashes \in 0..MaxStoreCrashes

StoreInit == FileInit /\ LogInit /\ scanning = "done" /\ storeCrashes = 0

FileAlone == UNCHANGED <<logVars, scanning, storeCrashes>>
LogAlone == UNCHANGED <<fileVars, scanning, storeCrashes>>

\* What callers start, and what then runs by itself.
UseFile ==
    /\ (\E v \in Versions : Save(v)) \/ Load
    /\ FileAlone

UseLog ==
    /\ (\E e \in Appends : AppendEvent(e)) \/ (\E f \in Flushes : ReadFlush(f))
    /\ LogAlone

FileRuns == FileStep /\ FileAlone

LogRuns == LogStep /\ LogAlone

FileErrs ==
    /\ \/ \E v \in Versions : LogFails(v) \/ MainFails(v)
       \/ \E r \in {"load", "scan"} : RecoveryFails(r)
    /\ FileAlone

LogErrs ==
    /\ RecoverLogFails \/ \E f \in Flushes : FlushFails(f)
    /\ LogAlone

\* recoverAllWALs goes on to the channels when the files are done.
ScanGoesOn ==
    /\ \/ /\ scanning = "files" /\ recovery["scan"].pc = "idle"
          /\ scanning' = "channels"
          /\ \/ ScanChannel
             \/ recovered /\ UNCHANGED logVars
       \/ /\ scanning = "channels"
          /\ recoverer.by # 0 \/ recoverer = Nobody
          /\ scanning' = "done"
          /\ UNCHANGED logVars
    /\ UNCHANGED <<fileVars, storeCrashes>>

Crash ==
    /\ storeCrashes < MaxStoreCrashes
    /\ storeCrashes' = storeCrashes + 1
    /\ FileCrash /\ LogCrash
    /\ scanning' = "files"

StoreNext ==
    \/ UseFile \/ UseLog \/ FileRuns \/ LogRuns \/ FileErrs \/ LogErrs \/ ScanGoesOn \/ Crash

StoreSpec == StoreInit /\ [][StoreNext]_storeVars

\* Operations of the file system end, one by one, and timers fire.
StoreFairness ==
    /\ \A v \in Versions : WF_storeVars(SaveStep(v) /\ FileAlone)
    /\ WF_storeVars((RecoveryStep("load") \/ MainRead) /\ FileAlone)
    /\ WF_storeVars(RecoveryStep("scan") /\ FileAlone)
    /\ WF_storeVars((RecoverRead \/ RecoverAppended \/ RecoverDone) /\ LogAlone)
    /\ WF_storeVars((\E e \in Appends : Push(e)) /\ LogAlone)
    /\ WF_storeVars((Rewrite \/ Rewritten) /\ LogAlone)
    /\ WF_storeVars((\E f \in Flushes : TimedFlush(f)) /\ LogAlone)
    /\ \A f \in Flushes : WF_storeVars((RecoveredFlush(f) \/ Flushed(f)) /\ LogAlone)
    /\ WF_storeVars(ScanGoesOn)

FairStoreSpec == StoreSpec /\ StoreFairness

\* Saves at a time share one temporary file: without failures, and until a load
\* restores the file under them, one that finds it taken writes it once more, and is
\* rejected only when two others have taken it.
NoSaveRejected ==
    fileFaults = 0 /\ storeCrashes = 0 /\ loaded = 0 /\ recovery["load"] = Idle
        => \A v \in Versions :
               save[v] = "failed" =>
                   \E u, w \in Versions \ {v} : u # w /\ {save[u], save[w]} \subseteq {"unlink", "saved"}

\* Saves of the logged file hold: no crash takes an acknowledged version back, and
\* no save side by side with one other fails.
SavesHold == AckedSurvives /\ NoSaveRejected

\* Acknowledged events hold: at any crash they are on disk, and in order.
EventsHold == Durable /\ FirstAppearInOrder

\* Without failures of the file every event whose append has returned gets into
\* it, by the timer or by a recovery; it takes a race and a crash, or a log that a
\* crash cut short, to lose it.
EveryEventIsFiled ==
    [](logFaults = 0) =>
        \A e \in Appends :
            (append[e] = "acked") ~>
                (e \in Members(disk) \cup givenUp \/ (raced /\ storeCrashes > 0))

=============================================================================
