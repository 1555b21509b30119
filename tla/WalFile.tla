------------------------------ MODULE WalFile -------------------------------
(***************************************************************************)
(* src/infra/store/json-store.ts: saveWithWal, loadWithWal and             *)
(* recoverRuntimeWAL for one file (the messages or the tool records of one *)
(* agent), with a crash between any two of their steps.  A file content is *)
(* a version (the saves are numbered in the order of their calls), Absent, *)
(* or Torn while it is being written.                                      *)
(* The temporary file is written at one go: nobody reads it but the rename *)
(* that follows, and mixtures of two writers are left out.                 *)
(***************************************************************************)
EXTENDS Integers, Sequences, FiniteSets

CONSTANTS MaxSaves,      \* bound: calls of save
          MaxFileFaults, \* bound: file operations that fail
          MaxOverlap     \* saves, loads and recoveries in progress at a time

ASSUME FileAssumption == MaxSaves \in Nat /\ MaxFileFaults \in Nat /\ MaxOverlap \in Nat \ {0}

Absent == 0
Torn == -1
Versions == 1..MaxSaves
Contents == Versions \cup {Absent, Torn}

VARIABLES
    main, tmp, wal,   \* the three files
    save,             \* Versions -> where its saveWithWal is
    chain,            \* walQueue: the saves that have the log to write, in turn
    recovery,         \* {"load", "scan"} -> where it is and the version it read
    acked,            \* the last version whose save returned
    loaded,           \* what the last load returned
    overlapped,       \* history: whether two of save, load and recovery have overlapped
    fileFaults

files == <<main, tmp, wal>>
fileVars == <<files, save, chain, recovery, acked, loaded, overlapped, fileFaults>>

SavePcs == {"new", "queued", "log", "logAgain", "tmp", "rename", "tmpAgain", "renameAgain",
            "unlink", "saved", "failed"}
RecoveryPcs == {"idle", "start", "read", "tmp", "rename", "unlink", "main"}

FileTypeOK ==
    /\ main \in Versions \cup {Absent} /\ tmp \in Versions \cup {Absent} /\ wal \in Contents
    /\ save \in [Versions -> SavePcs]
    /\ chain \in Seq(Versions)
    /\ recovery \in [{"load", "scan"} -> [pc : RecoveryPcs, val : Versions \cup {Absent}]]
    /\ acked \in 0..MaxSaves /\ loaded \in 0..MaxSaves
    /\ overlapped \in BOOLEAN /\ fileFaults \in 0..MaxFileFaults

Idle == [pc |-> "idle", val |-> Absent]

\* A store on an empty directory, where its constructor's scan finds nothing.
FileInit ==
    /\ main = Absent /\ tmp = Absent /\ wal = Absent
    /\ save = [v \in Versions |-> "new"]
    /\ chain = <<>>
    /\ recovery = [r \in {"load", "scan"} |-> Idle]
    /\ acked = 0 /\ loaded = 0 /\ overlapped = FALSE /\ fileFaults = 0

Saving == {v \in Versions : save[v] \notin {"new", "saved", "failed"}}
InProgress == Cardinality(Saving) + Cardinality({r \in {"load", "scan"} : recovery[r].pc # "idle"})
Begun == {v \in Versions : save[v] # "new"}

\* A save, load or scan of the file begins.
Begins == overlapped' = (overlapped \/ InProgress > 0)

FileFault == fileFaults < MaxFileFaults /\ fileFaults' = fileFaults + 1

----------------------------------------------------------------------------
(* saveWithWal.                                                             *)

Save(v) ==
    /\ save[v] = "new" /\ \A u \in Versions : u < v => save[u] # "new"
    /\ InProgress < MaxOverlap /\ Begins
    /\ save' = [save EXCEPT ![v] = "queued"]
    /\ chain' = Append(chain, v)
    /\ UNCHANGED <<files, recovery, acked, loaded, fileFaults>>

\* Its turn in queueWalWrite: the log is truncated and written.
LogOpened(v) ==
    /\ save[v] = "queued" /\ Head(chain) = v
    /\ wal' = Torn
    /\ save' = [save EXCEPT ![v] = "log"]
    /\ UNCHANGED <<main, tmp, chain, recovery, acked, loaded, overlapped, fileFaults>>

\* (A log that was removed or renamed while it was written is gone.)
LogWritten(v) ==
    /\ save[v] \in {"log", "logAgain"}
    /\ wal' = IF wal = Absent THEN Absent ELSE v
    /\ chain' = Tail(chain)
    /\ save' = [save EXCEPT ![v] = "tmp"]
    /\ UNCHANGED <<main, tmp, recovery, acked, loaded, overlapped, fileFaults>>

\* The .catch of queueWalWrite writes once more; a second failure rejects.
LogFails(v) ==
    /\ FileFault
    /\ \/ /\ save[v] = "log"
          /\ save' = [save EXCEPT ![v] = "logAgain"]
          /\ wal' = Torn
          /\ UNCHANGED chain
       \/ /\ save[v] = "logAgain"
          /\ save' = [save EXCEPT ![v] = "failed"]
          /\ chain' = Tail(chain)
          /\ UNCHANGED wal
    /\ UNCHANGED <<main, tmp, recovery, acked, loaded, overlapped>>

\* Faulty variant: a temporary file left by a failed save is taken for one's own.
TmpReused(v) ==
    /\ save[v] \in {"tmp", "tmpAgain"}
    /\ tmp' = IF tmp = Absent THEN v ELSE tmp
    /\ save' = [save EXCEPT ![v] = IF @ = "tmp" THEN "rename" ELSE "renameAgain"]
    /\ UNCHANGED <<main, wal, chain, recovery, acked, loaded, overlapped, fileFaults>>

TmpWritten(v) ==
    /\ save[v] \in {"tmp", "tmpAgain"}
    /\ tmp' = v
    /\ save' = [save EXCEPT ![v] = IF @ = "tmp" THEN "rename" ELSE "renameAgain"]
    /\ UNCHANGED <<main, wal, chain, recovery, acked, loaded, overlapped, fileFaults>>

\* Faulty variant: the temporary file is not written again.
RenamedOnce(v) ==
    /\ save[v] = "rename"
    /\ IF tmp # Absent
       THEN main' = tmp /\ tmp' = Absent /\ save' = [save EXCEPT ![v] = "unlink"]
       ELSE save' = [save EXCEPT ![v] = "failed"] /\ UNCHANGED <<main, tmp>>
    /\ UNCHANGED <<wal, chain, recovery, acked, loaded, overlapped, fileFaults>>

\* The rename; when the file is gone it is written once more.
Renamed(v) ==
    /\ save[v] \in {"rename", "renameAgain"}
    /\ \/ /\ tmp # Absent
          /\ main' = tmp /\ tmp' = Absent
          /\ save' = [save EXCEPT ![v] = "unlink"]
       \/ /\ tmp = Absent
          /\ save' = [save EXCEPT ![v] = IF @ = "rename" THEN "tmpAgain" ELSE "failed"]
          /\ UNCHANGED <<main, tmp>>
    /\ UNCHANGED <<wal, chain, recovery, acked, loaded, overlapped, fileFaults>>

MainFails(v) ==
    /\ save[v] \in {"tmp", "tmpAgain", "rename", "renameAgain"}
    /\ FileFault
    /\ save' = [save EXCEPT ![v] = "failed"]
    /\ UNCHANGED <<files, chain, recovery, acked, loaded, overlapped>>

\* The log is removed, a failure to do so ignored; the save returns.
Unlinked(v) ==
    /\ save[v] = "unlink"
    /\ \/ wal' = Absent /\ UNCHANGED fileFaults
       \/ UNCHANGED wal /\ FileFault
    /\ save' = [save EXCEPT ![v] = "saved"]
    /\ acked' = IF v > acked THEN v ELSE acked
    /\ UNCHANGED <<main, tmp, chain, recovery, loaded, overlapped>>

----------------------------------------------------------------------------
(* loadWithWal and recoverRuntimeWAL: the same recovery, then the load      *)
(* reads the main file.                                                     *)

Load ==
    /\ recovery["load"].pc = "idle"
    /\ InProgress < MaxOverlap /\ Begins
    /\ recovery' = [recovery EXCEPT !["load"].pc = "start"]
    /\ UNCHANGED <<files, save, chain, acked, loaded, fileFaults>>

Goes(r, pc) == recovery' = [recovery EXCEPT ![r].pc = pc]

AfterRecovery(r) == IF r = "load" THEN "main" ELSE "idle"

LogLookedFor(r) ==
    /\ recovery[r].pc = "start"
    /\ Goes(r, IF wal = Absent THEN AfterRecovery(r) ELSE "read")
    /\ UNCHANGED <<files, save, chain, acked, loaded, overlapped, fileFaults>>

\* An unreadable log: the scan puts it aside, the load leaves it.
GivesUp(r) ==
    /\ Goes(r, AfterRecovery(r))
    /\ wal' = IF r = "scan" THEN Absent ELSE wal

\* Faulty variant: what is read is not looked at.
LogReadUnchecked(r) ==
    /\ recovery[r].pc = "read"
    /\ recovery' = [recovery EXCEPT ![r] = [pc |-> "tmp", val |-> wal]]
    /\ UNCHANGED <<files, save, chain, acked, loaded, overlapped, fileFaults>>

LogRead(r) ==
    /\ recovery[r].pc = "read"
    /\ \/ /\ wal \in Versions
          /\ recovery' = [recovery EXCEPT ![r] = [pc |-> "tmp", val |-> wal]]
          /\ UNCHANGED wal
       \/ wal \notin Versions /\ GivesUp(r)
    /\ UNCHANGED <<main, tmp, save, chain, acked, loaded, overlapped, fileFaults>>

RecoveryTmpWritten(r) ==
    /\ recovery[r].pc = "tmp"
    /\ tmp' = recovery[r].val
    /\ Goes(r, "rename")
    /\ UNCHANGED <<main, wal, save, chain, acked, loaded, overlapped, fileFaults>>

RecoveryRenamed(r) ==
    /\ recovery[r].pc = "rename"
    /\ \/ /\ tmp # Absent
          /\ main' = tmp /\ tmp' = Absent
          /\ Goes(r, "unlink")
          /\ UNCHANGED wal
       \/ tmp = Absent /\ GivesUp(r) /\ UNCHANGED <<main, tmp>>
    /\ UNCHANGED <<save, chain, acked, loaded, overlapped, fileFaults>>

LogRemoved(r) ==
    /\ recovery[r].pc = "unlink"
    /\ wal' = Absent
    /\ Goes(r, AfterRecovery(r))
    /\ UNCHANGED <<main, tmp, save, chain, acked, loaded, overlapped, fileFaults>>

RecoveryFails(r) ==
    /\ recovery[r].pc \in {"read", "tmp", "rename"}
    /\ FileFault
    /\ GivesUp(r)
    /\ UNCHANGED <<main, tmp, save, chain, acked, loaded, overlapped>>

MainRead ==
    /\ recovery["load"].pc = "main"
    /\ loaded' = main
    /\ recovery' = [recovery EXCEPT !["load"] = Idle]
    /\ UNCHANGED <<files, save, chain, acked, overlapped, fileFaults>>

\* Every operation in progress is over; the next store scans again.
FileCrash ==
    /\ save' = [v \in Versions |-> IF v \in Saving THEN "failed" ELSE save[v]]
    /\ chain' = <<>>
    /\ recovery' = [r \in {"load", "scan"} |-> IF r = "scan" THEN [Idle EXCEPT !.pc = "start"] ELSE Idle]
    /\ UNCHANGED <<files, acked, loaded, overlapped, fileFaults>>

----------------------------------------------------------------------------

SaveStep(v) == LogOpened(v) \/ LogWritten(v) \/ TmpWritten(v) \/ Renamed(v) \/ Unlinked(v)

RecoveryStep(r) ==
    \/ LogLookedFor(r) \/ LogRead(r) \/ RecoveryTmpWritten(r) \/ RecoveryRenamed(r) \/ LogRemoved(r)

FileStep ==
    \/ \E v \in Versions : SaveStep(v)
    \/ \E r \in {"load", "scan"} : RecoveryStep(r)
    \/ MainRead

FileNext ==
    \/ \E v \in Versions : Save(v) \/ LogFails(v) \/ MainFails(v)
    \/ Load
    \/ \E r \in {"load", "scan"} : RecoveryFails(r)
    \/ FileStep

----------------------------------------------------------------------------

\* What a load would find now.
Readable == IF wal \in Versions THEN wal ELSE main

\* As long as its operations do not overlap: whatever step a crash cuts short, and
\* whatever recovery cuts short again, a version whose save returned is not lost to
\* an older one.
AckedSurvives == ~overlapped => Readable >= acked

\* And loads do not go back in time: neither behind a save that had returned nor
\* behind an earlier load, whatever crashed or failed in between.
ReadsMoveForward ==
    [][loaded' # loaded /\ ~overlapped => loaded' > loaded /\ loaded' >= acked]_fileVars

\* One operation after the other, the file is a register that a crash cannot split.
Register == INSTANCE DurableRegister WITH
                value <- Readable,
                begun <- Cardinality(Begun),
                shared <- overlapped

ImplementsRegister == Register!Spec

=============================================================================
