-------------------------- MODULE JsonStore_proofs ---------------------------
(***************************************************************************)
(* Theorems about JsonStore for any number of saves, appends, flushes,     *)
(* overlaps, failures and crashes.                                         *)
(***************************************************************************)
EXTENDS JsonStore, FiniteSetTheorems, TLAPS

-----------------------------------------------------------------------------
(* The logged file.                                                         *)

Recoveries == {"load", "scan"}

FileTypes ==
    /\ main \in Versions \cup {Absent} /\ tmp \in Versions \cup {Absent} /\ wal \in Contents
    /\ save \in [Versions -> SavePcs]
    /\ recovery \in [Recoveries -> [pc : RecoveryPcs, val : Versions \cup {Absent}]]
    /\ acked \in 0..MaxSaves /\ loaded \in 0..MaxSaves
    /\ overlapped \in BOOLEAN /\ fileFaults \in Nat

\* Versions are begun in the order of their numbers, none left out.
BegunInTurn == \E n \in 0..MaxSaves : Begun = 1..n

\* At most one save, load or scan is at work.
OneAtWork ==
    /\ \A u, v \in Saving : u = v
    /\ \A v \in Saving, r \in Recoveries : recovery[r].pc = "idle"
    /\ recovery["load"].pc = "idle" \/ recovery["scan"].pc = "idle"

\* A save at work is of the last version that was begun.
NewestLast == \A v \in Saving, u \in Begun : u <= v

\* The files are of begun versions, the log of one no older than the main file.
FilesBegun ==
    /\ acked <= main /\ loaded <= main
    /\ main \in Begun \cup {Absent}
    /\ wal \in Versions => wal \in Begun /\ main <= wal

\* What the save at work has done to the files.
SaveAtWork ==
    \A v \in Saving :
        /\ save[v] \in {"queued", "log", "logAgain", "tmp", "rename", "unlink"}
        /\ save[v] \in {"log", "logAgain"} => wal = Torn
        /\ save[v] \in {"tmp", "rename", "unlink"} => wal = v
        /\ save[v] = "rename" => tmp = v
        /\ save[v] = "unlink" => main = v

\* What the load or the scan at work has done to them.
RecoveryAtWork ==
    \A r \in Recoveries :
        /\ recovery[r].pc \in {"tmp", "rename"} => wal \in Versions /\ recovery[r].val = wal
        /\ recovery[r].pc = "rename" => tmp = wal
        /\ recovery[r].pc = "unlink" => wal \in Versions /\ main = wal

Sequential == OneAtWork /\ NewestLast /\ FilesBegun /\ SaveAtWork /\ RecoveryAtWork

FileIInv == FileTypes /\ BegunInTurn /\ (~overlapped => Sequential)

\* The empty store.
LEMMA FileInitHolds == StoreInit => FileIInv
<1> SUFFICES ASSUME StoreInit PROVE FileIInv
  OBVIOUS
<1> USE FileAssumption DEF StoreInit, FileInit, Versions, Absent, Torn, Idle
<1>1. FileTypes
  <2>1. save \in [Versions -> SavePcs]
    BY DEF SavePcs
  <2>2. recovery \in [Recoveries -> [pc : RecoveryPcs, val : Versions \cup {Absent}]]
    BY DEF RecoveryPcs, Recoveries
  <2>3. /\ main = 0 /\ tmp = 0 /\ wal = 0 /\ acked = 0 /\ loaded = 0
        /\ overlapped = FALSE /\ fileFaults = 0
    OBVIOUS
  <2> HIDE DEF StoreInit, FileInit, Idle
  <2>4. /\ main \in Versions \cup {Absent} /\ tmp \in Versions \cup {Absent} /\ wal \in Contents
        /\ acked \in 0..MaxSaves /\ loaded \in 0..MaxSaves
    BY <2>3 DEF Contents
  <2>5. overlapped \in BOOLEAN /\ fileFaults \in Nat
    BY <2>3
  <2>6. QED
    BY <2>1, <2>2, <2>4, <2>5, Zenon DEF FileTypes
<1>2. BegunInTurn
  <2>1. Begun = 1..0
    BY DEF Begun
  <2>2. QED
    BY <2>1 DEF BegunInTurn
<1>3. Sequential
  BY DEF Sequential, OneAtWork, NewestLast, FilesBegun, SaveAtWork, RecoveryAtWork, Saving,
         Begun, Recoveries
<1>4. QED
  BY <1>1, <1>2, <1>3 DEF FileIInv

\* An operation that begins without an overlap finds nobody at work.
LEMMA BeginsAlone ==
    ASSUME FileTypes, Begins, ~overlapped'
    PROVE  ~overlapped /\ Saving = {} /\ \A r \in Recoveries : recovery[r].pc = "idle"
<1> DEFINE Rs == {r \in Recoveries : recovery[r].pc # "idle"}
<1>1. ~overlapped /\ ~(InProgress > 0)
  BY DEF Begins, FileTypes
<1>2. IsFiniteSet(Saving) /\ Cardinality(Saving) \in Nat
  <2>1. IsFiniteSet(Versions) /\ Saving \subseteq Versions
    BY FileAssumption, FS_Interval, 0 \in Int, 1 \in Int, MaxSaves \in Int DEF Saving, Versions
  <2>2. QED
    BY <2>1, FS_Subset, FS_CardinalityType
<1>3. IsFiniteSet(Rs) /\ Cardinality(Rs) \in Nat
  <2>1. IsFiniteSet({"load"}) /\ IsFiniteSet({"load"} \cup {"scan"})
    BY FS_Singleton, FS_AddElement
  <2>2. Rs \subseteq {"load"} \cup {"scan"}
    BY DEF Recoveries
  <2>3. QED
    BY <2>1, <2>2, FS_Subset, FS_CardinalityType
<1>4. Cardinality(Saving) = 0 /\ Cardinality(Rs) = 0
  BY <1>1, <1>2, <1>3 DEF InProgress, Recoveries
<1>5. Saving = {} /\ Rs = {}
  BY <1>2, <1>3, <1>4, FS_EmptySet
<1>6. QED
  BY <1>1, <1>5

\* saveWithWal, each of its steps.
LEMMA SaveSteps ==
    ASSUME FileIInv, NEW v \in Versions,
           Save(v) \/ SaveStep(v) \/ LogFails(v) \/ MainFails(v)
    PROVE  FileIInv'
<1> USE FileAssumption DEF FileIInv, Versions, Absent, Torn
<1>1. CASE Save(v)
  <2> USE <1>1 DEF Save, files
  <2>1. FileTypes'
    BY DEF FileTypes, Contents, SavePcs, Begins
  <2>2. PICK n \in 0..MaxSaves : Begun = 1..n
    BY DEF BegunInTurn
  <2>3. v = n + 1 /\ Begun' = 1..v
    <3>1. v \notin Begun /\ \A u \in Versions : u < v => u \in Begun
      BY DEF Begun
    <3>2. v = n + 1
      BY <2>2, <3>1
    <3>3. Begun' = Begun \cup {v}
      BY DEF Begun, FileTypes
    <3>4. QED
      BY <2>2, <3>2, <3>3
  <2>4. BegunInTurn'
    BY <2>3 DEF BegunInTurn
  <2>5. ASSUME ~overlapped' PROVE Sequential'
    <3>1. ~overlapped /\ Saving = {} /\ \A r \in Recoveries : recovery[r].pc = "idle"
      BY <2>5, BeginsAlone
    <3>2. Saving' = {v}
      BY <3>1 DEF Saving, FileTypes
    <3>3. QED
      BY <2>2, <2>3, <3>1, <3>2
         DEF Sequential, OneAtWork, NewestLast, FilesBegun, SaveAtWork, RecoveryAtWork, FileTypes,
             Contents, SavePcs, Recoveries
  <2>6. QED
    BY <2>1, <2>4, <2>5
<1>2. ASSUME SaveStep(v) \/ LogFails(v) \/ MainFails(v)
      PROVE  /\ FileTypes' /\ Begun' = Begun /\ overlapped' = overlapped
             /\ Saving' \subseteq Saving /\ v \in Saving /\ recovery' = recovery
             /\ \A u \in Versions \ {v} : save'[u] = save[u]
  <2> USE DEF files, FileTypes, Contents, SavePcs, Begun, Saving, FileFault
  <2>1. CASE LogOpened(v)
    BY <2>1 DEF LogOpened
  <2>2. CASE LogWritten(v)
    BY <2>2 DEF LogWritten
  <2>3. CASE TmpWritten(v)
    BY <2>3 DEF TmpWritten
  <2>4. CASE Renamed(v)
    BY <2>4 DEF Renamed
  <2>5. CASE Unlinked(v)
    BY <2>5 DEF Unlinked
  <2>6. CASE LogFails(v)
    BY <2>6 DEF LogFails
  <2>7. CASE MainFails(v)
    BY <2>7 DEF MainFails
  <2>8. QED
    BY <1>2, <2>1, <2>2, <2>3, <2>4, <2>5, <2>6, <2>7 DEF SaveStep
<1>3. CASE SaveStep(v) \/ LogFails(v) \/ MainFails(v)
  <2>1. BegunInTurn'
    BY <1>2, <1>3 DEF BegunInTurn
  <2>2. ASSUME ~overlapped PROVE Sequential'
    <3>1. Sequential
      BY <2>2
    <3>2. OneAtWork' /\ NewestLast' /\ Saving = {v} /\ RecoveryAtWork'
      BY <1>2, <1>3, <3>1 DEF Sequential, OneAtWork, NewestLast, RecoveryAtWork
    <3>3. \A u \in Begun : u <= v
      BY <1>2, <1>3, <3>1 DEF Sequential, NewestLast
    <3>4. v \in Begun /\ Begun \subseteq Versions
      BY <1>2, <1>3 DEF Begun, Saving
    <3>5. \A u \in Saving' : u = v
      BY <1>2, <1>3, <3>2
    <3>6. acked <= main /\ loaded <= main /\ main \in 0..v /\ main \in Begun \cup {0}
      BY <3>1, <3>3 DEF Sequential, FilesBegun, FileTypes
    <3>7. LogOpened(v) => FilesBegun' /\ SaveAtWork'
      BY <1>2, <1>3, <3>4, <3>5, <3>6 DEF LogOpened, FilesBegun, SaveAtWork, FileTypes
    <3>8. LogWritten(v) => FilesBegun' /\ SaveAtWork'
      BY <1>2, <1>3, <3>1, <3>4, <3>5, <3>6
         DEF LogWritten, Sequential, FilesBegun, SaveAtWork, FileTypes
    <3>9. TmpWritten(v) => FilesBegun' /\ SaveAtWork'
      BY <1>2, <1>3, <3>1, <3>4, <3>5, <3>6
         DEF TmpWritten, Sequential, FilesBegun, SaveAtWork, FileTypes
    <3>10. Renamed(v) => FilesBegun' /\ SaveAtWork'
      BY <1>2, <1>3, <3>1, <3>4, <3>5, <3>6
         DEF Renamed, Sequential, FilesBegun, SaveAtWork, FileTypes
    <3>11. Unlinked(v) => FilesBegun' /\ SaveAtWork'
      BY <1>2, <1>3, <3>1, <3>4, <3>5, <3>6
         DEF Unlinked, Sequential, FilesBegun, SaveAtWork, FileTypes, Saving
    <3>12. LogFails(v) => FilesBegun' /\ SaveAtWork'
      BY <1>2, <1>3, <3>1, <3>4, <3>5, <3>6
         DEF LogFails, Sequential, FilesBegun, SaveAtWork, FileTypes, Saving
    <3>13. MainFails(v) => FilesBegun' /\ SaveAtWork'
      BY <1>2, <1>3, <3>1, <3>4, <3>5, <3>6
         DEF MainFails, files, Sequential, FilesBegun, SaveAtWork, FileTypes, Saving
    <3>14. QED
      BY <1>3, <3>2, <3>7, <3>8, <3>9, <3>10, <3>11, <3>12, <3>13 DEF Sequential, SaveStep
  <2>3. QED
    BY <1>2, <1>3, <2>1, <2>2
<1>4. QED
  BY <1>1, <1>3

\* A load that begins.
LEMMA LoadStep ==
    ASSUME FileIInv, Load
    PROVE  FileIInv'
<1> USE DEF Load, files
<1>1. FileTypes'
  BY DEF FileIInv, FileTypes, RecoveryPcs, Begins, Recoveries
<1>2. BegunInTurn'
  BY DEF FileIInv, BegunInTurn, Begun
<1>3. ASSUME ~overlapped' PROVE Sequential'
  <2>1. ~overlapped /\ Saving = {} /\ \A r \in Recoveries : recovery[r].pc = "idle"
    BY <1>3, BeginsAlone DEF FileIInv
  <2>2. Saving' = {} /\ Begun' = Begun
    BY <2>1 DEF Saving, Begun
  <2>3. recovery'["load"].pc = "start" /\ recovery'["scan"].pc = "idle"
    BY <2>1 DEF FileIInv, FileTypes, Recoveries
  <2>4. QED
    BY <2>1, <2>2, <2>3
       DEF FileIInv, Sequential, OneAtWork, NewestLast, FilesBegun, SaveAtWork, RecoveryAtWork, Recoveries
<1>4. QED
  BY <1>1, <1>2, <1>3 DEF FileIInv

\* loadWithWal and recoverRuntimeWAL, each of their steps.
LEMMA RecoverySteps ==
    ASSUME FileIInv, NEW r \in Recoveries, RecoveryStep(r) \/ RecoveryFails(r) \/ MainRead
    PROVE  FileIInv'
<1> DEFINE s == IF MainRead THEN "load" ELSE r
<1> USE FileAssumption DEF Versions, Absent, Torn
<1>1. /\ FileTypes' /\ Begun' = Begun /\ Saving' = Saving /\ overlapped' = overlapped
      /\ s \in Recoveries /\ recovery[s].pc # "idle" /\ acked' = acked /\ save' = save
      /\ \A q \in Recoveries \ {s} : recovery'[q] = recovery[q]
  <2> USE DEF files, FileIInv, FileTypes, Contents, RecoveryPcs, Begun, Saving, FileFault, GivesUp, Goes,
              AfterRecovery, Recoveries, Idle
  <2>1. CASE MainRead
    BY <2>1 DEF MainRead
  <2>2. CASE ~MainRead /\ LogLookedFor(r)
    BY <2>2 DEF LogLookedFor
  <2>3. CASE ~MainRead /\ LogRead(r)
    BY <2>3 DEF LogRead
  <2>4. CASE ~MainRead /\ RecoveryTmpWritten(r)
    BY <2>4 DEF RecoveryTmpWritten
  <2>5. CASE ~MainRead /\ RecoveryRenamed(r)
    BY <2>5, SMTT(60) DEF RecoveryRenamed
  <2>6. CASE ~MainRead /\ LogRemoved(r)
    BY <2>6 DEF LogRemoved
  <2>7. CASE ~MainRead /\ RecoveryFails(r)
    BY <2>7, SMTT(60) DEF RecoveryFails
  <2>8. QED
    BY <2>1, <2>2, <2>3, <2>4, <2>5, <2>6, <2>7 DEF RecoveryStep
<1>2. BegunInTurn'
  BY <1>1 DEF FileIInv, BegunInTurn
<1>3. ASSUME ~overlapped PROVE Sequential'
  <2>1. Sequential /\ FileTypes
    BY <1>3 DEF FileIInv
  <2>2. Saving = {} /\ Saving' = {} /\ \A q \in Recoveries \ {s} : recovery[q].pc = "idle" /\ recovery'[q].pc = "idle"
    BY <1>1, <2>1 DEF Sequential, OneAtWork, Recoveries
  <2>3. OneAtWork' /\ NewestLast' /\ SaveAtWork'
    BY <1>1, <2>2 DEF OneAtWork, NewestLast, SaveAtWork, Recoveries
  <2>4. acked <= main /\ loaded <= main /\ main \in Begun \cup {0}
    BY <2>1 DEF Sequential, FilesBegun
  <2>5. MainRead => FilesBegun' /\ RecoveryAtWork'
    BY <1>1, <2>1, <2>2, <2>4
       DEF MainRead, files, Idle, Sequential, FilesBegun, RecoveryAtWork, FileTypes, Recoveries
  <2>6. ~MainRead /\ LogLookedFor(r) => FilesBegun' /\ RecoveryAtWork'
    BY <1>1, <2>1, <2>2, <2>4
       DEF LogLookedFor, Goes, AfterRecovery, files, Sequential, FilesBegun, RecoveryAtWork, FileTypes
  <2>7. ~MainRead /\ LogRead(r) => FilesBegun' /\ RecoveryAtWork'
    BY <1>1, <2>1, <2>2, <2>4
       DEF LogRead, GivesUp, Goes, AfterRecovery, Sequential, FilesBegun, RecoveryAtWork, FileTypes
  <2>8. ~MainRead /\ RecoveryTmpWritten(r) => FilesBegun' /\ RecoveryAtWork'
    BY <1>1, <2>1, <2>2, <2>4
       DEF RecoveryTmpWritten, Goes, Sequential, FilesBegun, RecoveryAtWork, FileTypes
  <2>9. ~MainRead /\ RecoveryRenamed(r) => FilesBegun' /\ RecoveryAtWork'
    BY <1>1, <2>1, <2>2, <2>4
       DEF RecoveryRenamed, GivesUp, Goes, Sequential, FilesBegun, RecoveryAtWork, FileTypes
  <2>10. ~MainRead /\ LogRemoved(r) => FilesBegun' /\ RecoveryAtWork'
    BY <1>1, <2>1, <2>2, <2>4
       DEF LogRemoved, Goes, AfterRecovery, Sequential, FilesBegun, RecoveryAtWork, FileTypes
  <2>11. ~MainRead /\ RecoveryFails(r) => FilesBegun' /\ RecoveryAtWork'
    BY <1>1, <2>1, <2>2, <2>4
       DEF RecoveryFails, GivesUp, Goes, AfterRecovery, Sequential, FilesBegun, RecoveryAtWork, FileTypes
  <2>12. QED
    BY <2>3, <2>5, <2>6, <2>7, <2>8, <2>9, <2>10, <2>11 DEF Sequential, RecoveryStep
<1>4. QED
  BY <1>1, <1>2, <1>3 DEF FileIInv

\* A crash ends what is at work, and the next store scans.
LEMMA FileCrashStep ==
    ASSUME FileIInv, FileCrash
    PROVE  FileIInv'
<1> USE DEF FileCrash, files, Idle
<1>1. save' \in [Versions -> SavePcs]
  BY DEF FileIInv, FileTypes, SavePcs
<1>2. recovery' \in [Recoveries -> [pc : RecoveryPcs, val : Versions \cup {Absent}]]
  BY DEF Recoveries, RecoveryPcs
<1>3. FileTypes'
  BY <1>1, <1>2 DEF FileIInv, FileTypes
<1>4. Saving' = {} /\ Begun' = Begun
  BY DEF FileIInv, FileTypes, SavePcs, Saving, Begun
<1>5. recovery'["load"].pc = "idle" /\ recovery'["scan"].pc = "start"
  OBVIOUS
<1>6. QED
  BY <1>3, <1>4, <1>5
     DEF FileIInv, BegunInTurn, Sequential, OneAtWork, NewestLast, FilesBegun, SaveAtWork,
         RecoveryAtWork, Recoveries

\* What a step of the store does to the file.
LEMMA FileMoves ==
    ASSUME StoreNext \/ UNCHANGED storeVars
    PROVE  \/ Load \/ FileCrash \/ UNCHANGED fileVars
           \/ \E v \in Versions : Save(v) \/ SaveStep(v) \/ LogFails(v) \/ MainFails(v)
           \/ \E r \in Recoveries : RecoveryStep(r) \/ RecoveryFails(r) \/ MainRead
BY DEF StoreNext, UseFile, UseLog, FileRuns, LogRuns, FileErrs, LogErrs, ScanGoesOn, Crash, FileStep,
       FileAlone, LogAlone, storeVars, Recoveries, fileVars

\* Every step of the store keeps it.
LEMMA FileStepHolds == FileIInv /\ [StoreNext]_storeVars => FileIInv'
<1> SUFFICES ASSUME FileIInv, [StoreNext]_storeVars PROVE FileIInv'
  OBVIOUS
<1>1. CASE UNCHANGED fileVars
  BY <1>1 DEF fileVars, files, FileIInv, FileTypes, BegunInTurn, Begun, Sequential, OneAtWork, Saving,
              NewestLast, FilesBegun, SaveAtWork, RecoveryAtWork
<1>2. QED
  BY <1>1, FileMoves, SaveSteps, LoadStep, RecoverySteps, FileCrashStep

\* No crash, at whatever step, takes an acknowledged version back.
LEMMA AckedSurvivesHolds == FileIInv => AckedSurvives
BY FileAssumption DEF FileIInv, AckedSurvives, Sequential, FilesBegun, FileTypes, Readable, Versions, Absent

\* The file is saved and read one operation after the other: a load never goes back,
\* behind an earlier load or behind a save that had returned.
THEOREM LoadsMoveForward == StoreSpec => ReadsMoveForward
<1>1. ASSUME FileIInv, [StoreNext]_storeVars
      PROVE  loaded' # loaded /\ ~overlapped => loaded' > loaded /\ loaded' >= acked
  <2> SUFFICES ASSUME loaded' # loaded, ~overlapped
               PROVE  loaded' > loaded /\ loaded' >= acked
    OBVIOUS
  <2>1. loaded' = main
    BY <1>1, FileMoves
       DEF Load, Save, FileCrash, fileVars, SaveStep, LogOpened, LogWritten, TmpWritten, Renamed, Unlinked,
           LogFails, MainFails, RecoveryStep, LogLookedFor, LogRead, RecoveryTmpWritten, RecoveryRenamed,
           LogRemoved, RecoveryFails, MainRead
  <2>2. loaded <= main /\ acked <= main /\ loaded \in Int /\ main \in Int
    BY <1>1, FileAssumption DEF FileIInv, Sequential, FilesBegun, FileTypes, Versions, Absent
  <2>3. QED
    BY <2>1, <2>2
<1>2. QED
  BY <1>1, FileInitHolds, FileStepHolds, PTL DEF StoreSpec, ReadsMoveForward, storeVars, fileVars, files

-----------------------------------------------------------------------------
(* The file as a register that a crash cannot split.                        *)

\* The number of versions begun is the last of them.
LEMMA BegunIsLast ==
    ASSUME NEW n \in 0..MaxSaves, Begun = 1..n
    PROVE  Cardinality(Begun) = n
BY FileAssumption, FS_Interval

\* As saves, loads and scans follow one another, the register changes as it may.
LEMMA RegisterStep ==
    ASSUME FileIInv, FileIInv', [StoreNext]_storeVars
    PROVE  [Register!Next]_(Register!registerVars)
<1> USE FileAssumption DEF Versions, Absent, Torn
<1> DEFINE begun == Cardinality(Begun)
<1>1. CASE UNCHANGED fileVars
  BY <1>1 DEF fileVars, files, Register!registerVars, Readable, Begun
<1>2. CASE overlapped'
  BY <1>2 DEF Register!Next, Register!Overlap
<1>3. ASSUME ~overlapped', NEW v \in Versions, Save(v) PROVE Register!Begin
  <2>1. PICK n \in 0..MaxSaves : Begun = 1..n
    BY DEF FileIInv, BegunInTurn
  <2>2. v \notin Begun /\ \A u \in Versions : u < v => u \in Begun
    BY <1>3 DEF Begun, Save
  <2>3. v = n + 1
    BY <2>1, <2>2
  <2>4. Begun' = Begun \cup {v}
    BY <1>3 DEF Begun, Save, FileIInv, FileTypes
  <2>5. Begun' = 1..v
    BY <2>1, <2>3, <2>4
  <2>6. Cardinality(Begun) = n /\ Cardinality(Begun') = n + 1
    BY <2>1, <2>3, <2>5, FS_Interval
  <2>7. overlapped' = overlapped
    BY <1>3, BeginsAlone DEF Save, FileIInv, FileTypes
  <2>8. QED
    BY <1>3, <2>6, <2>7 DEF Register!Begin, Save, files, Readable
<1>4. ASSUME ~overlapped, Load \/ \E r \in Recoveries : RecoveryStep(r) \/ RecoveryFails(r) \/ MainRead
      PROVE  Readable' = Readable \/ (Readable > acked /\ Readable' \in acked..(Readable - 1))
  <2>1. Sequential /\ FileTypes
    BY <1>4 DEF FileIInv
  <2>2. acked \in Int /\ main \in Int /\ acked <= main /\ (wal \in Versions => main <= wal)
    BY <2>1 DEF FileTypes, Sequential, FilesBegun
  <2>3. CASE Load
    BY <2>3 DEF Load, files, Readable
  <2>4. CASE MainRead
    BY <2>4 DEF MainRead, files, Readable
  <2> SUFFICES ASSUME NEW r \in Recoveries, RecoveryStep(r) \/ RecoveryFails(r)
               PROVE  Readable' = Readable \/ (Readable > acked /\ Readable' \in acked..(Readable - 1))
    BY <1>4, <2>3, <2>4
  <2>5. CASE LogLookedFor(r)
    BY <2>5 DEF LogLookedFor, files, Readable
  <2>6. CASE LogRead(r)
    BY <2>6 DEF LogRead, GivesUp, Readable
  <2>7. CASE RecoveryTmpWritten(r)
    BY <2>7 DEF RecoveryTmpWritten, Readable
  <2>8. CASE RecoveryRenamed(r)
    BY <2>1, <2>8 DEF RecoveryRenamed, Readable, Sequential, RecoveryAtWork
  <2>9. CASE LogRemoved(r)
    BY <2>1, <2>9 DEF LogRemoved, Readable, Sequential, RecoveryAtWork
  <2>10. CASE RecoveryFails(r)
    BY <2>2, <2>10 DEF RecoveryFails, GivesUp, Readable
  <2>11. QED
    BY <2>5, <2>6, <2>7, <2>8, <2>9, <2>10 DEF RecoveryStep
<1>5. ASSUME ~overlapped, NEW v \in Versions, SaveStep(v) \/ LogFails(v) \/ MainFails(v)
      PROVE  \/ Readable' = Readable /\ acked' = acked
             \/ Readable > acked /\ Readable' \in acked..(Readable - 1) /\ acked' = acked
             \/ Readable' = Cardinality(Begun) /\ acked' = acked
             \/ Readable = Cardinality(Begun) /\ Readable' = Readable /\ acked' = Cardinality(Begun)
  <2>1. Sequential /\ FileTypes
    BY <1>5 DEF FileIInv
  <2>2. acked \in Int /\ main \in Int /\ acked <= main /\ (wal \in Versions => main <= wal)
    BY <2>1 DEF FileTypes, Sequential, FilesBegun
  <2>3. v \in Saving
    BY <1>5 DEF SaveStep, LogOpened, LogWritten, TmpWritten, Renamed, Unlinked, LogFails, MainFails, Saving
  <2>4. Cardinality(Begun) = v
    <3>1. PICK n \in 0..MaxSaves : Begun = 1..n
      BY DEF FileIInv, BegunInTurn
    <3>2. v \in Begun /\ \A u \in Begun : u <= v
      BY <2>1, <2>3 DEF Sequential, NewestLast, Saving, Begun
    <3>3. n = v
      BY <3>1, <3>2
    <3>4. QED
      BY <3>1, <3>3, BegunIsLast
  <2>5. CASE LogOpened(v)
    BY <2>2, <2>5 DEF LogOpened, Readable
  <2>6. CASE LogWritten(v)
    BY <2>1, <2>3, <2>4, <2>6 DEF LogWritten, Readable, Sequential, SaveAtWork
  <2>7. CASE TmpWritten(v)
    BY <2>7 DEF TmpWritten, Readable
  <2>8. CASE Renamed(v)
    BY <2>1, <2>3, <2>8 DEF Renamed, Readable, Sequential, SaveAtWork
  <2>9. CASE Unlinked(v)
    <3>1. wal = v /\ main = v /\ acked <= v
      BY <2>1, <2>2, <2>3, <2>9 DEF Unlinked, Sequential, SaveAtWork
    <3>2. Readable = v /\ Readable' = v /\ acked' = v
      BY <2>2, <2>9, <3>1 DEF Unlinked, Readable
    <3>3. QED
      BY <2>4, <3>2
  <2>10. CASE LogFails(v)
    BY <2>1, <2>3, <2>10 DEF LogFails, Readable, Sequential, SaveAtWork
  <2>11. CASE MainFails(v)
    BY <2>11 DEF MainFails, files, Readable
  <2>12. QED
    BY <1>5, <2>5, <2>6, <2>7, <2>8, <2>9, <2>10, <2>11 DEF SaveStep
<1>6. CASE FileCrash
  <2>1. Begun' = Begun
    BY <1>6 DEF FileCrash, FileIInv, FileTypes, SavePcs, Saving, Begun
  <2>2. QED
    BY <1>6, <2>1 DEF FileCrash, files, Register!registerVars, Readable
<1>7. CASE ~overlapped' /\ \E v \in Versions : Save(v)
  BY <1>3, <1>7 DEF Register!Next
<1>8. CASE ~overlapped' /\ (Load \/ \E r \in Recoveries : RecoveryStep(r) \/ RecoveryFails(r) \/ MainRead)
  <2>1. acked' = acked /\ Begun' = Begun /\ overlapped' = overlapped
    BY <1>8, BeginsAlone
       DEF FileIInv, Load, MainRead, RecoveryStep, LogLookedFor, LogRead, RecoveryTmpWritten, RecoveryRenamed,
           LogRemoved, RecoveryFails, Begun, FileTypes
  <2>2. QED
    BY <1>4, <1>8, <2>1 DEF Register!registerVars, Register!Next, Register!GiveUp
<1>9. CASE ~overlapped' /\ \E v \in Versions : SaveStep(v) \/ LogFails(v) \/ MainFails(v)
  <2>1. PICK v \in Versions : SaveStep(v) \/ LogFails(v) \/ MainFails(v)
    BY <1>9
  <2>2. Begun' = Begun /\ overlapped' = overlapped
    BY <2>1 DEF FileIInv, FileTypes, SaveStep, LogOpened, LogWritten, TmpWritten, Renamed, Unlinked, LogFails,
                MainFails, Begun
  <2>3. QED
    BY <1>5, <1>9, <2>1, <2>2
       DEF Register!registerVars, Register!Next, Register!GiveUp, Register!Commit, Register!Acknowledge
<1>10. QED
  BY <1>1, <1>2, <1>6, <1>7, <1>8, <1>9, FileMoves

\* Saves one after the other implement the register: each is all there or not at all,
\* whatever step a crash cuts short, and once it has returned it stays.
THEOREM FileImplementsRegister == StoreSpec => ImplementsRegister
<1>1. StoreInit => Register!Init
  <2> SUFFICES ASSUME StoreInit PROVE Register!Init
    OBVIOUS
  <2>1. Begun = {} /\ Readable = 0
    BY DEF StoreInit, FileInit, Begun, Readable, Absent, Versions
  <2>2. QED
    BY <2>1, FS_EmptySet DEF StoreInit, FileInit, Register!Init
<1>2. FileIInv /\ FileIInv' /\ [StoreNext]_storeVars => [Register!Next]_(Register!registerVars)
  BY RegisterStep
<1>3. QED
  BY <1>1, <1>2, FileInitHolds, FileStepHolds, PTL DEF StoreSpec, ImplementsRegister, Register!Spec

-----------------------------------------------------------------------------
(* Saves at a time and their one temporary file.                            *)

HasTaken(u) == save[u] \in {"unlink", "saved"}
Taken(v) == \E u \in Versions \ {v} : HasTaken(u)
TakenTwice(v) == \E u, w \in Versions \ {v} : u # w /\ HasTaken(u) /\ HasTaken(w)

\* Whoever finds the temporary file gone, another save has taken it; the second time,
\* a second one.
TakenByOthers ==
    \A v \in Versions :
        /\ save[v] \in {"tmpAgain", "renameAgain"} \/ (save[v] = "rename" /\ tmp = Absent) => Taken(v)
        /\ save[v] = "failed" \/ (save[v] = "renameAgain" /\ tmp = Absent) => TakenTwice(v)

\* A load that took it has found the file, and will have loaded it.
TakenByLoad == main # Absent /\ (loaded # 0 \/ recovery["load"].pc \in {"unlink", "main"})

TakenIInv ==
    /\ FileTypes /\ storeCrashes \in Nat
    /\ storeCrashes = 0 /\ fileFaults = 0
           => /\ recovery["scan"].pc = "idle"
              /\ recovery["load"].pc = "tmp" => recovery["load"].val # Absent
              /\ TakenByLoad \/ TakenByOthers

\* At first nothing has been taken and nothing rejected.
LEMMA TakenInitHolds == StoreInit => TakenIInv
<1> SUFFICES ASSUME StoreInit PROVE TakenIInv
  OBVIOUS
<1>1. FileTypes
  BY FileInitHolds DEF FileIInv
<1>2. /\ storeCrashes = 0 /\ \A v \in Versions : save[v] = "new"
      /\ recovery["scan"].pc = "idle" /\ recovery["load"].pc = "idle"
  BY DEF StoreInit, FileInit, Idle
<1>3. QED
  BY <1>1, <1>2 DEF TakenIInv, TakenByOthers

\* A save that has taken the file stays so without crashes: what is justified by it
\* goes on to be, while the file is there or nothing changes it.
LEMMA SaveTakes ==
    ASSUME TakenIInv, FileTypes', NEW v \in Versions, Save(v) \/ SaveStep(v),
           TakenByOthers
    PROVE  TakenByOthers'
<1>1. \A u \in Versions \ {v} : save'[u] = save[u]
  BY DEF TakenIInv, FileTypes, Save, SaveStep, LogOpened, LogWritten, TmpWritten, Renamed, Unlinked
<1>2. HasTaken(v) => HasTaken(v)'
  BY DEF TakenIInv, FileTypes, Save, SaveStep, LogOpened, LogWritten, TmpWritten, Renamed, Unlinked,
         HasTaken
<1>3. \A u \in Versions : (Taken(u) => Taken(u)') /\ (TakenTwice(u) => TakenTwice(u)')
  BY <1>1, <1>2 DEF Taken, TakenTwice, HasTaken
<1>4. CASE tmp' = tmp /\ save'[v] \in {"queued", "log", "logAgain", "tmp", "saved"}
  BY <1>1, <1>3, <1>4 DEF TakenByOthers
<1>5. CASE Save(v) \/ LogOpened(v) \/ LogWritten(v) \/ Unlinked(v)
  <2>1. tmp' = tmp /\ save'[v] \in {"queued", "log", "logAgain", "tmp", "saved"}
    BY <1>5 DEF TakenIInv, FileTypes, Save, files, LogOpened, LogWritten, Unlinked
  <2>2. QED
    BY <1>4, <2>1
<1>6. CASE TmpWritten(v)
  <2>1. tmp' # Absent
    BY <1>6, FileAssumption DEF TmpWritten, Versions, Absent
  <2>2. save'[v] = "rename" \/ (save'[v] = "renameAgain" /\ Taken(v))
    BY <1>6 DEF TmpWritten, TakenByOthers, TakenIInv, FileTypes
  <2>3. QED
    BY <1>1, <1>3, <2>1, <2>2 DEF TakenByOthers
<1>7. CASE Renamed(v) /\ tmp # Absent
  <2>1. HasTaken(v)' /\ ~HasTaken(v) /\ save'[v] = "unlink"
    BY <1>7 DEF Renamed, TakenIInv, FileTypes, HasTaken
  <2>2. \A u \in Versions \ {v} : Taken(u)' /\ (Taken(u) => TakenTwice(u)')
    BY <1>1, <2>1 DEF Taken, TakenTwice, HasTaken
  <2>3. QED
    BY <1>1, <1>3, <2>1, <2>2 DEF TakenByOthers
<1>8. CASE Renamed(v) /\ tmp = Absent
  <2>1. tmp' = tmp /\ \/ save[v] = "rename" /\ save'[v] = "tmpAgain"
                      \/ save[v] = "renameAgain" /\ save'[v] = "failed"
    BY <1>8 DEF Renamed, TakenIInv, FileTypes
  <2>2. QED
    BY <1>1, <1>3, <1>8, <2>1 DEF TakenByOthers
<1>9. QED
  BY <1>5, <1>6, <1>7, <1>8 DEF SaveStep

\* A temporary file is taken by a load, or by saves that were there with this one.
LEMMA TakenStepHolds == FileIInv /\ FileIInv' /\ TakenIInv /\ [StoreNext]_storeVars => TakenIInv'
<1> SUFFICES ASSUME FileIInv, FileIInv', TakenIInv, [StoreNext]_storeVars PROVE TakenIInv'
  OBVIOUS
<1>1. FileTypes /\ FileTypes'
  BY DEF FileIInv
<1>2. storeCrashes \in Nat /\ storeCrashes' \in Nat /\ (storeCrashes' = 0 => storeCrashes = 0 /\ ~Crash)
  BY DEF TakenIInv, StoreNext, UseFile, UseLog, FileRuns, LogRuns, FileErrs, LogErrs, ScanGoesOn, Crash,
         FileAlone, LogAlone, storeVars
<1>3. SUFFICES ASSUME storeCrashes = 0, storeCrashes' = 0, fileFaults' = 0
               PROVE  /\ recovery'["scan"].pc = "idle"
                      /\ recovery'["load"].pc = "tmp" => recovery'["load"].val # Absent
                      /\ TakenByLoad' \/ TakenByOthers'
  BY <1>1, <1>2 DEF TakenIInv
<1> DEFINE FaultFree == \/ Load \/ UNCHANGED fileVars
                        \/ \E v \in Versions : Save(v) \/ SaveStep(v)
                        \/ RecoveryStep("load") \/ RecoveryStep("scan") \/ MainRead
<1>4. fileFaults = 0 /\ FaultFree
  <2>1. \/ FaultFree
        \/ \E v \in Versions : LogFails(v) \/ MainFails(v)
        \/ \E r \in Recoveries : RecoveryFails(r)
    BY <1>2, <1>3
       DEF StoreNext, UseFile, UseLog, FileRuns, LogRuns, FileErrs, LogErrs, ScanGoesOn, FileStep,
           FileAlone, LogAlone, storeVars, fileVars, Recoveries
  <2>2. (\E v \in Versions : LogFails(v) \/ MainFails(v)) \/ (\E r \in Recoveries : RecoveryFails(r))
            => fileFaults' = fileFaults + 1
    BY DEF LogFails, MainFails, RecoveryFails, FileFault
  <2>3. fileFaults \in Nat /\ (FaultFree => fileFaults' = fileFaults \/ fileFaults' = fileFaults + 1)
    BY <1>1
       DEF FileTypes, fileVars, Load, Save, SaveStep, LogOpened, LogWritten, TmpWritten, Renamed, Unlinked,
           FileFault, RecoveryStep, LogLookedFor, LogRead, RecoveryTmpWritten, RecoveryRenamed, LogRemoved,
           MainRead
  <2>4. QED
    BY <1>3, <2>1, <2>2, <2>3
<1>5. /\ recovery["scan"].pc = "idle"
      /\ recovery["load"].pc = "tmp" => recovery["load"].val # Absent
      /\ TakenByLoad \/ TakenByOthers
  BY <1>3, <1>4 DEF TakenIInv
<1> HIDE DEF FaultFree
<1> DEFINE LoadMoves == Load \/ RecoveryStep("load") \/ MainRead
<1>6. ~RecoveryStep("scan")
  BY <1>5 DEF RecoveryStep, LogLookedFor, LogRead, RecoveryTmpWritten, RecoveryRenamed, LogRemoved
<1>7. CASE UNCHANGED fileVars
  BY <1>5, <1>7 DEF fileVars, files, TakenByLoad, TakenByOthers, Taken, TakenTwice, HasTaken
<1>8. CASE \E v \in Versions : Save(v) \/ SaveStep(v)
  <2>1. PICK v \in Versions : Save(v) \/ SaveStep(v)
    BY <1>8
  <2>2. recovery' = recovery /\ loaded' = loaded /\ (main # Absent => main' # Absent)
    BY <2>1 DEF Save, files, SaveStep, LogOpened, LogWritten, TmpWritten, Renamed, Unlinked
  <2>3. QED
    BY <1>1, <1>5, <2>1, <2>2, SaveTakes DEF TakenByLoad
<1>9. CASE LoadMoves
  <2> USE <1>1 DEF FileTypes, Recoveries, RecoveryPcs, RecoveryStep, Idle
  <2>1. save' = save /\ recovery'["scan"] = recovery["scan"]
    BY <1>9 DEF Load, files, LogLookedFor, LogRead, RecoveryTmpWritten, RecoveryRenamed, LogRemoved,
                MainRead, Goes, GivesUp
  <2>2. \/ tmp' = tmp \/ tmp' # Absent
        \/ main' # Absent /\ recovery'["load"].pc = "unlink"
    BY <1>5, <1>9 DEF Load, files, LogLookedFor, LogRead, RecoveryTmpWritten, RecoveryRenamed, LogRemoved,
                MainRead, Goes, GivesUp
  <2>3. recovery'["load"].pc = "tmp" => recovery'["load"].val # Absent
    BY <1>5, <1>9, FileAssumption
       DEF Load, LogLookedFor, LogRead, RecoveryTmpWritten, RecoveryRenamed, LogRemoved,
           MainRead, Goes, GivesUp, AfterRecovery, Absent, Versions
  <2>4. TakenByLoad => TakenByLoad'
    BY <1>9 DEF TakenByLoad, Load, files, LogLookedFor, LogRead, RecoveryTmpWritten, RecoveryRenamed,
                LogRemoved, MainRead, Goes, GivesUp, AfterRecovery, Absent
  <2>5. QED
    BY <1>5, <2>1, <2>2, <2>3, <2>4 DEF TakenByLoad, TakenByOthers, Taken, TakenTwice, HasTaken
<1>10. QED
  BY <1>4, <1>6, <1>7, <1>8, <1>9 DEF FaultFree

\* Saves hold: no crash takes an acknowledged version back, and a save is rejected,
\* without failures, only by two others.
THEOREM SavesAlwaysHold == StoreSpec => []SavesHold
<1>1. FileIInv /\ TakenIInv => SavesHold
  <2> SUFFICES ASSUME FileIInv, TakenIInv PROVE NoSaveRejected
    BY AckedSurvivesHolds DEF SavesHold
  <2> SUFFICES ASSUME fileFaults = 0, storeCrashes = 0, loaded = 0, recovery["load"] = Idle,
                      NEW v \in Versions, save[v] = "failed"
               PROVE  TakenTwice(v)
    BY DEF NoSaveRejected, TakenTwice, HasTaken
  <2>1. TakenByOthers
    BY DEF TakenIInv, TakenByLoad, Idle
  <2>2. QED
    BY <2>1 DEF TakenByOthers
<1>2. QED
  BY <1>1, FileInitHolds, FileStepHolds, TakenInitHolds, TakenStepHolds, PTL DEF StoreSpec

-----------------------------------------------------------------------------
(* The log of the events.                                                   *)

LogTypes ==
    /\ disk \in Seq(Appends) /\ ahead \in Seq(Appends)
    /\ writing = NotWriting \/ (writing \in Seq(Appends) /\ walChain # <<>>)
    /\ buffer \in Seq(Appends) /\ flushing \in Seq(Appends) /\ timer \in BOOLEAN
    /\ walChain \in Seq(Appends \cup Flushes)
    /\ append \in [Appends -> {"new", "recover", "push", "wal", "acked", "lost"}]
    /\ flusher \in [Flushes -> [pc : {"idle", "recover", "start", "append", "wal"}, payload : Seq(Appends)]]
    /\ recovered \in BOOLEAN /\ raced \in BOOLEAN
    /\ recoverer \in [by : Appends \cup Flushes \cup {0}, pc : {"idle", "read", "append", "unlink"},
                      lines : Seq(Appends)]
    /\ givenUp \subseteq Appends

\* What the BufferedWriter has in memory, what the file and the history have of
\* the rest, and what is still to come.
Kept == Members(flushing) \cup Members(buffer)
Settled == Members(disk) \cup givenUp
Later == {e \in Appends : append[e] \in {"new", "recover", "push"}}

\* Until a process has recovered the channel it has nothing of it in memory.
Quiet ==
    /\ buffer = <<>> /\ flushing = <<>> /\ walChain = <<>> /\ writing = NotWriting /\ ~timer
    /\ \A f \in Flushes : flusher[f].pc \notin {"append", "wal"}

QuietUntilRecovered ==
    /\ ~recovered => /\ recoverer = Nobody
                     /\ \A e \in Appends : append[e] \notin {"recover", "push", "wal"}
                     /\ \A f \in Flushes : flusher[f].pc = "idle"
    /\ ~recovered \/ recoverer # Nobody => Quiet

\* The recovery at work, and the append that waits for it.
RecovererAtWork ==
    /\ recoverer.pc = "idle" => recoverer = Nobody
    /\ recoverer.pc = "append" => recoverer.lines = ahead
    /\ recoverer.pc = "unlink" => Members(ahead) \subseteq Members(disk)
    /\ \A e \in Appends : append[e] = "recover" => recoverer.by = e
    /\ recoverer.by \in Appends => append[recoverer.by] = "recover"

\* Nothing acknowledged is only on its way: it is in the file or the log; and what
\* the log has, or is to acknowledge, is in the file or in memory.
NothingLost ==
    /\ Acked \subseteq Settled \cup Members(ahead)
    /\ recovered /\ recoverer = Nobody => Acked \cup Members(ahead) \subseteq Settled \cup Kept
    /\ Members(walChain) \cap Appends \subseteq Members(disk) \cup Kept

\* The rewriting in progress has everything that is acknowledged or will be with it.
RewritesAll ==
    writing # NotWriting =>
        /\ Acked \subseteq Settled \cup Members(writing)
        /\ Head(walChain) \in Appends => Head(walChain) \in Members(disk) \cup Members(writing)
        /\ Members(writing) \subseteq Members(disk) \cup Kept

\* One flush at a time appends to the file, what is being flushed.
OneFlush ==
    \A f \in Flushes :
        flusher[f].pc = "append" => /\ flusher[f].payload = flushing
                                    /\ \A g \in Flushes : flusher[g].pc = "append" => g = f

Increasing(q) == \A i, j \in 1..Len(q) : i < j => q[i] < q[j]
Before(A, B) == \A a \in A, b \in B : a < b

\* Memory and log are in order, and behind what the file has.
InOrder ==
    /\ Increasing(ahead) /\ Increasing(flushing) /\ Increasing(buffer)
    /\ writing # NotWriting => Increasing(writing)
    /\ Before(Members(flushing), Members(buffer))
    /\ Before(Members(disk), Kept)
    /\ Before(Members(disk), Members(ahead) \ Settled)

\* What is to come has a higher number than all that has come.
LaterIsLater ==
    /\ Before(Members(disk) \cup Members(ahead) \cup Kept, Later)
    /\ \A d, e \in Appends : d < e /\ append[e] # "new" => append[d] # "new"

\* The file has the events in the order of their appends, but for those given up.
InTurn(q, gone) ==
    \A i, j \in 1..Len(q) :
        i < j /\ q[j] < q[i] /\ q[j] \notin gone => \E k \in 1..(i - 1) : q[k] = q[j]

NoRace == /\ QuietUntilRecovered /\ RecovererAtWork /\ NothingLost /\ RewritesAll /\ OneFlush
          /\ InOrder /\ LaterIsLater /\ InTurn(disk, givenUp)

LogIInv == LogTypes /\ (~raced => NoRace)

\* Sequences of events: what they have, and in which order.
LEMMA MembersOfConcat ==
    ASSUME NEW S, NEW p \in Seq(S), NEW q \in Seq(S)
    PROVE  p \o q \in Seq(S) /\ Members(p \o q) = Members(p) \cup Members(q)
<1>1. Len(p \o q) = Len(p) + Len(q) /\ Len(p) \in Nat /\ Len(q) \in Nat
  OBVIOUS
<1>2. \A i \in 1..Len(p) : (p \o q)[i] = p[i]
  OBVIOUS
<1>3. \A i \in 1..Len(q) : (p \o q)[Len(p) + i] = q[i]
  OBVIOUS
<1>4. \A i \in 1..Len(p \o q) : i \in 1..Len(p) \/ \E k \in 1..Len(q) : i = Len(p) + k
  <2> SUFFICES ASSUME NEW i \in 1..Len(p \o q), i \notin 1..Len(p)
               PROVE  \E k \in 1..Len(q) : i = Len(p) + k
    OBVIOUS
  <2>1. i - Len(p) \in 1..Len(q) /\ i = Len(p) + (i - Len(p))
    BY <1>1
  <2>2. QED
    BY <2>1
<1>5. Members(p \o q) \subseteq Members(p) \cup Members(q)
  BY <1>2, <1>3, <1>4 DEF Members
<1>6. Members(p) \subseteq Members(p \o q)
  BY <1>1, <1>2 DEF Members
<1>7. Members(q) \subseteq Members(p \o q)
  <2> SUFFICES ASSUME NEW k \in 1..Len(q) PROVE q[k] \in Members(p \o q)
    BY DEF Members
  <2>1. Len(p) + k \in 1..Len(p \o q) /\ (p \o q)[Len(p) + k] = q[k]
    BY <1>1, <1>3
  <2>2. QED
    BY <2>1 DEF Members
<1>8. QED
  BY <1>5, <1>6, <1>7

\* The elements of a sequence grow by what is appended.
LEMMA MembersOfAppend ==
    ASSUME NEW S, NEW p \in Seq(S), NEW e \in S
    PROVE  /\ Append(p, e) \in Seq(S) /\ Members(Append(p, e)) = Members(p) \cup {e}
           /\ Append(p, e) # <<>>
<1>1. Append(p, e) = p \o <<e>> /\ <<e>> \in Seq(S) /\ Members(<<e>>) = {e}
  BY DEF Members
<1>2. p \o <<e>> \in Seq(S) /\ Members(p \o <<e>>) = Members(p) \cup Members(<<e>>)
  BY <1>1, MembersOfConcat, Zenon
<1>3. Append(p, e) # <<>>
  <2>1. Len(Append(p, e)) # 0 /\ Len(<<>>) = 0
    OBVIOUS
  <2>2. QED
    BY <2>1
<1>4. QED
  BY <1>1, <1>2, <1>3, Zenon

\* The elements of a queue that its head leaves.
LEMMA MembersOfTail ==
    ASSUME NEW S, NEW q \in Seq(S), q # <<>>
    PROVE  Tail(q) \in Seq(S) /\ Head(q) \in Members(q) /\ Members(Tail(q)) \subseteq Members(q)
           /\ Head(q) \in S
BY DEF Members

\* A sequence over S has its elements in S.
LEMMA MembersInSet ==
    ASSUME NEW S, NEW q \in Seq(S)
    PROVE  Members(q) \subseteq S
BY DEF Members

\* The empty sequence.
LEMMA NoMembers == Members(<<>>) = {} /\ Increasing(<<>>) /\ \A S : <<>> \in Seq(S)
BY DEF Members, Increasing

\* Two files in order, the one before the other, are one file in order.
LEMMA IncreasingConcat ==
    ASSUME NEW p \in Seq(Appends), NEW q \in Seq(Appends), Increasing(p), Increasing(q),
           Before(Members(p), Members(q))
    PROVE  Increasing(p \o q)
<1> SUFFICES ASSUME NEW i \in 1..Len(p \o q), NEW j \in 1..Len(p \o q), i < j
             PROVE  (p \o q)[i] < (p \o q)[j]
  BY DEF Increasing
<1>1. CASE j \in 1..Len(p)
  BY <1>1 DEF Increasing
<1>2. CASE i \in 1..Len(p) /\ j \notin 1..Len(p)
  <2>1. (p \o q)[i] = p[i] /\ (p \o q)[j] = q[j - Len(p)] /\ j - Len(p) \in 1..Len(q)
    BY <1>2
  <2>2. p[i] \in Members(p) /\ q[j - Len(p)] \in Members(q)
    BY <1>2, <2>1 DEF Members
  <2>3. QED
    BY <2>1, <2>2 DEF Before
<1>3. CASE i \notin 1..Len(p)
  <2>1. (p \o q)[i] = q[i - Len(p)] /\ (p \o q)[j] = q[j - Len(p)]
    BY <1>3
  <2>2. i - Len(p) \in 1..Len(q) /\ j - Len(p) \in 1..Len(q) /\ i - Len(p) < j - Len(p)
    BY <1>3
  <2>3. QED
    BY <2>1, <2>2 DEF Increasing
<1>4. QED
  BY <1>1, <1>2, <1>3

\* So for one event more.
LEMMA IncreasingAppend ==
    ASSUME NEW p \in Seq(Appends), NEW e \in Appends, Increasing(p), Before(Members(p), {e})
    PROVE  Increasing(Append(p, e))
<1>1. Append(p, e) = p \o <<e>> /\ <<e>> \in Seq(Appends) /\ Increasing(<<e>>) /\ Members(<<e>>) = {e}
  BY DEF Members, Increasing
<1>2. QED
  BY <1>1, IncreasingConcat

\* The first lines of a log.
LEMMA FirstOf ==
    ASSUME NEW q \in Seq(Appends), NEW n \in 0..(Len(q) - 1)
    PROVE  /\ SubSeq(q, 1, n) \in Seq(Appends) /\ Members(SubSeq(q, 1, n)) \subseteq Members(q)
           /\ Increasing(q) => Increasing(SubSeq(q, 1, n))
<1>1. Len(SubSeq(q, 1, n)) = n /\ \A i \in 1..n : SubSeq(q, 1, n)[i] = q[i]
  OBVIOUS
<1>2. \A i \in 1..n : i \in 1..Len(q)
  OBVIOUS
<1>3. \A i \in 1..n : q[i] \in Appends
  BY <1>2
<1>4. SubSeq(q, 1, n) \in Seq(Appends)
  BY <1>1, <1>3
<1>5. Members(SubSeq(q, 1, n)) \subseteq Members(q)
  BY <1>1, <1>2 DEF Members
<1>6. Increasing(q) => Increasing(SubSeq(q, 1, n))
  BY <1>1, <1>2 DEF Increasing
<1>7. QED
  BY <1>4, <1>5, <1>6

\* A file in order stays so with lines in order behind it: each of them is there
\* already, or given up, or has a higher number than all that is.
LEMMA InTurnConcat ==
    ASSUME NEW p \in Seq(Appends), NEW q \in Seq(Appends), NEW gone, InTurn(p, gone), Increasing(q),
           Before(Members(p), Members(q) \ (Members(p) \cup gone))
    PROVE  InTurn(p \o q, gone)
<1> DEFINE r == p \o q
<1> SUFFICES ASSUME NEW i \in 1..Len(r), NEW j \in 1..Len(r), i < j, r[j] < r[i], r[j] \notin gone
             PROVE  \E k \in 1..(i - 1) : r[k] = r[j]
  BY DEF InTurn
<1>0. r[i] \in Int /\ r[j] \in Int /\ ~(r[i] < r[j]) /\ r[i] # r[j]
  <2>1. r \in Seq(Appends) /\ Appends \subseteq Int
    BY DEF Appends
  <2>2. r[i] \in Appends /\ r[j] \in Appends
    BY MembersOfConcat, MembersInSet DEF Members
  <2>3. r[i] \in Int /\ r[j] \in Int
    BY <2>1, <2>2, Zenon
  <2> HIDE DEF r
  <2>4. QED
    BY <2>3
<1>1. \A k \in 1..Len(p) : r[k] = p[k]
  OBVIOUS
<1>2. CASE j \in 1..Len(p)
  <2>1. i \in 1..Len(p)
    BY <1>2
  <2>2. PICK k \in 1..(i - 1) : p[k] = p[j]
    BY <1>1, <1>2, <2>1 DEF InTurn
  <2>3. k \in 1..Len(p)
    BY <2>1
  <2>4. QED
    BY <1>1, <1>2, <2>2, <2>3
<1>3. CASE i \in 1..Len(p) /\ j \notin 1..Len(p)
  <2>1. r[j] = q[j - Len(p)] /\ j - Len(p) \in 1..Len(q)
    BY <1>3
  <2>2. r[j] \in Members(q) /\ r[i] \in Members(p) /\ r[i] \in Appends /\ r[j] \in Appends
    BY <1>1, <1>3, <2>1 DEF Members
  <2>3. r[j] \in Members(p)
    BY <1>0, <2>2, Zenon DEF Before
  <2>4. PICK k \in 1..Len(p) : p[k] = r[j]
    BY <2>3 DEF Members
  <2>5. CASE k < i
    BY <1>1, <1>3, <2>4, <2>5
  <2>6. CASE i < k
    <3>1. p[k] < p[i] /\ p[k] \notin gone
      BY <1>1, <1>3, <2>4
    <3>2. PICK l \in 1..(i - 1) : p[l] = p[k]
      BY <1>3, <2>4, <2>6, <3>1 DEF InTurn
    <3>3. l \in 1..Len(p)
      BY <1>3
    <3>4. QED
      BY <1>1, <2>4, <3>2, <3>3
  <2>7. CASE k = i
    BY <1>0, <2>4, <1>1, <1>3, <2>7, Zenon
  <2>8. QED
    BY <1>3, <2>5, <2>6, <2>7
<1>4. CASE i \notin 1..Len(p)
  <2>1. r[i] = q[i - Len(p)] /\ r[j] = q[j - Len(p)]
    BY <1>4
  <2>2. i - Len(p) \in 1..Len(q) /\ j - Len(p) \in 1..Len(q) /\ i - Len(p) < j - Len(p)
    BY <1>4
  <2>3. r[i] < r[j] /\ r[i] \in Appends /\ r[j] \in Appends
    BY <2>1, <2>2 DEF Increasing
  <2>4. QED
    BY <1>0, <2>3, Zenon
<1>5. QED
  BY <1>2, <1>3, <1>4

\* The empty log.
LEMMA LogInitHolds == StoreInit => LogIInv
<1> SUFFICES ASSUME StoreInit PROVE LogIInv
  OBVIOUS
<1> USE DEF StoreInit, LogInit, Nobody, NoFlush
<1>1. append \in [Appends -> {"new", "recover", "push", "wal", "acked", "lost"}]
  OBVIOUS
<1>2. <<>> \in Seq(Appends) /\ <<>> \in Seq(Appends \cup Flushes)
  OBVIOUS
<1>3. flusher \in [Flushes -> [pc : {"idle", "recover", "start", "append", "wal"}, payload : Seq(Appends)]]
  BY <1>2
<1>4. recoverer \in [by : Appends \cup Flushes \cup {0}, pc : {"idle", "read", "append", "unlink"},
                     lines : Seq(Appends)]
  BY <1>2
<1>5. LogTypes
  BY <1>1, <1>2, <1>3, <1>4 DEF LogTypes
<1>6. Acked = {} /\ Kept = {} /\ Settled = {} /\ Members(ahead) = {} /\ Members(walChain) = {}
  BY NoMembers DEF Acked, Kept, Settled
<1>7. QuietUntilRecovered /\ RecovererAtWork
  BY LogAssumption DEF QuietUntilRecovered, Quiet, RecovererAtWork, Appends
<1>8. NothingLost /\ RewritesAll /\ OneFlush
  BY <1>6 DEF NothingLost, RewritesAll, OneFlush
<1>9. InOrder
  BY <1>6, NoMembers DEF InOrder, Before
<1>10. LaterIsLater /\ InTurn(disk, givenUp)
  BY <1>6, NoMembers DEF LaterIsLater, Before, InTurn
<1>11. QED
  BY <1>5, <1>7, <1>8, <1>9, <1>10 DEF LogIInv, NoRace

\* Every step of the log, and the crash, keeps the types.
LogMoves ==
    \/ \E e \in Appends : AppendEvent(e) \/ Push(e)
    \/ \E f \in Flushes : ReadFlush(f) \/ TimedFlush(f) \/ RecoveredFlush(f) \/ Flushed(f) \/ FlushFails(f)
    \/ RecoverRead \/ RecoverAppended \/ RecoverDone \/ RecoverLogFails \/ ScanChannel
    \/ Rewrite \/ Rewritten \/ LogCrash

PcTypes == {"new", "recover", "push", "wal", "acked", "lost"}
FlushTypes == [pc : {"idle", "recover", "start", "append", "wal"}, payload : Seq(Appends)]
RecovererTypes == [by : Appends \cup Flushes \cup {0}, pc : {"idle", "read", "append", "unlink"},
                   lines : Seq(Appends)]

\* The records that a flush passes through.
LEMMA FlushRecords ==
    /\ NoFlush \in FlushTypes
    /\ \A r \in FlushTypes, c \in {"idle", "recover", "start", "append", "wal"} : [r EXCEPT !.pc = c] \in FlushTypes
    /\ \A q \in Seq(Appends) : [pc |-> "append", payload |-> q] \in FlushTypes
    /\ [pc |-> "wal", payload |-> <<>>] \in FlushTypes
<1>1. <<>> \in Seq(Appends)
  OBVIOUS
<1>2. QED
  BY <1>1 DEF FlushTypes, NoFlush

\* Types over the start of a flush.
LEMMA FlushKeepsTypes ==
    ASSUME LogTypes, NEW f \in Flushes, Flush(f)
    PROVE  LogTypes'
<1> USE DEF LogTypes, Flush
<1>0. walChain \in Seq(Appends \cup Flushes) /\ f \in Appends \cup Flushes
  OBVIOUS
<1>1. flushing' \in Seq(Appends) /\ buffer' \in Seq(Appends)
  OBVIOUS
<1>2. flusher' \in [Flushes -> FlushTypes] /\ walChain' \in Seq(Appends \cup Flushes)
  <2>0. flusher \in [Flushes -> FlushTypes] /\ walChain \in Seq(Appends \cup Flushes) /\ f \in Appends \cup Flushes
    BY DEF FlushTypes
  <2>1. CASE flushing' # <<>>
    <3>1. flusher' = [flusher EXCEPT ![f] = [pc |-> "append", payload |-> flushing']] /\ walChain' = walChain
      BY <2>1
    <3>2. [pc |-> "append", payload |-> flushing'] \in FlushTypes
      BY <1>1, FlushRecords
    <3>3. QED
      BY <2>0, <3>1, <3>2
  <2>2. CASE flushing' = <<>>
    <3>1. flusher' = [flusher EXCEPT ![f] = [flusher[f] EXCEPT !.pc = "wal"]] /\ walChain' = Append(walChain, f)
      BY <2>2
    <3>2. [flusher[f] EXCEPT !.pc = "wal"] \in FlushTypes
      BY <2>0, FlushRecords
    <3>3. QED
      BY <2>0, <3>1, <3>2
  <2>3. QED
    BY <2>1, <2>2
<1>3. raced' \in BOOLEAN
  BY DEF Races
<1>4. writing' = NotWriting \/ (writing' \in Seq(Appends) /\ walChain' # <<>>)
  <2> HIDE DEF LogTypes, Flush
  <2>1. Append(walChain, f) # <<>>
    BY <1>0, MembersOfAppend
  <2>2. QED
    BY <2>1 DEF LogTypes, Flush
<1>5. QED
  BY <1>1, <1>2, <1>3, <1>4 DEF FlushTypes

\* Types over the start of a recovery.
LEMMA RecoverKeepsTypes ==
    ASSUME LogTypes, NEW b \in Appends \cup Flushes \cup {0}, Recover(b)
    PROVE  recovered' \in BOOLEAN /\ recoverer' \in RecovererTypes
BY DEF LogTypes, Recover, RecovererTypes

\* Types over the end of a recovery, which lets the one who waited go on.
LEMMA OverKeepsTypes ==
    ASSUME LogTypes, RecoveryOver
    PROVE  append' \in [Appends -> PcTypes] /\ flusher' \in [Flushes -> FlushTypes] /\ recoverer' \in RecovererTypes
<1> USE DEF LogTypes, RecoveryOver
<1>1. append' \in [Appends -> PcTypes]
  BY DEF PcTypes
<1>2. flusher' \in [Flushes -> FlushTypes]
  <2>1. [NoFlush EXCEPT !.pc = "start"] \in FlushTypes
    BY FlushRecords
  <2>2. QED
    BY <2>1 DEF FlushTypes
<1>3. recoverer' \in RecovererTypes
  BY DEF RecovererTypes, Nobody
<1>4. QED
  BY <1>1, <1>2, <1>3

\* Types over a write of the log that returns to the one who queued it.
LEMMA ReturnsKeepsTypes ==
    ASSUME LogTypes, walChain # <<>>, Returns(Head(walChain))
    PROVE  /\ append' \in [Appends -> PcTypes] /\ flusher' \in [Flushes -> FlushTypes]
           /\ walChain' \in Seq(Appends \cup Flushes) /\ timer' \in BOOLEAN
<1> USE DEF LogTypes, Returns
<1>1. append' \in [Appends -> PcTypes]
  BY DEF PcTypes
<1>2. flusher' \in [Flushes -> FlushTypes]
  BY DEF FlushTypes, NoFlush
<1>3. walChain' \in Seq(Appends \cup Flushes) /\ timer' \in BOOLEAN
  OBVIOUS
<1>4. QED
  BY <1>1, <1>2, <1>3

\* Types hold in every step of the log.
LEMMA LogTypesHold == LogTypes /\ LogMoves => LogTypes'
<1> SUFFICES ASSUME LogTypes, LogMoves PROVE LogTypes'
  OBVIOUS
<1>1. ASSUME NEW e \in Appends, AppendEvent(e) PROVE LogTypes'
  BY <1>1, RecoverKeepsTypes DEF AppendEvent, LogTypes, RecovererTypes, Marked
<1>2. ASSUME NEW e \in Appends, Push(e) PROVE LogTypes'
  <2>1. walChain' \in Seq(Appends \cup Flushes) /\ walChain' # <<>> /\ buffer' \in Seq(Appends)
    <3>1. e \in Appends \cup Flushes /\ walChain \in Seq(Appends \cup Flushes) /\ buffer \in Seq(Appends)
      BY DEF LogTypes
    <3>2. QED
      BY <1>2, <3>1, MembersOfAppend DEF Push
  <2>2. append' \in [Appends -> PcTypes] /\ raced' \in BOOLEAN
    BY <1>2 DEF Push, LogTypes, PcTypes, Races
  <2>3. UNCHANGED <<disk, ahead, writing, flushing, timer, flusher, recovered, recoverer, givenUp>>
    BY <1>2 DEF Push
  <2>4. QED
    BY <2>1, <2>2, <2>3 DEF LogTypes, PcTypes
<1>3. ASSUME NEW f \in Flushes, ReadFlush(f) PROVE LogTypes'
  <2>1. CASE recovered /\ writers /\ Flush(f)
    BY <2>1, FlushKeepsTypes
  <2>2. CASE Recover(f) /\ ~(recovered /\ writers /\ Flush(f))
    <3>1. recovered' \in BOOLEAN /\ recoverer' \in RecovererTypes
      BY <2>2, RecoverKeepsTypes
    <3>2. flusher' \in [Flushes -> FlushTypes]
      <4>1. flusher \in [Flushes -> FlushTypes]
        BY DEF LogTypes, FlushTypes
      <4>2. PICK c \in {"start", "recover"} : flusher' = [flusher EXCEPT ![f] = [flusher[f] EXCEPT !.pc = c]]
        BY <1>3, <2>2 DEF ReadFlush
      <4>3. [flusher[f] EXCEPT !.pc = c] \in FlushTypes
        BY <4>1, FlushRecords
      <4>4. QED
        BY <4>1, <4>2, <4>3
    <3>3. QED
      BY <1>3, <2>2, <3>1, <3>2 DEF ReadFlush, LogTypes, RecovererTypes, FlushTypes
  <2>3. QED
    BY <1>3, <2>1, <2>2 DEF ReadFlush
<1>4. ASSUME NEW f \in Flushes, TimedFlush(f) \/ RecoveredFlush(f) PROVE LogTypes'
  BY <1>4, FlushKeepsTypes DEF TimedFlush, RecoveredFlush
<1>5. ASSUME NEW f \in Flushes, Flushed(f) PROVE LogTypes'
  <2>1. flusher \in [Flushes -> FlushTypes] /\ f \in Appends \cup Flushes
    BY DEF LogTypes, FlushTypes
  <2>2. flusher' \in [Flushes -> FlushTypes]
    BY <1>5, <2>1, FlushRecords DEF Flushed
  <2>3. flusher[f].payload \in Seq(Appends)
    BY <2>1 DEF FlushTypes
  <2>4. disk' \in Seq(Appends) /\ flushing' \in Seq(Appends)
    BY <1>5, <2>3 DEF Flushed, LogTypes
  <2>5. walChain' \in Seq(Appends \cup Flushes) /\ walChain' # <<>>
    <3>1. walChain \in Seq(Appends \cup Flushes)
      BY DEF LogTypes
    <3>2. QED
      BY <1>5, <2>1, <3>1, MembersOfAppend DEF Flushed
  <2>6. UNCHANGED <<ahead, writing, buffer, timer, append, recovered, recoverer, givenUp, raced>>
    BY <1>5 DEF Flushed
  <2>7. QED
    BY <2>2, <2>4, <2>5, <2>6 DEF LogTypes, FlushTypes
<1>6. ASSUME NEW f \in Flushes, FlushFails(f) PROVE LogTypes'
  BY <1>6 DEF FlushFails, LogTypes, NoFlush
<1>7. CASE RecoverRead
  BY <1>7 DEF RecoverRead, LogTypes
<1>8. CASE RecoverAppended
  <2>1. recoverer.lines \in Seq(Appends)
    BY DEF LogTypes
  <2>2. disk' \in Seq(Appends)
    BY <1>8, <2>1 DEF RecoverAppended, LogTypes
  <2>3. recoverer' \in RecovererTypes
    BY <1>8 DEF RecoverAppended, LogTypes, RecovererTypes
  <2>4. QED
    BY <1>8, <2>2, <2>3 DEF RecoverAppended, LogTypes, RecovererTypes
<1>9. CASE RecoverDone
  <2>1. /\ append' \in [Appends -> PcTypes] /\ flusher' \in [Flushes -> FlushTypes]
        /\ recoverer' \in RecovererTypes
    BY <1>9, OverKeepsTypes DEF RecoverDone
  <2>2. ahead' \in Seq(Appends)
    BY <1>9 DEF RecoverDone
  <2>3. UNCHANGED <<disk, givenUp, writing, writers, buffer, flushing, timer, walChain, recovered, raced>>
    BY <1>9 DEF RecoverDone, RecoveryOver
  <2>4. QED
    BY <2>1, <2>2, <2>3 DEF LogTypes, PcTypes, FlushTypes, RecovererTypes
<1>10. CASE RecoverLogFails
  <2>1. /\ append' \in [Appends -> PcTypes] /\ flusher' \in [Flushes -> FlushTypes]
        /\ recoverer' \in RecovererTypes
    BY <1>10, OverKeepsTypes DEF RecoverLogFails
  <2>2. ahead' \in Seq(Appends) /\ givenUp' \subseteq Appends
    BY <1>10, MembersInSet DEF RecoverLogFails, LogTypes
  <2>3. UNCHANGED <<disk, writing, writers, buffer, flushing, timer, walChain, recovered, raced>>
    BY <1>10 DEF RecoverLogFails, RecoveryOver
  <2>4. QED
    BY <2>1, <2>2, <2>3 DEF LogTypes, PcTypes, FlushTypes, RecovererTypes
<1>11. CASE ScanChannel
  BY <1>11, RecoverKeepsTypes DEF ScanChannel, LogTypes, RecovererTypes
<1>12. CASE Rewrite
  <2>1. CASE flushing \o buffer # <<>>
    <3>1. writing' \in Seq(Appends)
      <4>1. flushing \o buffer \in Seq(Appends)
        BY DEF LogTypes
      <4>2. writing' = flushing \o buffer
        BY <1>12, <2>1 DEF Rewrite
      <4>3. QED
        BY <4>1, <4>2
    <3>2. QED
      BY <1>12, <2>1, <3>1 DEF Rewrite, LogTypes
  <2>2. CASE flushing \o buffer = <<>>
    <3>1. /\ append' \in [Appends -> PcTypes] /\ flusher' \in [Flushes -> FlushTypes]
          /\ walChain' \in Seq(Appends \cup Flushes) /\ timer' \in BOOLEAN
      BY <1>12, <2>2, ReturnsKeepsTypes DEF Rewrite
    <3>2. ahead' \in Seq(Appends) /\ writing' = NotWriting
      BY <1>12, <2>2 DEF Rewrite
    <3>3. UNCHANGED <<disk, writers, buffer, flushing, recovered, recoverer, givenUp, raced>>
      BY <1>12 DEF Rewrite
    <3>4. QED
      BY <3>1, <3>2, <3>3 DEF LogTypes, PcTypes, FlushTypes
  <2>3. QED
    BY <2>1, <2>2
<1>13. CASE Rewritten
  <2>1. /\ append' \in [Appends -> PcTypes] /\ flusher' \in [Flushes -> FlushTypes]
        /\ walChain' \in Seq(Appends \cup Flushes) /\ timer' \in BOOLEAN
    BY <1>13, ReturnsKeepsTypes DEF Rewritten, LogTypes
  <2>2. ahead' \in Seq(Appends) /\ writing' = NotWriting
    BY <1>13 DEF Rewritten, LogTypes
  <2>3. UNCHANGED <<disk, writers, buffer, flushing, recovered, recoverer, givenUp, raced>>
    BY <1>13 DEF Rewritten
  <2>4. QED
    BY <2>1, <2>2, <2>3 DEF LogTypes, PcTypes, FlushTypes
<1>14. CASE LogCrash
  <2>1. ahead' \in Seq(Appends)
    <3>1. CASE ahead' = ahead
      BY <3>1 DEF LogTypes
    <3>2. CASE writing # NotWriting /\ \E n \in 0..(Len(writing) - 1) : ahead' = SubSeq(writing, 1, n)
      BY <3>2, FirstOf DEF LogTypes
    <3>3. QED
      BY <1>14, <3>1, <3>2 DEF LogCrash
  <2>2. append' \in [Appends -> PcTypes]
    BY <1>14 DEF LogCrash, LogTypes, PcTypes
  <2>3. NoFlush \in FlushTypes /\ Nobody \in RecovererTypes
    BY DEF NoFlush, FlushTypes, Nobody, RecovererTypes
  <2>4. flusher' \in [Flushes -> FlushTypes] /\ recoverer' \in RecovererTypes
    BY <1>14, <2>3 DEF LogCrash
  <2>5. givenUp' \subseteq Appends
    BY <1>14, MembersInSet DEF LogCrash, LogTypes
  <2>6. /\ buffer' \in Seq(Appends) /\ flushing' \in Seq(Appends) /\ timer' \in BOOLEAN
        /\ walChain' \in Seq(Appends \cup Flushes) /\ writing' = NotWriting /\ recovered' \in BOOLEAN
    BY <1>14, NoMembers DEF LogCrash
  <2>7. UNCHANGED <<disk, raced>>
    BY <1>14 DEF LogCrash
  <2>8. QED
    BY <2>1, <2>2, <2>4, <2>5, <2>6, <2>7 DEF LogTypes, PcTypes, FlushTypes, RecovererTypes
<1>15. QED
  BY <1>1, <1>2, <1>3, <1>4, <1>5, <1>6, <1>7, <1>8, <1>9, <1>10, <1>11, <1>12, <1>13, <1>14 DEF LogMoves

\* An append, a read or the scan that comes to the channel, and may be the first.
LEMMA RecoverBegins ==
    ASSUME LogTypes, NoRace, NEW b \in Appends \cup Flushes \cup {0}, Recover(b),
           UNCHANGED <<disk, ahead, writing, buffer, flushing, timer, walChain, givenUp>>,
           \A e \in Appends : append'[e] = append[e] \/ (append[e] = "new" /\ e = b)
    PROVE  /\ ahead = <<>> => recoverer' = Nobody
           /\ ahead # <<>> => recoverer' = [by |-> b, pc |-> "read", lines |-> <<>>]
           /\ recovered' /\ Quiet /\ \A e \in Appends : append[e] # "recover"
           /\ \A f \in Flushes : flusher[f].pc = "idle"
           /\ ahead = <<>> => Acked \subseteq Settled
BY NoMembers DEF Recover, NoRace, QuietUntilRecovered, NothingLost

\* An append begins, with a recovery or behind one that is over.
LEMMA AppendBegins ==
    ASSUME LogTypes, LogTypes', NoRace, NEW e \in Appends, AppendEvent(e)
    PROVE  NoRace'
<1> USE DEF AppendEvent
<1>1. /\ append[e] = "new" /\ append'[e] \in {"push", "recover"}
      /\ \A d \in Appends \ {e} : append'[d] = append[d]
      /\ UNCHANGED <<disk, ahead, writing, buffer, flushing, timer, walChain, flusher, givenUp>>
  BY DEF LogTypes
<1>2. Acked' = Acked /\ Kept' = Kept /\ Settled' = Settled /\ Later' = Later
  BY <1>1 DEF Acked, Kept, Settled, Later
<1>3. CASE Marked
  <2>1. append'[e] = "push"
    BY <1>3 DEF Marked, Recover, LogTypes
  <2>2. recovered' = recovered /\ recoverer' = recoverer /\ recovered
    BY <1>3 DEF Marked
  <2>3. QuietUntilRecovered' /\ RecovererAtWork'
    BY <1>1, <2>1, <2>2 DEF NoRace, QuietUntilRecovered, Quiet, RecovererAtWork
  <2>4. NothingLost'
    BY <1>1, <1>2, <2>2 DEF NoRace, NothingLost
  <2>5. QED
    BY <1>1, <1>2, <2>3, <2>4 DEF NoRace, RewritesAll, OneFlush, InOrder, LaterIsLater
<1>4. CASE Recover(e)
  <2>1. append'[e] = IF ahead = <<>> THEN "push" ELSE "recover"
    BY <1>4 DEF Marked, Recover, LogTypes
  <2>2. /\ ahead = <<>> => recoverer' = Nobody
        /\ ahead # <<>> => recoverer' = [by |-> e, pc |-> "read", lines |-> <<>>]
        /\ recovered' /\ Quiet /\ \A d \in Appends : append[d] # "recover"
        /\ \A f \in Flushes : flusher[f].pc = "idle"
        /\ ahead = <<>> => Acked \subseteq Settled
    BY <1>1, <1>4, RecoverBegins
  <2>3. e # 0 /\ 0 \notin Appends
    BY LogAssumption DEF Appends
  <2>4. QuietUntilRecovered' /\ RecovererAtWork'
    BY <1>1, <2>1, <2>2, <2>3 DEF QuietUntilRecovered, Quiet, RecovererAtWork, Nobody
  <2>5. NothingLost'
    BY <1>1, <1>2, <2>2, NoMembers DEF NoRace, NothingLost, Nobody
  <2>6. QED
    BY <1>1, <1>2, <2>4, <2>5 DEF NoRace, RewritesAll, OneFlush, InOrder, LaterIsLater
<1>5. QED
  BY <1>3, <1>4

\* A recovery begins by the constructor's scan or by the first flush.
LEMMA ScanOrReadBegins ==
    ASSUME LogTypes, LogTypes', NoRace, NEW b \in Flushes \cup {0}, Recover(b),
           \/ b = 0 /\ flusher' = flusher
           \/ b \in Flushes /\ flusher' = [flusher EXCEPT ![b].pc = IF ahead = <<>> THEN "start" ELSE "recover"],
           UNCHANGED <<disk, ahead, writing, buffer, flushing, timer, walChain, append, givenUp>>
    PROVE  NoRace'
<1>1. /\ ahead = <<>> => recoverer' = Nobody
      /\ ahead # <<>> => recoverer' = [by |-> b, pc |-> "read", lines |-> <<>>]
      /\ recovered' /\ Quiet /\ \A d \in Appends : append[d] # "recover"
      /\ \A f \in Flushes : flusher[f].pc = "idle"
      /\ ahead = <<>> => Acked \subseteq Settled
  BY RecoverBegins
<1>2. Acked' = Acked /\ Kept' = Kept /\ Settled' = Settled /\ Later' = Later
  BY DEF Acked, Kept, Settled, Later
<1>3. 0 \notin Appends /\ b \notin Appends
  BY LogAssumption DEF Appends
<1>4. \A f \in Flushes : flusher'[f].pc \in {"idle", "start", "recover"}
  <2>1. CASE flusher' = flusher
    BY <1>1, <2>1
  <2>2. CASE b \in Flushes /\ flusher' = [flusher EXCEPT ![b].pc = IF ahead = <<>> THEN "start" ELSE "recover"]
    <3>1. flusher'[b].pc \in {"start", "recover"}
      BY <2>2 DEF LogTypes
    <3>2. \A f \in Flushes \ {b} : flusher'[f] = flusher[f]
      BY <2>2 DEF LogTypes
    <3>3. QED
      BY <1>1, <3>1, <3>2
  <2>3. QED
    BY <2>1, <2>2
<1>5. QuietUntilRecovered' /\ RecovererAtWork'
  BY <1>1, <1>3, <1>4 DEF QuietUntilRecovered, Quiet, RecovererAtWork, Nobody
<1>6. NothingLost'
  BY <1>1, <1>2, NoMembers DEF NoRace, NothingLost, Nobody
<1>7. OneFlush'
  BY <1>4 DEF OneFlush
<1>8. QED
  BY <1>2, <1>5, <1>6, <1>7 DEF NoRace, RewritesAll, InOrder, LaterIsLater

\* The recovery reads the log and appends it to the file.
LEMMA RecoveryReads ==
    ASSUME LogTypes, LogTypes', NoRace, RecoverRead
    PROVE  NoRace'
<1> USE DEF RecoverRead
<1>1. /\ UNCHANGED <<disk, ahead, writing, buffer, flushing, timer, walChain, append, flusher, recovered, givenUp>>
      /\ recoverer'.by = recoverer.by /\ recoverer.pc = "read"
      /\ \/ recoverer'.pc = "append" /\ recoverer'.lines = ahead
         \/ recoverer'.pc = "unlink" /\ ahead = <<>>
  BY DEF LogTypes
<1>2. recoverer' # Nobody /\ recoverer # Nobody
  <2>1. recoverer'.pc # "idle" /\ recoverer.pc # "idle"
    BY <1>1
  <2> HIDE DEF RecoverRead
  <2>2. QED
    BY <2>1 DEF Nobody
<1>3. Acked' = Acked /\ Kept' = Kept /\ Settled' = Settled /\ Later' = Later
  BY <1>1 DEF Acked, Kept, Settled, Later
<1>4. QuietUntilRecovered' /\ RecovererAtWork' /\ NothingLost'
  BY <1>1, <1>2, <1>3, NoMembers DEF NoRace, QuietUntilRecovered, Quiet, RecovererAtWork, NothingLost
<1>5. QED
  BY <1>1, <1>3, <1>4 DEF NoRace, RewritesAll, OneFlush, InOrder, LaterIsLater

\* A recovery brings what the log holds to the end of the file: all of it is later.
LEMMA RecoveryAppends ==
    ASSUME LogTypes, LogTypes', NoRace, RecoverAppended
    PROVE  NoRace'
<1> USE DEF RecoverAppended
<1>1. /\ UNCHANGED <<ahead, writing, buffer, flushing, timer, walChain, append, flusher, recovered, givenUp>>
      /\ recoverer'.by = recoverer.by /\ recoverer.pc = "append" /\ recoverer'.pc = "unlink"
      /\ recoverer.lines = ahead /\ disk' = disk \o ahead
  BY DEF LogTypes, NoRace, RecovererAtWork
<1>2. recoverer' # Nobody /\ recoverer # Nobody
  BY <1>1 DEF Nobody
<1>3. Quiet
  BY <1>2 DEF NoRace, QuietUntilRecovered
<1>4. Members(disk') = Members(disk) \cup Members(ahead)
  BY <1>1, MembersOfConcat DEF LogTypes
<1>5. Acked' = Acked /\ Kept' = Kept /\ Later' = Later /\ Settled' = Settled \cup Members(ahead)
  BY <1>1, <1>4 DEF Acked, Kept, Settled, Later
<1>6. Kept = {}
  BY <1>3, NoMembers DEF Quiet, Kept
<1>7. QuietUntilRecovered' /\ RecovererAtWork'
  BY <1>1, <1>2, <1>4 DEF NoRace, QuietUntilRecovered, Quiet, RecovererAtWork
<1>8. NothingLost' /\ RewritesAll'
  BY <1>1, <1>2, <1>3, <1>4, <1>5 DEF NoRace, NothingLost, RewritesAll, Quiet
<1>9. InOrder' /\ LaterIsLater' /\ OneFlush'
  BY <1>1, <1>4, <1>5, <1>6 DEF NoRace, InOrder, LaterIsLater, OneFlush, Before
<1>10. InTurn(disk', givenUp')
  <2>1. Before(Members(disk), Members(ahead) \ (Members(disk) \cup givenUp)) /\ Increasing(ahead)
    BY DEF NoRace, InOrder, Settled
  <2>2. QED
    BY <1>1, <2>1, InTurnConcat DEF NoRace, LogTypes
<1>11. QED
  BY <1>7, <1>8, <1>9, <1>10 DEF NoRace

\* The recovery is over, with the log removed, or given up.
LEMMA RecoveryEnds ==
    ASSUME LogTypes, LogTypes', NoRace, RecoverDone \/ RecoverLogFails
    PROVE  NoRace'
<1>1. RecoveryOver /\ recoverer # Nobody /\ disk' = disk
  BY DEF RecoverDone, RecoverLogFails, Nobody
<1>2. recovered /\ Quiet
  BY <1>1 DEF NoRace, QuietUntilRecovered, LogTypes
<1>3. /\ \A e \in Appends : append'[e] = IF e = recoverer.by THEN "push" ELSE append[e]
      /\ \A e \in Appends : e = recoverer.by => append[e] = "recover"
      /\ recoverer' = Nobody /\ UNCHANGED <<writing, buffer, flushing, timer, walChain, recovered>>
  BY <1>1 DEF RecoveryOver, NoRace, RecovererAtWork
<1>4. Acked' = Acked /\ Later' = Later /\ Kept' = Kept
  BY <1>3 DEF Acked, Later, Kept
<1>5. \A f \in Flushes : flusher'[f].pc \notin {"append", "wal"}
  BY <1>1, <1>2 DEF RecoveryOver, NoFlush, Quiet
<1>6. /\ givenUp \subseteq givenUp' /\ Members(ahead') \subseteq Members(ahead)
      /\ Members(ahead) \subseteq Settled' /\ Increasing(ahead')
  <2>1. CASE RecoverDone
    BY <2>1, NoMembers DEF RecoverDone, NoRace, RecovererAtWork, Settled
  <2>2. CASE RecoverLogFails
    BY <2>2, NoMembers DEF RecoverLogFails, NoRace, InOrder, Settled
  <2>3. QED
    BY <2>1, <2>2
<1>7. Settled \subseteq Settled' /\ Acked \subseteq Settled'
  BY <1>1, <1>6 DEF Settled, NoRace, NothingLost
<1>8. QuietUntilRecovered' /\ RecovererAtWork'
  <2>1. 0 \notin Appends
    BY LogAssumption DEF Appends
  <2>2. \A e \in Appends : append'[e] # "recover"
    BY <1>3 DEF NoRace, RecovererAtWork
  <2>3. QED
    BY <1>2, <1>3, <1>5, <2>1, <2>2 DEF QuietUntilRecovered, Quiet, RecovererAtWork, Nobody
<1>9. NothingLost' /\ RewritesAll' /\ OneFlush'
  BY <1>1, <1>2, <1>3, <1>4, <1>5, <1>6, <1>7, NoMembers DEF NothingLost, RewritesAll, OneFlush, Quiet
<1>10. InOrder' /\ LaterIsLater'
  <2>1. \A e \in Appends : append'[e] = "new" <=> append[e] = "new"
    BY <1>3
  <2>2. QED
    BY <1>1, <1>3, <1>4, <1>6, <2>1 DEF NoRace, InOrder, LaterIsLater, Before
<1>11. InTurn(disk', givenUp')
  BY <1>1, <1>6 DEF NoRace, InTurn
<1>12. QED
  BY <1>8, <1>9, <1>10, <1>11 DEF NoRace

\* An event is buffered, behind everything that has come.
LEMMA EventPushed ==
    ASSUME LogTypes, LogTypes', NoRace, NEW e \in Appends, Push(e), ~raced'
    PROVE  NoRace'
<1>1. /\ append[e] = "push" /\ append' = [append EXCEPT ![e] = "wal"]
      /\ \A d \in Appends : d < e => append[d] # "push"
      /\ recoverer = Nobody /\ buffer' = Append(buffer, e) /\ walChain' = Append(walChain, e)
      /\ UNCHANGED <<disk, ahead, writing, flushing, timer, flusher, recovered, recoverer, givenUp>>
  BY DEF Push, Races
<1>2. recovered
  BY <1>1 DEF NoRace, QuietUntilRecovered
<1>3. \A d \in Appends : append[d] # "recover"
  <2>1. 0 \notin Appends
    BY LogAssumption DEF Appends
  <2>2. QED
    BY <1>1, <2>1 DEF NoRace, RecovererAtWork, Nobody
<1>4. Members(buffer') = Members(buffer) \cup {e} /\ Members(walChain') = Members(walChain) \cup {e}
  <2>1. buffer \in Seq(Appends) /\ walChain \in Seq(Appends \cup Flushes) /\ e \in Appends \cup Flushes
    BY DEF LogTypes
  <2>2. QED
    BY <1>1, <2>1, MembersOfAppend
<1>5. /\ Acked' = Acked /\ Kept' = Kept \cup {e} /\ Later' = Later \ {e} /\ e \in Later
      /\ Settled' = Settled
  BY <1>1, <1>4 DEF Acked, Kept, Later, Settled, LogTypes
<1>6. writing # NotWriting => Head(walChain') = Head(walChain)
  BY <1>1 DEF LogTypes
<1>7. QuietUntilRecovered' /\ RecovererAtWork'
  BY <1>1, <1>2, <1>3 DEF NoRace, QuietUntilRecovered, RecovererAtWork, LogTypes, Nobody
<1>8. NothingLost' /\ RewritesAll' /\ OneFlush'
  BY <1>1, <1>4, <1>5, <1>6 DEF NoRace, NothingLost, RewritesAll, OneFlush
<1>9. Before(Members(disk) \cup Members(ahead) \cup Kept, {e})
  BY <1>5 DEF NoRace, LaterIsLater, Before
<1>10. InOrder'
  <2>1. Increasing(buffer')
    BY <1>1, <1>9, IncreasingAppend DEF NoRace, InOrder, LogTypes, Before, Kept
  <2>2. QED
    BY <1>1, <1>4, <1>5, <1>9, <2>1 DEF NoRace, InOrder, Before, Kept
<1>11. LaterIsLater'
  <2>1. Before({e}, Later')
    <3> SUFFICES ASSUME NEW d \in Later, d # e PROVE e < d
      BY <1>5 DEF Before
    <3>1. d \in Appends /\ append[d] \in {"new", "push"}
      BY <1>3 DEF Later
    <3>2. ~(d < e)
      BY <1>1, <3>1 DEF NoRace, LaterIsLater
    <3>3. QED
      BY <3>1, <3>2 DEF Appends
  <2>2. \A d \in Appends : append'[d] = "new" <=> append[d] = "new"
    BY <1>1 DEF LogTypes
  <2>3. QED
    BY <1>1, <1>5, <2>1, <2>2 DEF NoRace, LaterIsLater, Before
<1>12. QED
  BY <1>1, <1>7, <1>8, <1>10, <1>11 DEF NoRace

\* A flush takes what is in memory.
LEMMA FlushBegins ==
    ASSUME LogTypes, LogTypes', NoRace, NEW f \in Flushes, flusher[f].pc \in {"idle", "start"},
           timer \/ recovered \/ flusher[f].pc = "start", Flush(f), ~raced', UNCHANGED writers
    PROVE  NoRace'
<1>1. /\ flushing' = flushing \o buffer /\ buffer' = <<>>
      /\ UNCHANGED <<disk, ahead, writing, append, recovered, recoverer, givenUp>>
      /\ recoverer = Nobody /\ \A g \in Flushes \ {f} : flusher[g].pc \notin {"append", "wal"}
  BY DEF Flush, Races
<1>2. recovered
  BY DEF NoRace, QuietUntilRecovered, Quiet
<1>3. Members(flushing') = Members(flushing) \cup Members(buffer) /\ Members(buffer') = {}
  BY <1>1, MembersOfConcat, NoMembers DEF LogTypes
<1>4. Acked' = Acked /\ Kept' = Kept /\ Settled' = Settled /\ Later' = Later
  BY <1>1, <1>3 DEF Acked, Kept, Later, Settled
<1>5. /\ Members(walChain') \cap Appends = Members(walChain) \cap Appends
      /\ writing # NotWriting => Head(walChain') = Head(walChain)
  <2>1. walChain \in Seq(Appends \cup Flushes) /\ f \in Appends \cup Flushes
    BY DEF LogTypes
  <2>2. f \notin Appends
    BY LogAssumption DEF Appends
  <2>3. CASE walChain' = walChain
    BY <2>3
  <2>4. CASE walChain' = Append(walChain, f)
    <3>1. Members(walChain') = Members(walChain) \cup {f}
      BY <2>1, <2>4, MembersOfAppend
    <3>2. writing # NotWriting => walChain # <<>>
      BY DEF LogTypes
    <3>3. QED
      BY <2>1, <2>2, <2>4, <3>1, <3>2
  <2>5. QED
    BY <2>3, <2>4 DEF Flush
<1>6. \A g \in Flushes : flusher'[g].pc = "append" => g = f /\ flusher'[g].payload = flushing'
  <2>1. \A g \in Flushes \ {f} : flusher'[g] = flusher[g]
    BY DEF Flush, LogTypes
  <2>2. flusher'[f].pc = "append" => flusher'[f].payload = flushing'
    BY DEF Flush, LogTypes
  <2>3. QED
    BY <1>1, <2>1, <2>2
<1>7. QuietUntilRecovered' /\ RecovererAtWork'
  BY <1>1, <1>2 DEF NoRace, QuietUntilRecovered, RecovererAtWork
<1>8. NothingLost' /\ RewritesAll' /\ OneFlush'
  BY <1>1, <1>2, <1>4, <1>5, <1>6 DEF NoRace, NothingLost, RewritesAll, OneFlush
<1>9. InOrder'
  <2>1. Increasing(flushing') /\ Increasing(buffer')
    BY <1>1, IncreasingConcat, NoMembers DEF NoRace, InOrder, LogTypes
  <2>2. QED
    BY <1>1, <1>3, <1>4, <2>1 DEF NoRace, InOrder, Before
<1>10. LaterIsLater'
  BY <1>1, <1>4 DEF NoRace, LaterIsLater
<1>11. QED
  BY <1>1, <1>7, <1>8, <1>9, <1>10 DEF NoRace

\* The file has the batch.
LEMMA BatchAppended ==
    ASSUME LogTypes, LogTypes', NoRace, NEW f \in Flushes, Flushed(f)
    PROVE  NoRace'
<1>1. /\ flusher[f].pc = "append" /\ flusher[f].payload = flushing
      /\ \A g \in Flushes : flusher[g].pc = "append" => g = f
      /\ disk' = disk \o flushing /\ flushing' = <<>> /\ walChain' = Append(walChain, f)
      /\ UNCHANGED <<ahead, writing, buffer, timer, append, recovered, recoverer, givenUp>>
  BY DEF Flushed, NoRace, OneFlush
<1>2. \A g \in Flushes : flusher'[g].pc # "append"
  BY <1>1 DEF Flushed, LogTypes
<1>3. recovered /\ recoverer = Nobody
  BY <1>1 DEF NoRace, QuietUntilRecovered, Quiet
<1>4. Members(disk') = Members(disk) \cup Members(flushing) /\ Members(flushing') = {}
  BY <1>1, MembersOfConcat, NoMembers DEF LogTypes
<1>5. /\ Members(walChain') \cap Appends = Members(walChain) \cap Appends
      /\ writing # NotWriting => Head(walChain') = Head(walChain)
  <2>1. walChain \in Seq(Appends \cup Flushes) /\ f \in Appends \cup Flushes
    BY DEF LogTypes
  <2>2. f \notin Appends
    BY LogAssumption DEF Appends
  <2>3. Members(walChain') = Members(walChain) \cup {f}
    BY <1>1, <2>1, MembersOfAppend
  <2>4. writing # NotWriting => walChain # <<>>
    BY DEF LogTypes
  <2>5. QED
    BY <1>1, <2>1, <2>2, <2>3, <2>4
<1>6. /\ Acked' = Acked /\ Later' = Later /\ Settled' = Settled \cup Members(flushing)
      /\ Kept' = Members(buffer) /\ Kept = Members(flushing) \cup Members(buffer)
  BY <1>1, <1>4 DEF Acked, Kept, Later, Settled
<1>7. QuietUntilRecovered' /\ RecovererAtWork'
  BY <1>1, <1>3 DEF NoRace, QuietUntilRecovered, RecovererAtWork, Nobody
<1>8. NothingLost' /\ RewritesAll' /\ OneFlush'
  BY <1>1, <1>2, <1>3, <1>4, <1>5, <1>6 DEF NoRace, NothingLost, RewritesAll, OneFlush
<1>9. InOrder'
  <2>1. Before(Members(disk'), Kept')
    BY <1>4, <1>6 DEF NoRace, InOrder, Before
  <2>2. Members(ahead) \ Settled' \subseteq Members(buffer)
    BY <1>3, <1>6 DEF NoRace, NothingLost
  <2>3. Before(Members(disk'), Members(ahead') \ Settled')
    BY <1>1, <1>6, <2>1, <2>2 DEF Before
  <2>4. QED
    BY <1>1, <1>4, <2>1, <2>3, NoMembers DEF NoRace, InOrder, Before
<1>10. LaterIsLater'
  BY <1>1, <1>4, <1>6 DEF NoRace, LaterIsLater, Before
<1>11. InTurn(disk', givenUp')
  <2>1. Before(Members(disk), Members(flushing) \ (Members(disk) \cup givenUp)) /\ Increasing(flushing)
    BY DEF NoRace, InOrder, Before, Kept
  <2>2. QED
    BY <1>1, <2>1, InTurnConcat DEF NoRace, LogTypes
<1>12. QED
  BY <1>7, <1>8, <1>9, <1>10, <1>11 DEF NoRace

\* The append to the file fails, the batch is kept.
LEMMA BatchKept ==
    ASSUME LogTypes, LogTypes', NoRace, NEW f \in Flushes, FlushFails(f)
    PROVE  NoRace'
<1>1. /\ UNCHANGED <<disk, ahead, writing, buffer, flushing, timer, walChain, append, recovered, recoverer, givenUp>>
      /\ flusher' = [flusher EXCEPT ![f] = NoFlush]
  BY DEF FlushFails
<1>2. \A g \in Flushes : flusher'[g].pc = "idle" \/ flusher'[g] = flusher[g]
  BY <1>1 DEF NoFlush, LogTypes
<1>3. Acked' = Acked /\ Kept' = Kept /\ Settled' = Settled /\ Later' = Later
  BY <1>1 DEF Acked, Kept, Later, Settled
<1>4. QuietUntilRecovered' /\ RecovererAtWork' /\ OneFlush'
  BY <1>1, <1>2 DEF NoRace, QuietUntilRecovered, Quiet, RecovererAtWork, OneFlush
<1>5. QED
  BY <1>1, <1>3, <1>4 DEF NoRace, NothingLost, RewritesAll, InOrder, LaterIsLater

\* What a rewriting does when it is over: nothing acknowledged is lost when the log
\* it leaves has all that the file has not.
LEMMA RewritingOver ==
    ASSUME LogTypes, LogTypes', NoRace, walChain # <<>>, Returns(Head(walChain)), writing' = NotWriting,
           UNCHANGED <<disk, buffer, flushing, recovered, recoverer, givenUp>>,
           Acked \subseteq Settled \cup Members(ahead'),
           Head(walChain) \in Appends => Head(walChain) \in Members(disk) \cup Members(ahead'),
           Members(ahead') \subseteq Members(disk) \cup Kept, Increasing(ahead')
    PROVE  NoRace'
<1> DEFINE w == Head(walChain)
<1>1. recovered /\ recoverer = Nobody
  BY DEF NoRace, QuietUntilRecovered, Quiet
<1>2. /\ w \in Appends \cup Flushes /\ w \in Members(walChain) /\ Members(walChain') \subseteq Members(walChain)
      /\ walChain' = Tail(walChain)
  BY MembersOfTail DEF LogTypes, Returns
<1>3. w \in Appends => w \notin Flushes
  BY LogAssumption DEF Appends
<1>4. /\ \A e \in Appends : append'[e] = IF e = w THEN "acked" ELSE append[e]
      /\ \A f \in Flushes : flusher'[f] = flusher[f] \/ flusher'[f].pc = "idle"
  BY DEF Returns, LogTypes, NoFlush
<1>5. Acked' \subseteq Acked \cup ({w} \cap Appends) /\ Later' \subseteq Later
  BY <1>4 DEF Acked, Later
<1>6. Kept' = Kept /\ Settled' = Settled
  BY DEF Kept, Settled
<1>7. QuietUntilRecovered' /\ RecovererAtWork'
  <2>1. 0 \notin Appends
    BY LogAssumption DEF Appends
  <2>2. QED
    BY <1>1, <1>4, <2>1 DEF NoRace, QuietUntilRecovered, RecovererAtWork, Nobody
<1>8. Acked' \subseteq Settled' \cup Members(ahead') /\ Members(ahead') \subseteq Settled' \cup Kept'
  BY <1>5, <1>6 DEF Settled
<1>9. NothingLost'
  <2>1. Acked' \cup Members(ahead') \subseteq Settled' \cup Kept'
    BY <1>8
  <2>2. Members(walChain') \cap Appends \subseteq Members(disk) \cup Kept'
    BY <1>2, <1>6 DEF NoRace, NothingLost
  <2>3. QED
    BY <1>8, <2>1, <2>2 DEF NothingLost
<1>10. RewritesAll' /\ OneFlush'
  BY <1>4 DEF NoRace, RewritesAll, OneFlush
<1>11. InOrder'
  <2>1. Before(Members(disk), Members(ahead') \ Settled')
    <3>1. Members(ahead') \ Settled' \subseteq Kept
      BY <1>6 DEF Settled
    <3>2. QED
      BY <3>1 DEF NoRace, InOrder, Before
  <2>2. QED
    BY <1>6, <2>1 DEF NoRace, InOrder
<1>12. LaterIsLater'
  <2>1. Before(Members(disk) \cup Members(ahead') \cup Kept', Later')
    BY <1>5, <1>6 DEF NoRace, LaterIsLater, Before
  <2>2. \A e \in Appends : append'[e] = "new" => append[e] = "new"
    BY <1>4
  <2>3. \A e \in Appends : append[e] = "new" => append'[e] = "new"
    <3> SUFFICES ASSUME w \in Appends PROVE append[w] # "new"
      BY <1>4
    <3>1. w \in Members(disk) \cup Members(ahead')
      OBVIOUS
    <3>2. w \in Members(disk) \cup Kept
      BY <3>1
    <3>3. w \notin Later
      BY <3>2, <1>6 DEF NoRace, LaterIsLater, Before, Appends
    <3>4. QED
      BY <3>3 DEF Later
  <2>4. QED
    BY <2>1, <2>2, <2>3 DEF NoRace, LaterIsLater
<1>13. QED
  BY <1>7, <1>9, <1>10, <1>11, <1>12 DEF NoRace

\* The queued write of the log is carried out: it has the whole buffer.
LEMMA RewriteStep ==
    ASSUME LogTypes, LogTypes', NoRace, Rewrite
    PROVE  NoRace'
<1>1. recovered /\ recoverer = Nobody
  BY DEF NoRace, QuietUntilRecovered, Quiet, Rewrite
<1>2. /\ Members(flushing \o buffer) = Kept /\ flushing \o buffer \in Seq(Appends)
      /\ Increasing(flushing \o buffer)
  BY MembersOfConcat, IncreasingConcat DEF LogTypes, Kept, NoRace, InOrder
<1>3. walChain # <<>> /\ UNCHANGED <<disk, buffer, flushing, recovered, recoverer, givenUp>>
  BY DEF Rewrite
<1>4. Head(walChain) \in Members(walChain)
  BY <1>3, MembersOfTail DEF LogTypes
<1>5. CASE flushing \o buffer # <<>>
  <2>1. writing' = flushing \o buffer /\ UNCHANGED <<ahead, append, timer, flusher, walChain>>
    BY <1>5 DEF Rewrite
  <2>2. Acked' = Acked /\ Kept' = Kept /\ Settled' = Settled /\ Later' = Later
    BY <1>3, <2>1 DEF Acked, Kept, Later, Settled
  <2>3. Acked \subseteq Settled \cup Kept
    BY <1>1 DEF NoRace, NothingLost
  <2>4. Head(walChain) \in Appends => Head(walChain) \in Members(disk) \cup Kept
    BY <1>4 DEF NoRace, NothingLost
  <2>5. RewritesAll'
    BY <1>2, <1>3, <2>1, <2>2, <2>3, <2>4 DEF RewritesAll
  <2>6. QuietUntilRecovered' /\ RecovererAtWork'
    BY <1>1, <1>3, <2>1 DEF NoRace, QuietUntilRecovered, RecovererAtWork, Nobody
  <2>7. QED
    BY <1>2, <1>3, <2>1, <2>2, <2>5, <2>6 DEF NoRace, NothingLost, OneFlush, InOrder, LaterIsLater
<1>6. CASE flushing \o buffer = <<>>
  <2>1. ahead' = <<>> /\ Returns(Head(walChain)) /\ writing' = NotWriting
    BY <1>6 DEF Rewrite
  <2>2. Kept = {} /\ Members(ahead') = {} /\ Increasing(ahead')
    BY <1>2, <1>6, <2>1, NoMembers
  <2>3. Acked \subseteq Settled
    BY <1>1, <2>2 DEF NoRace, NothingLost
  <2>4. Head(walChain) \in Appends => Head(walChain) \in Members(disk)
    BY <1>4, <2>2 DEF NoRace, NothingLost
  <2>5. QED
    BY <1>3, <2>1, <2>2, <2>3, <2>4, RewritingOver
<1>7. QED
  BY <1>5, <1>6

\* The write of the log is over.
LEMMA RewrittenStep ==
    ASSUME LogTypes, LogTypes', NoRace, Rewritten
    PROVE  NoRace'
<1>1. /\ writing # NotWriting /\ ahead' = writing /\ writing' = NotWriting /\ Returns(Head(walChain))
      /\ UNCHANGED <<disk, buffer, flushing, recovered, recoverer, givenUp>>
  BY DEF Rewritten
<1>2. walChain # <<>>
  BY <1>1 DEF LogTypes
<1>3. /\ Acked \subseteq Settled \cup Members(ahead')
      /\ Head(walChain) \in Appends => Head(walChain) \in Members(disk) \cup Members(ahead')
      /\ Members(ahead') \subseteq Members(disk) \cup Kept
      /\ Increasing(ahead')
  BY <1>1 DEF NoRace, RewritesAll, InOrder
<1>4. QED
  BY <1>1, <1>2, <1>3, RewritingOver

\* The process dies: what is acknowledged is in the file, in the log, or in what it
\* has cut off the log.
LEMMA LogCrashStep ==
    ASSUME LogTypes, LogTypes', NoRace, LogCrash
    PROVE  NoRace'
<1> USE DEF LogCrash
<1>1. /\ Members(ahead') \subseteq Members(ahead) \/ Members(ahead') \subseteq Members(disk) \cup Kept
      /\ Increasing(ahead')
  <2>1. CASE ahead' = ahead
    BY <2>1 DEF NoRace, InOrder
  <2>2. CASE writing # NotWriting /\ \E n \in 0..(Len(writing) - 1) : ahead' = SubSeq(writing, 1, n)
    <3>1. writing \in Seq(Appends) /\ Increasing(writing) /\ Members(writing) \subseteq Members(disk) \cup Kept
      BY <2>2 DEF LogTypes, NoRace, InOrder, RewritesAll
    <3>2. QED
      BY <2>2, <3>1, FirstOf
  <2>3. QED
    BY <2>1, <2>2
<1>2. /\ Kept' = {} /\ Later' = {e \in Appends : append[e] = "new"} /\ Acked' = Acked
      /\ \A e \in Appends : append'[e] = "new" <=> append[e] = "new"
  BY NoMembers DEF Kept, Later, Acked, LogTypes
<1>3. Settled \subseteq Settled' /\ Members(ahead) \subseteq Settled' \cup Members(ahead')
  BY DEF Settled
<1>4. QuietUntilRecovered' /\ RecovererAtWork'
  <2>1. \A e \in Appends : append'[e] \notin {"recover", "push", "wal"}
    BY DEF LogTypes
  <2>2. 0 \notin Appends
    BY LogAssumption DEF Appends
  <2>3. \A f \in Flushes : flusher'[f].pc = "idle"
    BY DEF NoFlush
  <2>4. QED
    BY <2>1, <2>2, <2>3 DEF QuietUntilRecovered, Quiet, RecovererAtWork, Nobody
<1>5. NothingLost' /\ RewritesAll' /\ OneFlush'
  <2>1. Members(walChain') = {}
    BY NoMembers
  <2>2. \A f \in Flushes : flusher'[f].pc = "idle"
    BY DEF NoFlush
  <2>3. Acked' \subseteq Settled' \cup Members(ahead')
    BY <1>2, <1>3 DEF NoRace, NothingLost
  <2>4. QED
    BY <2>1, <2>2, <2>3 DEF NothingLost, RewritesAll, OneFlush
<1>6. InOrder'
  <2>1. Before(Members(disk'), Members(ahead') \ Settled')
    <3>1. Members(ahead') \ Settled' \subseteq Members(ahead) \ Settled \/ Members(ahead') \ Settled' \subseteq Kept
      BY <1>1, <1>3 DEF Settled
    <3>2. QED
      BY <3>1 DEF NoRace, InOrder, Before
  <2>2. QED
    BY <1>1, <1>2, <2>1, NoMembers DEF InOrder, Before
<1>7. LaterIsLater'
  <2>1. Later' \subseteq Later
    BY <1>2 DEF Later
  <2>2. QED
    BY <1>1, <1>2, <2>1 DEF NoRace, LaterIsLater, Before
<1>8. InTurn(disk', givenUp')
  BY DEF NoRace, InTurn
<1>9. QED
  BY <1>4, <1>5, <1>6, <1>7, <1>8 DEF NoRace

\* What a step of the store does to the log.
LEMMA LogMovesOnly ==
    ASSUME [StoreNext]_storeVars
    PROVE  LogMoves \/ UNCHANGED logVars
BY DEF StoreNext, UseFile, UseLog, FileRuns, LogRuns, FileErrs, LogErrs, ScanGoesOn, Crash, LogStep,
       FileAlone, LogAlone, storeVars, LogMoves

\* Every step of the store keeps the invariant of the event log.
LEMMA LogStepHolds == LogIInv /\ [StoreNext]_storeVars => LogIInv'
<1> SUFFICES ASSUME LogIInv, [StoreNext]_storeVars PROVE LogIInv'
  OBVIOUS
<1>1. CASE UNCHANGED logVars
  BY <1>1 DEF logVars, LogIInv, LogTypes, NoRace, QuietUntilRecovered, Quiet, RecovererAtWork, NothingLost,
              RewritesAll, OneFlush, InOrder, LaterIsLater, Acked, Kept, Settled, Later
<1>2. CASE LogMoves
  <2>1. LogTypes /\ LogTypes'
    BY <1>2, LogTypesHold DEF LogIInv
  <2>2. SUFFICES ASSUME ~raced' PROVE NoRace'
    BY <2>1 DEF LogIInv
  <2>3. ~raced
    BY <1>2, <2>1, <2>2
       DEF LogMoves, AppendEvent, Push, ReadFlush, TimedFlush, RecoveredFlush, Flush, Races, Flushed, FlushFails,
           RecoverRead, RecoverAppended, RecoverDone, RecoverLogFails, RecoveryOver, ScanChannel, Rewrite,
           Rewritten, LogCrash, LogTypes
  <2>4. NoRace
    BY <2>3 DEF LogIInv
  <2>5. ASSUME NEW f \in Flushes, ReadFlush(f) PROVE NoRace'
    <3>1. flusher[f].pc = "idle"
      BY <2>5 DEF ReadFlush
    <3>2. CASE recovered /\ writers /\ Flush(f)
      BY <2>1, <2>2, <2>4, <3>1, <3>2, FlushBegins DEF Flush
    <3>3. CASE ~(recovered /\ writers /\ Flush(f))
      BY <2>1, <2>4, <2>5, <3>3, ScanOrReadBegins DEF ReadFlush
    <3>4. QED
      BY <3>2, <3>3
  <2>6. ASSUME NEW f \in Flushes, TimedFlush(f) \/ RecoveredFlush(f) PROVE NoRace'
    BY <2>1, <2>2, <2>4, <2>6, FlushBegins DEF TimedFlush, RecoveredFlush, Flush
  <2>7. CASE ScanChannel
    BY <2>1, <2>4, <2>7, ScanOrReadBegins DEF ScanChannel
  <2>8. QED
    BY <1>2, <2>1, <2>2, <2>4, <2>5, <2>6, <2>7, AppendBegins, EventPushed, BatchAppended, BatchKept,
       RecoveryReads, RecoveryAppends, RecoveryEnds, RewriteStep, RewrittenStep, LogCrashStep DEF LogMoves
<1>3. QED
  BY <1>1, <1>2, LogMovesOnly

\* Events hold: every event whose append has returned is in the file or in the log,
\* or was given up, at any moment, and the file has them in order.
THEOREM EventsAlwaysHold == StoreSpec => []EventsHold
<1>1. LogIInv => EventsHold
  BY DEF LogIInv, NoRace, NothingLost, Settled, EventsHold, Durable, FirstAppearInOrder, InTurn
<1>2. QED
  BY <1>1, LogInitHolds, LogStepHolds, PTL DEF StoreSpec

=============================================================================
