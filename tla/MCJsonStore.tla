---------------------------- MODULE MCJsonStore -----------------------------
(***************************************************************************)
(* An instance of JsonStore for TLC.  The file and the channel share       *)
(* nothing but the crash and the scan, so one of them is at work at a      *)
(* time: either no event is left to append, or no version to save; and a   *)
(* load and a flush, which remain possible, are not explored in each       *)
(* other's middle.                                                         *)
(***************************************************************************)
EXTENDS JsonStore

ChannelQuiet == recoverer = Nobody /\ walChain = <<>> /\ \A f \in Flushes : flusher[f] = NoFlush

\* Overlaps and races end most promises, so they are explored in the first process.
Explored ==
    /\ InProgress = 0 \/ ChannelQuiet
    /\ overlapped \/ raced => storeCrashes = 0

FilesAtWork ==
    /\ FileInit
    /\ append = [e \in Appends |-> "acked"]
    /\ disk = [i \in Appends |-> i]
    /\ ahead = <<>> /\ writing = NotWriting
    /\ writers = FALSE /\ buffer = <<>> /\ flushing = <<>> /\ timer = FALSE
    /\ walChain = <<>>
    /\ flusher = [f \in Flushes |-> NoFlush]
    /\ recovered = TRUE /\ recoverer = Nobody
    /\ givenUp = {} /\ raced = FALSE /\ logFaults = 0

LogAtWork ==
    /\ LogInit
    /\ main = MaxSaves /\ tmp = Absent /\ wal = Absent
    /\ save = [v \in Versions |-> "saved"]
    /\ chain = <<>>
    /\ recovery = [r \in {"load", "scan"} |-> Idle]
    /\ acked = MaxSaves /\ loaded = MaxSaves /\ overlapped = FALSE /\ fileFaults = 0

MCInit ==
    /\ FilesAtWork \/ LogAtWork
    /\ scanning = "done" /\ storeCrashes = 0

MCSpec == MCInit /\ [][StoreNext]_storeVars /\ StoreFairness

=============================================================================
