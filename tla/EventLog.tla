------------------------------ MODULE EventLog ------------------------------
(***************************************************************************)
(* src/infra/store/json-store.ts: appendEvent, the timed flush, readEvents *)
(* and the recovery of the log of one event channel, with a crash between  *)
(* any two steps.  Events are numbered in the order of their appendEvent.  *)
(* Appends overlap freely: the event bus does not wait for them.           *)
(***************************************************************************)
EXTENDS Integers, Sequences, FiniteSets

CONSTANTS MaxAppends,     \* bound: events appended
          MaxLogFaults,   \* bound: flushes and recoveries that fail
          Flushes         \* ids of flushEvents calls in progress at a time

ASSUME LogAssumption ==
    MaxAppends \in Nat /\ MaxLogFaults \in Nat /\ Flushes \cap (0..MaxAppends) = {}

Appends == 1..MaxAppends

VARIABLES
    disk,        \* the channel's .log file
    ahead,       \* its .wal file; empty when there is none
    writing,     \* what a write of the .wal file in progress is writing
    writers,     \* whether eventWriters has the channel's BufferedWriter
    buffer, flushing, timer,   \* the BufferedWriter
    walChain,    \* walWriting: the appends and flushes that wait to write the .wal file
    append,      \* Appends -> where its appendEvent is
    flusher,     \* Flushes -> where its flushEvents is, and its payload
    recovered,   \* walRecovered has the channel
    recoverer,   \* the recovery in progress: on behalf of whom, where, what it read
    givenUp,     \* history: the events of logs whose recovery failed or whose writing
                 \* a crash cut short
    raced,       \* history: whether an append or a flush has overlapped a recovery or
                 \* a flush another flush
    logFaults

logVars == <<disk, ahead, writing, writers, buffer, flushing, timer, walChain, append, flusher,
             recovered, recoverer, givenUp, raced, logFaults>>

Nobody == [by |-> 0, pc |-> "idle", lines |-> <<>>]
NoFlush == [pc |-> "idle", payload |-> <<>>]
NotWriting == <<0>>

LogTypeOK ==
    /\ disk \in Seq(Appends) /\ ahead \in Seq(Appends)
    /\ writing = NotWriting \/ writing \in Seq(Appends)
    /\ buffer \in Seq(Appends) /\ flushing \in Seq(Appends) /\ timer \in BOOLEAN
    /\ writers \in BOOLEAN /\ raced \in BOOLEAN
    /\ walChain \in Seq(Appends \cup Flushes)
    /\ append \in [Appends -> {"new", "recover", "push", "wal", "acked", "lost"}]
    /\ flusher \in [Flushes -> [pc : {"idle", "recover", "start", "append", "wal"}, payload : Seq(Appends)]]
    /\ recovered \in BOOLEAN
    /\ recoverer \in [by : Appends \cup Flushes \cup {0}, pc : {"idle", "read", "append", "unlink"}, lines : Seq(Appends)]
    /\ givenUp \subseteq Appends
    /\ logFaults \in 0..MaxLogFaults

LogInit ==
    /\ disk = <<>> /\ ahead = <<>> /\ writing = NotWriting
    /\ writers = FALSE /\ buffer = <<>> /\ flushing = <<>> /\ timer = FALSE
    /\ walChain = <<>>
    /\ append = [e \in Appends |-> "new"]
    /\ flusher = [f \in Flushes |-> NoFlush]
    /\ recovered = FALSE
    /\ recoverer = Nobody
    /\ givenUp = {} /\ raced = FALSE
    /\ logFaults = 0

Members(q) == {q[i] : i \in 1..Len(q)}

\* An append or a flush begins beside a recovery, or a flush beside a flush.
Races(beside) == raced' = (raced \/ recoverer # Nobody \/ beside)

----------------------------------------------------------------------------
(* Recovery: by the scan of the store's constructor (by = 0), by the first  *)
(* append or by the first read.  Whoever comes later finds the channel      *)
(* marked and goes on.                                                      *)

Recover(by) ==
    /\ ~recovered
    /\ recovered' = TRUE
    /\ recoverer' = IF ahead = <<>> THEN recoverer ELSE [by |-> by, pc |-> "read", lines |-> <<>>]

Marked == recovered /\ UNCHANGED <<recovered, recoverer>>

ScanChannel ==
    /\ Recover(0)
    /\ UNCHANGED <<disk, ahead, writing, writers, buffer, flushing, timer, walChain, append, flusher,
                   givenUp, raced, logFaults>>

RecoverRead ==
    /\ recoverer.pc = "read"
    /\ recoverer' = [recoverer EXCEPT !.lines = ahead, !.pc = IF ahead = <<>> THEN "unlink" ELSE "append"]
    /\ UNCHANGED <<disk, ahead, writing, writers, buffer, flushing, timer, walChain, append, flusher,
                   recovered, givenUp, raced, logFaults>>

RecoverAppended ==
    /\ recoverer.pc = "append"
    /\ disk' = disk \o recoverer.lines
    /\ recoverer' = [recoverer EXCEPT !.pc = "unlink"]
    /\ UNCHANGED <<ahead, writing, writers, buffer, flushing, timer, walChain, append, flusher,
                   recovered, givenUp, raced, logFaults>>

\* Whoever asked for the recovery goes on.
RecoveryOver ==
    /\ append' = [e \in Appends |-> IF e = recoverer.by THEN "push" ELSE append[e]]
    /\ flusher' = [f \in Flushes |-> IF f = recoverer.by THEN [NoFlush EXCEPT !.pc = "start"]
                                     ELSE flusher[f]]
    /\ recoverer' = Nobody
    /\ UNCHANGED <<writing, writers, buffer, flushing, timer, walChain, recovered, raced>>

RecoverDone ==
    /\ recoverer.pc = "unlink"
    /\ ahead' = <<>>
    /\ RecoveryOver
    /\ UNCHANGED <<disk, givenUp, logFaults>>

\* The log cannot be read, or the file not be appended to: the scan puts the log
\* aside, the others leave it where the next rewriting replaces or removes it.
RecoverLogFails ==
    /\ recoverer.pc \in {"read", "append"}
    /\ logFaults < MaxLogFaults
    /\ logFaults' = logFaults + 1
    /\ ahead' = IF recoverer.by = 0 THEN <<>> ELSE ahead
    /\ givenUp' = givenUp \cup Members(ahead)
    /\ RecoveryOver
    /\ UNCHANGED disk

----------------------------------------------------------------------------
(* appendEvent.                                                             *)

AppendEvent(e) ==
    /\ append[e] = "new" /\ \A d \in Appends : d < e => append[d] # "new"
    /\ writers' = TRUE
    /\ \/ /\ Marked
          /\ append' = [append EXCEPT ![e] = "push"]
       \/ /\ Recover(e)
          /\ append' = [append EXCEPT ![e] = IF ahead = <<>> THEN "push" ELSE "recover"]
    /\ UNCHANGED <<disk, ahead, writing, buffer, flushing, timer, walChain, flusher,
                   givenUp, raced, logFaults>>

\* The entry is buffered and a rewriting of the log is chained to those before.
\* (Callbacks of one await run in the order of the calls.)
Push(e) ==
    /\ append[e] = "push" /\ \A d \in Appends : d < e => append[d] # "push"
    /\ buffer' = Append(buffer, e)
    /\ walChain' = Append(walChain, e)
    /\ append' = [append EXCEPT ![e] = "wal"]
    /\ Races(FALSE)
    /\ UNCHANGED <<disk, ahead, writing, writers, flushing, timer, flusher, recovered, recoverer,
                   givenUp, logFaults>>

\* Faulty variant: no timer is set while a flush is in progress.
ReturnsUnlessFlushing(w) ==
    /\ append' = IF w \in Appends THEN [append EXCEPT ![w] = "acked"] ELSE append
    /\ timer' = (timer \/ (w \in Appends /\ flushing = <<>>))
    /\ flusher' = IF w \in Flushes THEN [flusher EXCEPT ![w] = NoFlush] ELSE flusher
    /\ walChain' = Tail(walChain)

\* What follows a rewriting of the log: the append returns and sets the timer,
\* the flush returns.
Returns(w) ==
    /\ append' = IF w \in Appends THEN [append EXCEPT ![w] = "acked"] ELSE append
    /\ timer' = (timer \/ w \in Appends)
    /\ flusher' = IF w \in Flushes THEN [flusher EXCEPT ![w] = NoFlush] ELSE flusher
    /\ walChain' = Tail(walChain)

\* Faulty variant: only what is not being flushed is logged.
RewriteBuffer ==
    /\ walChain # <<>> /\ writing = NotWriting
    /\ \/ buffer # <<>> /\ writing' = buffer /\ UNCHANGED <<ahead, append, timer, flusher, walChain>>
       \/ buffer = <<>> /\ ahead' = <<>> /\ Returns(Head(walChain)) /\ UNCHANGED writing
    /\ UNCHANGED <<disk, writers, buffer, flushing, recovered, recoverer, givenUp, raced, logFaults>>

\* writeEventWal at its turn: what is flushed or buffered now is written, or the
\* log removed.
Rewrite ==
    /\ walChain # <<>> /\ writing = NotWriting
    /\ \/ /\ flushing \o buffer # <<>>
          /\ writing' = flushing \o buffer
          /\ UNCHANGED <<ahead, append, timer, flusher, walChain>>
       \/ /\ flushing \o buffer = <<>>
          /\ ahead' = <<>>
          /\ Returns(Head(walChain))
          /\ UNCHANGED writing
    /\ UNCHANGED <<disk, writers, buffer, flushing, recovered, recoverer, givenUp, raced, logFaults>>

Rewritten ==
    /\ writing # NotWriting
    /\ ahead' = writing
    /\ writing' = NotWriting
    /\ Returns(Head(walChain))
    /\ UNCHANGED <<disk, writers, buffer, flushing, recovered, recoverer, givenUp, raced, logFaults>>

----------------------------------------------------------------------------
(* flushEvents, by the timer or by readEvents.                              *)

\* Faulty variant: what a failed flush has kept goes behind what came later.
FlushNewFirst(f) ==
    /\ timer' = FALSE
    /\ flushing' = buffer \o flushing
    /\ buffer' = <<>>
    /\ \/ /\ flushing' # <<>>
          /\ flusher' = [flusher EXCEPT ![f] = [pc |-> "append", payload |-> flushing']]
          /\ UNCHANGED walChain
       \/ /\ flushing' = <<>>
          /\ flusher' = [flusher EXCEPT ![f].pc = "wal"]
          /\ walChain' = Append(walChain, f)
    /\ Races(\E g \in Flushes \ {f} : flusher[g].pc \in {"append", "wal"})
    /\ UNCHANGED <<disk, ahead, writing, writers, append, recovered, recoverer, givenUp, logFaults>>

Flush(f) ==
    /\ timer' = FALSE
    /\ flushing' = flushing \o buffer
    /\ buffer' = <<>>
    /\ \/ /\ flushing' # <<>>
          /\ flusher' = [flusher EXCEPT ![f] = [pc |-> "append", payload |-> flushing']]
          /\ UNCHANGED walChain
       \/ /\ flushing' = <<>>
          /\ flusher' = [flusher EXCEPT ![f].pc = "wal"]
          /\ walChain' = Append(walChain, f)
    /\ Races(\E g \in Flushes \ {f} : flusher[g].pc \in {"append", "wal"})
    /\ UNCHANGED <<disk, ahead, writing, writers, append, recovered, recoverer, givenUp, logFaults>>

TimedFlush(f) == timer /\ flusher[f].pc = "idle" /\ Flush(f)

\* readEvents recovers and flushes before it reads.  (Without writers a flush
\* returns at once.)
ReadFlush(f) ==
    /\ flusher[f].pc = "idle"
    /\ \/ recovered /\ writers /\ Flush(f)
       \/ /\ Recover(f)
          /\ writers' = TRUE
          /\ flusher' = [flusher EXCEPT ![f].pc = IF ahead = <<>> THEN "start" ELSE "recover"]
          /\ UNCHANGED <<disk, ahead, writing, buffer, flushing, timer, walChain, append,
                         givenUp, raced, logFaults>>

RecoveredFlush(f) == flusher[f].pc = "start" /\ Flush(f)

\* The file has the batch; the log is rewritten without it.
Flushed(f) ==
    /\ flusher[f].pc = "append"
    /\ disk' = disk \o flusher[f].payload
    /\ flushing' = <<>>
    /\ flusher' = [flusher EXCEPT ![f] = [pc |-> "wal", payload |-> <<>>]]
    /\ walChain' = Append(walChain, f)
    /\ UNCHANGED <<ahead, writing, writers, buffer, timer, append, recovered, recoverer,
                   givenUp, raced, logFaults>>

\* The append to the file fails: the batch is kept and nothing rescheduled.
FlushFails(f) ==
    /\ flusher[f].pc = "append"
    /\ logFaults < MaxLogFaults
    /\ logFaults' = logFaults + 1
    /\ flusher' = [flusher EXCEPT ![f] = NoFlush]
    /\ UNCHANGED <<disk, ahead, writing, writers, buffer, flushing, timer, walChain, append,
                   recovered, recoverer, givenUp, raced>>

----------------------------------------------------------------------------

\* The process dies; the next one has nothing but the two files.  A log that was
\* being written, which truncates it first, may have part of its lines.
LogCrash ==
    /\ \/ ahead' = ahead
       \/ writing # NotWriting /\ \E n \in 0..(Len(writing) - 1) : ahead' = SubSeq(writing, 1, n)
    /\ givenUp' = givenUp \cup (Members(ahead) \ Members(ahead'))
    /\ writing' = NotWriting
    /\ writers' = FALSE /\ buffer' = <<>> /\ flushing' = <<>> /\ timer' = FALSE
    /\ walChain' = <<>>
    /\ append' = [e \in Appends |-> IF append[e] \in {"new", "acked"} THEN append[e] ELSE "lost"]
    /\ flusher' = [f \in Flushes |-> NoFlush]
    /\ recovered' = FALSE
    /\ recoverer' = Nobody
    /\ UNCHANGED <<disk, raced, logFaults>>

LogStep ==
    \/ RecoverRead \/ RecoverAppended \/ RecoverDone
    \/ \E e \in Appends : Push(e)
    \/ Rewrite \/ Rewritten
    \/ \E f \in Flushes : TimedFlush(f) \/ RecoveredFlush(f) \/ Flushed(f)

LogNext ==
    \/ \E e \in Appends : AppendEvent(e)
    \/ \E f \in Flushes : ReadFlush(f) \/ FlushFails(f)
    \/ RecoverLogFails
    \/ LogStep

----------------------------------------------------------------------------

Acked == {e \in Appends : append[e] = "acked"}

\* An event whose append has returned is on disk, in the file or in the
\* write-ahead log, at every moment a crash may come; a recovery that fails or a
\* log cut short by a crash gives events up, and otherwise only races lose them.
Durable == raced \/ Acked \subseteq Members(disk) \cup Members(ahead) \cup givenUp

\* Without races the file has the events in the order of their appends, but for
\* those given up.  (Recovery may repeat some of them.)
FirstAppearInOrder ==
    raced \/ \A i, j \in 1..Len(disk) :
                i < j /\ disk[j] < disk[i] /\ disk[j] \notin givenUp
                => \E k \in 1..(i - 1) : disk[k] = disk[j]

=============================================================================
