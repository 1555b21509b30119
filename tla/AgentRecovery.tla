--------------------------- MODULE AgentRecovery ----------------------------
(***************************************************************************)
(* AgentLoop together with what it keeps in its store, a process that may  *)
(* crash at any await, and Agent.resume (src/core/agent.ts) with either    *)
(* strategy.  A save takes effect where its await ends; a crash after the  *)
(* write and before that point is a crash right after it.                  *)
(***************************************************************************)
EXTENDS AgentLoop

VARIABLES
    stored,    \* the store: messages and tool call records
    boot,      \* the process: up, down, or in resume() with a save pending
    resumed    \* the calls of the history found by the last resume()

recoveryVars == <<stored, boot, resumed>>
allVars == <<vars, recoveryVars>>

RecoveryInit ==
    /\ Init
    /\ stored = [history |-> <<>>, rec |-> [c \in Calls |-> "none"]]
    /\ boot = "up"
    /\ resumed = {}

----------------------------------------------------------------------------
(* The steps of the loop, with the save that each of them completes.        *)

\* Faulty variant: the messages are not saved.
SaveNoMessages == UNCHANGED stored

SaveMessages == stored' = [stored EXCEPT !.history = loop.history]

SaveRecords == stored' = [stored EXCEPT !.rec = rec]

SavingMessages ==
    \/ \E s \in Steps : Flushed(s) \/ TurnSaved(s) \/ ResultsSaved(s)

SavingRecords ==
    \/ \E s \in Steps : RecordsSaved(s)
    \/ \E c \in Calls : ApprovalSaved(c)

SavingNothing ==
    \/ Send \/ Remind
    \/ \E c \in Calls : Decide(c, "allow") \/ Decide(c, "deny")
    \/ Interrupt \/ TimePasses
    \/ \E s \in Steps : ModelTurn(s) \/ ToolsJoined(s) \/ InfoSaved(s)
                        \/ ToolsRejected(s) \/ Finally(s) \/ Catch(s)
    \/ Dispatch
    \/ \E c \in Calls : Check(c) \/ Proceed(c) \/ Execute(c) \/ Settle(c) \/ Release(c)
    \/ Faults

\* The two saves of an interrupt() that had calls to seal: messages, records.
SavingInterrupt ==
    /\ InterruptSaved
    /\ stored' = IF interrupting = "sealing"
                 THEN [history |-> loop.history, rec |-> rec] ELSE stored

\* persistMessages fails after its write (in persistInfo or a hook).
SavedAndFailed ==
    \E s \in Steps : loop.pc[s] \in {"flush", "saveTurn", "saveResults"} /\ StepFails(s)

Running ==
    /\ boot = "up"
    /\ \/ (SavingMessages \/ SavedAndFailed) /\ SaveMessages
       \/ SavingRecords /\ SaveRecords
       \/ SavingInterrupt
       \/ SavingNothing /\ UNCHANGED stored
    /\ UNCHANGED <<boot, resumed>>

\* An interrupt() dies after its first save and before its second.
CrashBetweenSaves ==
    /\ boot = "up" /\ interrupting = "sealing"
    /\ SaveMessages

----------------------------------------------------------------------------
(* Crash and resume.                                                        *)

\* Faulty variant: the history is not loaded.
FreshEmpty(h, r) ==
    /\ loop' = [state |-> "READY", interrupted |-> FALSE, promise |-> NoStep,
                next |-> FALSE, overdue |-> FALSE, pc |-> [s \in Steps |-> "idle"],
                flushing |-> {}, history |-> <<>>]
    /\ pending' = <<>> /\ waiters' = {} /\ turn' = [s \in Steps |-> {}] /\ dispatch' = <<>>
    /\ active' = 0 /\ queue' = <<>> /\ slot' = [c \in Calls |-> "new"]
    /\ call' = [c \in Calls |-> "unused"] /\ rec' = r /\ approval' = [c \in Calls |-> "none"]
    /\ interrupting' = "no"
    /\ UNCHANGED <<kind, env>>

\* A new process: everything but the history and the records starts afresh.
Fresh(h, r) ==
    /\ loop' = [state |-> "READY", interrupted |-> FALSE, promise |-> NoStep,
                next |-> FALSE, overdue |-> FALSE, pc |-> [s \in Steps |-> "idle"],
                flushing |-> {}, history |-> h]
    /\ pending' = <<>>
    /\ waiters' = {}
    /\ turn' = [s \in Steps |-> {}]
    /\ dispatch' = <<>>
    /\ active' = 0 /\ queue' = <<>> /\ slot' = [c \in Calls |-> "new"]
    /\ call' = [c \in Calls |-> "unused"]
    /\ rec' = r
    /\ approval' = [c \in Calls |-> "none"]
    /\ interrupting' = "no"
    /\ UNCHANGED <<kind, env>>

Crash ==
    /\ boot # "down"
    /\ dispatch = <<>>
    /\ env.crashes < MaxCrashes /\ MayGoWrong
    /\ env' = [env EXCEPT !.crashes = @ + 1]
    /\ boot' = "down"
    /\ \/ CrashBetweenSaves
       \/ UNCHANGED stored
    /\ UNCHANGED <<loopVars, runnerVars, callVars, interrupting, resumed>>

AskedIn(h) == UNION {h[i].uses : i \in {j \in 1..Len(h) : h[j].role = "assistant"}}

\* autoSealIncompleteCalls: every record that is not terminal is sealed, and
\* answered (Sealed) unless the history already answers it.
Open(r) == {c \in Calls : r[c] \notin Terminal \cup {"none"}}

\* Faulty variants: an answer that is there is repeated; none is written.
SealedAgain(h, r) == IF Open(r) = {} THEN h ELSE Append(h, Results(Open(r)))

SealedSilently(h, r) == h

Sealed(h, r) ==
    LET cs == Open(r) \ Answered(h) IN IF cs = {} THEN h ELSE Append(h, Results(cs))

\* resume() with strategy 'crash', up to its first save.
ResumeCrashed ==
    /\ boot = "down"
    /\ Fresh(Sealed(stored.history, stored.rec),
             [c \in Calls |-> IF c \in Open(stored.rec) THEN "SEALED" ELSE stored.rec[c]])
    /\ boot' = IF Open(stored.rec) \subseteq Answered(stored.history)
               THEN "sealRecords" ELSE "sealMessages"
    /\ resumed' = AskedIn(stored.history)
    /\ UNCHANGED stored

\* resume() with strategy 'manual', the default.
ResumeManual ==
    /\ boot = "down"
    /\ Fresh(stored.history, stored.rec)
    /\ boot' = "up"
    /\ resumed' = AskedIn(stored.history)
    /\ UNCHANGED stored

SealMessagesSaved ==
    /\ boot = "sealMessages"
    /\ SaveMessages
    /\ boot' = "sealRecords"
    /\ UNCHANGED <<vars, resumed>>

\* The records are saved and, with autoRun, a first step begins.
SealRecordsSaved ==
    /\ boot = "sealRecords"
    /\ CanEnsure(loop)
    /\ SaveRecords
    /\ boot' = "up"
    /\ loop' \in {loop, EnsureProcessing(loop, pending)}
    /\ UNCHANGED <<pending, kind, waiters, turn, dispatch, runnerVars, callVars,
                   interrupting, env, resumed>>

RecoveryNext ==
    \/ Running
    \/ Crash
    \/ ResumeCrashed \/ ResumeManual \/ SealMessagesSaved \/ SealRecordsSaved

RecoverySpec == RecoveryInit /\ [][RecoveryNext]_allVars

----------------------------------------------------------------------------

IsPrefixOf(g, h) == Len(g) <= Len(h) /\ SubSeq(h, 1, Len(g)) = g

\* The stored history is always a prefix of the one in memory: a crash loses a
\* suffix and never leaves a message without those before it.
StoredIsPrefix == boot # "down" => IsPrefixOf(stored.history, loop.history)

\* No record of a call outlives the message that asked for it.
RecordsHaveTurn ==
    {c \in Calls : stored.rec[c] # "none"} \subseteq AskedIn(stored.history)

\* A call of a history found by resume() is never executed, whatever its record
\* says: at most it is sealed.
NeverReexecuted == \A c \in resumed : call[c] = "unused"

Answers(h, c) == {i \in 1..Len(h) : h[i].role = "results" /\ c \in h[i].uses}

\* Sealing twice, or crashing between the two saves of a sealing, never answers
\* a call twice.  (An interrupt() may: it answers calls that still run.)
AnsweredOnce ==
    env.interrupts = 0 => \A c \in Calls : Cardinality(Answers(loop.history, c)) <= 1

\* resume() saves the answers before the sealed records, so a second crash never
\* finds a sealed record without its answer.  (With interrupt() it may: another
\* call's save of the records can overtake the save of the messages.)
SealedIsAnswered ==
    env.interrupts = 0 => \A c \in Calls : stored.rec[c] = "SEALED" => c \in Answered(stored.history)

\* The stored records agree with the stored history through crashes at every await:
\* each has its question, and no call is answered twice or sealed unanswered.
RecordsAgree == RecordsHaveTurn /\ AnsweredOnce /\ SealedIsAnswered

\* After a resume with strategy 'crash' no call of the history is left without
\* an answer.
CrashLeavesNoOpenCall ==
    boot = "sealRecords" => AskedIn(loop.history) \subseteq Answered(loop.history)

=============================================================================
