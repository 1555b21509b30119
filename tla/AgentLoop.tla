----------------------------- MODULE AgentLoop ------------------------------
(***************************************************************************)
(* The processing loop of an agent: src/core/agent.ts (ensureProcessing,   *)
(* runStep, executeTools, processToolCall, requestPermission, decide,      *)
(* interrupt) with src/core/agent/message-queue.ts and, by composition,    *)
(* ToolRunner.  JavaScript runs a callback to completion, so one action is *)
(* the code from one await to the next; the interleavings are those of the *)
(* awaits, of API calls and of the clock.                                  *)
(*                                                                         *)
(* A step of the loop is one call of runStep().  Its identity is a member  *)
(* of Steps, reused once its promise and callbacks are over.               *)
(***************************************************************************)
EXTENDS Integers, Sequences, FiniteSets

CONSTANTS MaxSends,       \* bound: messages 1..MaxSends are sent, in this order
          Calls,          \* the tool_use ids the model may produce
          Concurrency,    \* maxToolConcurrency
          MaxSteps,       \* bound: steps whose promise is not over at once
          MaxInterrupts,  \* bound: calls of interrupt()
          MaxTimeouts,    \* bound: times a step outlives PROCESSING_TIMEOUT
          MaxFaults,      \* bound: saves, hooks and model requests that fail
          MaxCrashes,     \* bound: crashes of the process (AgentRecovery)
          MaxTroubles     \* bound: all of these together

ASSUME LoopAssumption ==
    /\ MaxSends \in Nat \ {0} /\ MaxSteps \in Nat \ {0}
    /\ MaxInterrupts \in Nat /\ MaxTimeouts \in Nat /\ MaxFaults \in Nat
    /\ MaxCrashes \in Nat /\ MaxTroubles \in Nat
ASSUME CallsAssumption == IsFiniteSet(Calls)
ASSUME LoopConcurrency == Concurrency \in Nat \ {0}

Messages == 1..MaxSends
Steps == 1..MaxSteps
NoStep == 0

VARIABLES
    loop,       \* what ensureProcessing and the start of runStep touch
    pending,    \* messageQueue.pending
    kind,       \* Messages -> whether and how a message was sent
    waiters,    \* chat() calls that still wait for a done event
    turn,       \* Steps -> the tool calls of the assistant message in progress
    dispatch,   \* calls executeTools has still to hand to toolRunner.run()
    active, queue, slot,  \* the ToolRunner
    call,       \* Calls -> where processToolCall is
    rec,        \* Calls -> toolRecords[...].state
    approval,   \* Calls -> toolRecords[...].approval
    interrupting, \* whether an interrupt() is in progress, with saves or without
    env         \* how much of the environment's bounds is used up

loopVars == <<loop, pending, kind, waiters, turn, dispatch>>
runnerVars == <<active, queue, slot>>
callVars == <<call, rec, approval>>
vars == <<loopVars, runnerVars, callVars, interrupting, env>>

\* Every tool call goes through the bounded runner.
Runner == INSTANCE ToolRunner WITH Tasks <- Calls, status <- slot

StepPcs == {"idle", "flush", "model", "saveTurn", "tools", "saveRecords",
            "saveResults", "saveInfo", "saveInfoAfterError",
            "returned", "rejected", "catching"}
CallPcs == {"unused", "checking", "saveApproval", "waiting", "decided",
            "executing", "returned", "threw"}
RecordStates == {"none", "PENDING", "APPROVAL_REQUIRED", "APPROVED", "EXECUTING",
                 "COMPLETED", "FAILED", "DENIED", "SEALED"}
Terminal == {"COMPLETED", "FAILED", "DENIED", "SEALED"}

UserEntry(m) == [role |-> "user", msg |-> m]
Assistant(cs) == [role |-> "assistant", uses |-> cs]
Results(cs) == [role |-> "results", uses |-> cs]

Entries == [role : {"user"}, msg : Messages]
           \cup [role : {"assistant", "results"}, uses : SUBSET Calls]

Loops == [state : {"READY", "WORKING", "PAUSED"},
          interrupted : BOOLEAN,
          promise : Steps \cup {NoStep},   \* this.processingPromise
          next : BOOLEAN,                  \* this.pendingNextRound
          overdue : BOOLEAN,               \* now - lastProcessingStart > PROCESSING_TIMEOUT
          pc : [Steps -> StepPcs],
          flushing : SUBSET Steps,  \* steps whose flush() holds the current pending array
          history : Seq(Entries)]          \* this.messages

TypeOK ==
    /\ loop \in Loops
    /\ pending \in Seq(Messages)
    /\ kind \in [Messages -> {"unsent", "user", "reminder"}]
    /\ waiters \in SUBSET Messages
    /\ turn \in [Steps -> SUBSET Calls]
    /\ dispatch \in Seq(Calls)
    /\ call \in [Calls -> CallPcs]
    /\ rec \in [Calls -> RecordStates]
    /\ approval \in [Calls -> {"none", "required", "allow", "deny"}]
    /\ interrupting \in {"no", "plain", "sealing"}
    /\ env \in [interrupts : Nat, timeouts : Nat, faults : Nat, crashes : Nat]

Init ==
    /\ loop = [state |-> "READY", interrupted |-> FALSE, promise |-> NoStep,
               next |-> FALSE, overdue |-> FALSE, pc |-> [s \in Steps |-> "idle"],
               flushing |-> {}, history |-> <<>>]
    /\ pending = <<>>
    /\ kind = [m \in Messages |-> "unsent"]
    /\ waiters = {}
    /\ turn = [s \in Steps |-> {}]
    /\ dispatch = <<>>
    /\ Runner!RunnerInit
    /\ call = [c \in Calls |-> "unused"]
    /\ rec = [c \in Calls |-> "none"]
    /\ approval = [c \in Calls |-> "none"]
    /\ interrupting = "no"
    /\ env = [interrupts |-> 0, timeouts |-> 0, faults |-> 0, crashes |-> 0]

----------------------------------------------------------------------------
(* ensureProcessing() and the part of runStep() that runs before its first  *)
(* await, as functions on the loop.                                         *)

IdleSteps(L) == {s \in Steps : L.pc[s] = "idle"}

InFlight(L) == L.promise # NoStep /\ ~L.overdue

\* A bound: a new step needs an identity that is not in use.
CanEnsure(L) == InFlight(L) \/ IdleSteps(L) # {}

\* Faulty variant: the queue enters the history last message first.
BeginStepReversed(L, s, q) ==
    IF L.state # "READY" \/ L.interrupted THEN [L EXCEPT !.pc[s] = "returned", !.interrupted = FALSE]
    ELSE [L EXCEPT !.pc[s] = IF q = <<>> THEN "model" ELSE "flush", !.state = "WORKING",
                   !.history = @ \o [i \in 1..Len(q) |-> UserEntry(q[Len(q) + 1 - i])]]

\* runStep(): leave at once unless READY; let a pending interrupt() swallow the
\* step; else go to WORKING and flush the message queue into the history.
BeginStep(L, s, q) ==
    IF L.state # "READY" THEN [L EXCEPT !.pc[s] = "returned"]
    ELSE IF L.interrupted THEN [L EXCEPT !.pc[s] = "returned", !.interrupted = FALSE]
    ELSE IF q = <<>> THEN [L EXCEPT !.pc[s] = "model", !.state = "WORKING"]
    ELSE [L EXCEPT !.pc[s] = "flush", !.state = "WORKING",
                   !.flushing = @ \cup {s},
                   !.history = @ \o [i \in 1..Len(q) |-> UserEntry(q[i])]]

\* Faulty variants: a request during a step leaves no trace; the step in flight
\* is not looked at.
EnsureProcessingForgets(L, q) ==
    IF InFlight(L) THEN L
    ELSE LET s == CHOOSE x \in IdleSteps(L) : TRUE
         IN [BeginStep([L EXCEPT !.next = FALSE, !.overdue = FALSE], s, q) EXCEPT !.promise = s]

EnsureProcessingBlind(L, q) ==
    IF IdleSteps(L) = {} THEN [L EXCEPT !.next = TRUE]
    ELSE LET s == CHOOSE x \in IdleSteps(L) : TRUE
         IN [BeginStep([L EXCEPT !.next = FALSE, !.overdue = FALSE], s, q) EXCEPT !.promise = s]

\* ensureProcessing(): with a step in flight and not overdue only a flag is set;
\* otherwise the promise, if any, is forgotten and a new step begins.
EnsureProcessing(L, q) ==
    IF InFlight(L)
    THEN [L EXCEPT !.next = TRUE]
    ELSE LET s == CHOOSE x \in IdleSteps(L) : TRUE
         IN [BeginStep([L EXCEPT !.next = FALSE, !.overdue = FALSE], s, q)
                EXCEPT !.promise = s]

----------------------------------------------------------------------------
(* Calls of the API.  executeTools hands its calls to the runner in one     *)
(* synchronous loop: while `dispatch` is not empty nothing else runs.       *)

Quiet == dispatch = <<>>

IsNext(m) == kind[m] = "unsent" /\ \A k \in 1..(m - 1) : kind[k] # "unsent"

NextMessage == CHOOSE m \in Messages : IsNext(m)

MayEnqueue == Quiet /\ \E m \in Messages : IsNext(m)

MayGoWrong == env.interrupts + env.timeouts + env.faults + env.crashes < MaxTroubles

\* chat(): send() a user message and wait for the next done event.
Send ==
    /\ MayEnqueue
    /\ CanEnsure(loop)
    /\ pending' = Append(pending, NextMessage)
    /\ kind' = [kind EXCEPT ![NextMessage] = "user"]
    /\ waiters' = waiters \cup {NextMessage}
    /\ loop' = EnsureProcessing(loop, pending')
    /\ UNCHANGED <<turn, dispatch, runnerVars, callVars, interrupting, env>>

\* remind(): queued for the next step, starts none.
Remind ==
    /\ MayEnqueue
    /\ pending' = Append(pending, NextMessage)
    /\ kind' = [kind EXCEPT ![NextMessage] = "reminder"]
    /\ UNCHANGED <<loop, waiters, turn, dispatch, runnerVars, callVars, interrupting, env>>

\* decide(): the waiter is resolved, the record updated and, for a denial, the
\* agent declared READY although its step is still running.
Decide(c, d) ==
    /\ Quiet
    /\ call[c] = "waiting"
    /\ call' = [call EXCEPT ![c] = "decided"]
    /\ approval' = [approval EXCEPT ![c] = d]
    /\ \/ /\ d = "allow"
          /\ CanEnsure(loop)
          /\ rec' = [rec EXCEPT ![c] = "APPROVED"]
          /\ loop' = EnsureProcessing([loop EXCEPT !.state = "WORKING"], pending)
       \/ /\ d = "deny"
          /\ rec' = [rec EXCEPT ![c] = "DENIED"]
          /\ loop' = [loop EXCEPT !.state = "READY"]
    /\ UNCHANGED <<pending, kind, waiters, turn, dispatch, runnerVars, interrupting, env>>

Answered(h) == UNION {h[i].uses : i \in {j \in 1..Len(h) : h[j].role = "results"}}

\* The calls appendSyntheticToolResults seals: those of a trailing assistant
\* message that no tool_result answers.
Sealable(h) ==
    IF h # <<>> /\ h[Len(h)].role = "assistant" THEN h[Len(h)].uses \ Answered(h) ELSE {}

\* interrupt(), to its first await: raise the flag, clear the runner's queue,
\* abort the controllers (how an aborted tool ends is Execute's choice) and
\* answer the open calls with synthetic results (a call without a record yet is
\* answered and not sealed).
Interrupt ==
    LET cs == Sealable(loop.history) IN
    /\ Quiet
    /\ env.interrupts < MaxInterrupts /\ MayGoWrong
    /\ interrupting = "no"
    /\ interrupting' = IF cs = {} THEN "plain" ELSE "sealing"
    /\ env' = [env EXCEPT !.interrupts = @ + 1]
    /\ rec' = [c \in Calls |-> IF c \in cs /\ rec[c] # "none" THEN "SEALED" ELSE rec[c]]
    /\ loop' = [loop EXCEPT !.interrupted = TRUE,
                            !.history = IF cs = {} THEN @ ELSE Append(@, Results(cs))]
    /\ Runner!Clear
    /\ UNCHANGED <<pending, kind, waiters, turn, dispatch, call, approval>>

\* Its saves, if any, are done: READY, whatever the step in flight is doing.
InterruptSaved ==
    /\ Quiet
    /\ interrupting # "no"
    /\ interrupting' = "no"
    /\ loop' = [loop EXCEPT !.state = "READY"]
    /\ UNCHANGED <<pending, kind, waiters, turn, dispatch, runnerVars, callVars, env>>

\* The clock passes PROCESSING_TIMEOUT after the start of the step in flight.
TimePasses ==
    /\ Quiet
    /\ env.timeouts < MaxTimeouts /\ MayGoWrong
    /\ loop.promise # NoStep /\ ~loop.overdue
    /\ loop' = [loop EXCEPT !.overdue = TRUE]
    /\ env' = [env EXCEPT !.timeouts = @ + 1]
    /\ UNCHANGED <<pending, kind, waiters, turn, dispatch, runnerVars, callVars, interrupting>>

----------------------------------------------------------------------------
(* runStep(), one action per await.                                         *)

At(s, pc) == Quiet /\ loop.pc[s] = pc

Goto(s, pc) == [loop EXCEPT !.pc[s] = pc]

Fault == /\ env.faults < MaxFaults /\ MayGoWrong
         /\ env' = [env EXCEPT !.faults = @ + 1]

\* flush() after its save: this.pending.filter(not in queue).  `queue` is the
\* same array as this.pending unless another flush replaced that meanwhile, so
\* the filter also drops what was sent during the save.
Flushed(s) ==
    /\ At(s, "flush")
    /\ \/ s \in loop.flushing /\ pending' = <<>>
       \/ s \notin loop.flushing /\ UNCHANGED pending
    /\ loop' = [Goto(s, "model") EXCEPT !.flushing = IF s \in @ THEN {} ELSE @]
    /\ UNCHANGED <<kind, waiters, turn, dispatch, runnerVars, callVars, interrupting, env>>

\* Faulty variant: ids may be those of an earlier process.
UnaskedSinceBoot == {c \in Calls : call[c] = "unused" /\ slot[c] = "new" /\ \A t \in Steps : c \notin turn[t]}

\* tool_use ids are never repeated.
Unasked == {c \in Calls : \A i \in 1..Len(loop.history) :
                             loop.history[i].role = "assistant" => c \notin loop.history[i].uses}

\* The model's stream ends: its message joins the history.
ModelTurn(s) ==
    /\ At(s, "model")
    /\ \E cs \in SUBSET Unasked :
          /\ loop' = [Goto(s, "saveTurn") EXCEPT !.history = Append(@, Assistant(cs))]
          /\ turn' = [turn EXCEPT ![s] = cs]
    /\ UNCHANGED <<pending, kind, waiters, dispatch, runnerVars, callVars, interrupting, env>>

\* The done event of a step: every chat() that waits returns.
EmitDone(s, pc) ==
    /\ loop' = Goto(s, pc)
    /\ waiters' = {}

\* The message is saved: tools to run, or the step is done.
TurnSaved(s) ==
    /\ At(s, "saveTurn")
    /\ \/ /\ turn[s] = {}
          /\ EmitDone(s, "saveInfo")
          /\ UNCHANGED dispatch
       \/ /\ turn[s] # {}
          /\ loop' = Goto(s, "tools")
          /\ dispatch' \in {q \in [1..Cardinality(turn[s]) -> turn[s]] :
                               \A i, j \in DOMAIN q : q[i] = q[j] => i = j}
          /\ UNCHANGED waiters
    /\ UNCHANGED <<pending, kind, turn, runnerVars, callVars, interrupting, env>>

\* Promise.all over the calls of the turn has resolved.
ToolsJoined(s) ==
    /\ At(s, "tools")
    /\ \A c \in turn[s] : slot[c] \in {"releasing", "done"} /\ call[c] = "returned"
    /\ loop' = Goto(s, "saveRecords")
    /\ UNCHANGED <<pending, kind, waiters, turn, dispatch, runnerVars, callVars, interrupting, env>>

\* Faulty variant: only successful calls are answered.
RecordsSavedPartly(s) ==
    /\ At(s, "saveRecords")
    /\ loop' = [Goto(s, "saveResults") EXCEPT
                    !.history = Append(@, Results({c \in turn[s] : rec[c] = "COMPLETED"}))]
    /\ UNCHANGED <<pending, kind, waiters, turn, dispatch, runnerVars, callVars, interrupting, env>>

\* The records are saved; the outcomes, in the order of the calls, become one
\* user message.
RecordsSaved(s) ==
    /\ At(s, "saveRecords")
    /\ loop' = [Goto(s, "saveResults") EXCEPT !.history = Append(@, Results(turn[s]))]
    /\ UNCHANGED <<pending, kind, waiters, turn, dispatch, runnerVars, callVars, interrupting, env>>

\* Faulty variant: no further round is asked for.
ResultsSavedLast(s) ==
    /\ At(s, "saveResults")
    /\ loop' = [Goto(s, "returned") EXCEPT !.state = "READY"]
    /\ turn' = [turn EXCEPT ![s] = {}]
    /\ UNCHANGED <<pending, kind, waiters, dispatch, runnerVars, callVars, interrupting, env>>

\* The results are saved: ask for another round, return, and (finally) READY.
ResultsSaved(s) ==
    /\ At(s, "saveResults")
    /\ CanEnsure(loop)
    /\ loop' = [EnsureProcessing(loop, pending) EXCEPT !.pc[s] = "returned", !.state = "READY"]
    /\ turn' = [turn EXCEPT ![s] = {}]
    /\ UNCHANGED <<pending, kind, waiters, dispatch, runnerVars, callVars, interrupting, env>>

\* persistInfo after the done event, whether it succeeds or its failure is
\* caught (done is not emitted twice); then finally.
InfoSaved(s) ==
    /\ \/ At(s, "saveInfo")
       \/ At(s, "saveInfoAfterError")
    /\ loop' = [Goto(s, "returned") EXCEPT !.state = "READY"]
    /\ turn' = [turn EXCEPT ![s] = {}]
    /\ UNCHANGED <<pending, kind, waiters, dispatch, runnerVars, callVars, interrupting, env>>

\* Faulty variant: the catch block ends no turn.
StepFailsSilently(s) ==
    /\ \E pc \in {"flush", "model", "saveTurn", "saveRecords", "saveResults"} : At(s, pc)
    /\ Fault
    /\ loop' = [Goto(s, "saveInfoAfterError") EXCEPT !.flushing = @ \ {s}]
    /\ UNCHANGED <<pending, kind, waiters, turn, dispatch, runnerVars, callVars, interrupting>>

\* A save, a hook or the model request throws: the catch block emits done.  A
\* failed flush keeps its queue.
StepFails(s) ==
    /\ \E pc \in {"flush", "model", "saveTurn", "saveRecords", "saveResults"} : At(s, pc)
    /\ Fault
    /\ loop' = [Goto(s, "saveInfoAfterError") EXCEPT !.flushing = @ \ {s}]
    /\ waiters' = {}
    /\ UNCHANGED <<pending, kind, turn, dispatch, runnerVars, callVars, interrupting>>

\* One call threw, so Promise.all rejects although others may still run.
ToolsRejected(s) ==
    /\ At(s, "tools")
    /\ \E c \in turn[s] : call[c] = "threw" /\ slot[c] \in {"releasing", "done"}
    /\ EmitDone(s, "saveInfoAfterError")
    /\ UNCHANGED <<pending, kind, turn, dispatch, runnerVars, callVars, interrupting, env>>

\* persistInfo in the catch block throws: runStep rejects, after its finally.
RescueFails(s) ==
    /\ At(s, "saveInfoAfterError")
    /\ Fault
    /\ loop' = [Goto(s, "rejected") EXCEPT !.state = "READY"]
    /\ turn' = [turn EXCEPT ![s] = {}]
    /\ UNCHANGED <<pending, kind, waiters, dispatch, runnerVars, callVars, interrupting>>

\* .finally of the promise: forget the promise (whichever step it is now) and
\* start the round that was asked for.
Finally(s) ==
    LET L == [loop EXCEPT !.promise = NoStep,
                          !.pc[s] = IF @ = "rejected" THEN "catching" ELSE "idle"]
    IN
    /\ Quiet
    /\ loop.pc[s] \in {"returned", "rejected"}
    /\ \/ loop.next /\ CanEnsure(L) /\ loop' = EnsureProcessing(L, pending)
       \/ ~loop.next /\ loop' = L
    /\ UNCHANGED <<pending, kind, waiters, turn, dispatch, runnerVars, callVars, interrupting, env>>

\* .catch of the promise.
Catch(s) ==
    /\ At(s, "catching")
    /\ loop' = [Goto(s, "idle") EXCEPT !.state = "READY"]
    /\ UNCHANGED <<pending, kind, waiters, turn, dispatch, runnerVars, callVars, interrupting, env>>

----------------------------------------------------------------------------
(* Tool calls.                                                              *)

\* A call the runner starts registers its record in the same turn.
Started == {c \in Calls : slot[c] # "running" /\ slot'[c] = "running"}

RegisterStarted ==
    /\ call' = [c \in Calls |-> IF c \in Started THEN "checking" ELSE call[c]]
    /\ rec' = [c \in Calls |-> IF c \in Started THEN "PENDING" ELSE rec[c]]
    /\ approval' = [c \in Calls |-> IF c \in Started THEN "none" ELSE approval[c]]

\* executeTools: toolRunner.run() for the next call of the turn.
Dispatch ==
    /\ dispatch # <<>>
    /\ dispatch' = Tail(dispatch)
    /\ Runner!Run(Head(dispatch))
    /\ RegisterStarted
    /\ UNCHANGED <<loop, pending, kind, waiters, turn, interrupting, env>>

\* Faulty variant: the slot is given back and no queued call takes it.
ReleaseOnly(c) ==
    /\ Quiet
    /\ slot[c] = "releasing"
    /\ active' = active - 1
    /\ slot' = [slot EXCEPT ![c] = "done"]
    /\ UNCHANGED <<loopVars, queue, callVars, interrupting, env>>

\* The runner's finally callback, which may start a queued call.
Release(c) ==
    /\ Quiet
    /\ Runner!Release(c)
    /\ RegisterStarted
    /\ UNCHANGED <<loopVars, interrupting, env>>

\* The promise of the call settles.
Settle(c) ==
    /\ Quiet
    /\ call[c] \in {"returned", "threw"}
    /\ Runner!Settle(c)
    /\ UNCHANGED <<loopVars, callVars, interrupting, env>>

CallGoes(c, pc, state) ==
    /\ call' = [call EXCEPT ![c] = pc]
    /\ rec' = [rec EXCEPT ![c] = state]
    /\ UNCHANGED <<loopVars, runnerVars, interrupting, env>>

\* Tool lookup, argument validation, policy and preToolUse hooks: the call is
\* refused, answered by the hook, sent to approval or executed.
Check(c) ==
    /\ Quiet
    /\ call[c] = "checking"
    /\ \/ CallGoes(c, "returned", "FAILED") /\ UNCHANGED approval
       \/ CallGoes(c, "returned", "DENIED") /\ approval' = [approval EXCEPT ![c] = "deny"]
       \/ CallGoes(c, "returned", "COMPLETED") /\ UNCHANGED approval
       \/ CallGoes(c, "saveApproval", "APPROVAL_REQUIRED")
          /\ approval' = [approval EXCEPT ![c] = "required"]
       \/ CallGoes(c, "executing", "EXECUTING") /\ UNCHANGED approval

\* Faulty variant: a breakpoint's name is used for the runtime state.
ApprovalSavedAs(c) ==
    /\ Quiet
    /\ call[c] = "saveApproval"
    /\ call' = [call EXCEPT ![c] = "waiting"]
    /\ loop' = [loop EXCEPT !.state = "AWAITING_APPROVAL"]
    /\ UNCHANGED <<pending, kind, waiters, turn, dispatch, runnerVars, rec, approval, interrupting, env>>

\* requestPermission after its save: publish the request and pause.
ApprovalSaved(c) ==
    /\ Quiet
    /\ call[c] = "saveApproval"
    /\ call' = [call EXCEPT ![c] = "waiting"]
    /\ loop' = [loop EXCEPT !.state = "PAUSED"]
    /\ UNCHANGED <<pending, kind, waiters, turn, dispatch, runnerVars, rec, approval, interrupting, env>>

\* Faulty variant: a decision of either kind lets the call go on.
ProceedAnyway(c) ==
    /\ Quiet
    /\ call[c] = "decided"
    /\ CallGoes(c, "executing", "EXECUTING")
    /\ UNCHANGED approval

\* processToolCall continues with the decision.
Proceed(c) ==
    /\ Quiet
    /\ call[c] = "decided"
    /\ \/ approval[c] = "deny" /\ CallGoes(c, "returned", "DENIED")
       \/ approval[c] = "allow" /\ CallGoes(c, "executing", "EXECUTING")
    /\ UNCHANGED approval

\* tool.exec and the postToolUse hooks end, well or not (failure, abort,
\* timeout): always with a result.
Execute(c) ==
    /\ Quiet
    /\ call[c] = "executing"
    /\ \E state \in {"COMPLETED", "FAILED"} : CallGoes(c, "returned", state)
    /\ UNCHANGED approval

\* A preToolUse hook or the save of an approval request throws; no handler in
\* processToolCall covers it.
CallThrows(c) ==
    /\ Quiet
    /\ call[c] \in {"checking", "saveApproval"}
    /\ Fault
    /\ call' = [call EXCEPT ![c] = "threw"]
    /\ UNCHANGED <<loopVars, runnerVars, rec, approval, interrupting>>

----------------------------------------------------------------------------

StepNext(s) ==
    \/ Flushed(s) \/ ModelTurn(s) \/ TurnSaved(s) \/ ToolsJoined(s)
    \/ RecordsSaved(s) \/ ResultsSaved(s) \/ InfoSaved(s)
    \/ ToolsRejected(s) \/ Finally(s) \/ Catch(s)

CallNext(c) ==
    Check(c) \/ ApprovalSaved(c) \/ Proceed(c) \/ Execute(c) \/ Settle(c) \/ Release(c)

Faults ==
    \/ \E s \in Steps : StepFails(s) \/ RescueFails(s)
    \/ \E c \in Calls : CallThrows(c)

Next ==
    \/ Send \/ Remind
    \/ \E c \in Calls : Decide(c, "allow") \/ Decide(c, "deny")
    \/ Interrupt \/ InterruptSaved \/ TimePasses
    \/ \E s \in Steps : StepNext(s)
    \/ Dispatch
    \/ \E c \in Calls : CallNext(c)
    \/ Faults

Spec == Init /\ [][Next]_vars

\* The event loop runs every callback that is due; saves and model streams end;
\* a tool ends by itself or by its timeout.  Nothing obliges a user to send,
\* to interrupt or to decide.
Fairness ==
    /\ \A s \in Steps : WF_vars(StepNext(s))
    /\ \A c \in Calls : WF_vars(CallNext(c))
    /\ WF_vars(Dispatch)
    /\ WF_vars(InterruptSaved)

FairSpec == Spec /\ Fairness

----------------------------------------------------------------------------

\* The steps between their start and their return.
Working == {s \in Steps : loop.pc[s] \notin {"idle", "returned", "rejected", "catching"}}

\* One step at a time talks to the model and appends to the history, although
\* decide() and interrupt() declare the agent READY in the middle of a step.
\* (Unless the clock forced a restart.)
SingleRunner == env.timeouts = 0 => Cardinality(Working) <= 1

\* No interrupt(), no step beyond PROCESSING_TIMEOUT and no failure so far.
Untroubled == env = [interrupts |-> 0, timeouts |-> 0, faults |-> 0, crashes |-> 0]

\* When nothing is left to run, no user message waits in the queue: a send that
\* falls anywhere into a step, its finally or its callbacks starts a round.
\* (Each of the three troubles can swallow that round.)
NoStrandedMessage ==
    (Untroubled /\ \A s \in Steps : loop.pc[s] = "idle")
        => \A i \in 1..Len(pending) : kind[pending[i]] = "reminder"

\* User messages and reminders first reach the history in the order they were
\* sent.  (A repeated flush may add them once more.)
SendOrder ==
    \A i, j \in {k \in 1..Len(loop.history) : loop.history[k].role = "user"} :
        (i < j /\ loop.history[j].msg < loop.history[i].msg)
            => \E k \in 1..(i - 1) : loop.history[k] = loop.history[j]

\* What users and the application say gets through: none is stranded, and they
\* reach the history in order.
MessagesGetThrough == NoStrandedMessage /\ SendOrder

\* What the model is sent: every message with tool calls is followed by one
\* message that answers exactly these calls, and every answer has its question.
\* (An interrupt answers calls that go on and answer again; a step beyond its time
\* goes on beside the next; a failed one leaves its calls open.)
WellFormed(h) ==
    /\ \A i \in 1..Len(h) :
          (h[i].role = "assistant" /\ h[i].uses # {})
              => i < Len(h) /\ h[i + 1] = Results(h[i].uses)
    /\ \A i \in 1..Len(h) :
          h[i].role = "results" => i > 1 /\ h[i - 1] = Assistant(h[i].uses)

ModelSeesAnsweredCalls ==
    (Untroubled /\ \E s \in Steps : loop.pc[s] = "model") => WellFormed(loop.history)

\* A call that had to be approved executes only after decide("allow"), whatever
\* interrupt, restart or failure comes between the request and the decision.
ConsentBeforeExecution ==
    \A c \in Calls : call[c] = "executing" => approval[c] \in {"none", "allow"}

\* A message that was sent is in the queue or in the history.
NoMessageLost ==
    \A m \in Messages :
        kind[m] # "unsent" =>
            \/ \E i \in 1..Len(pending) : pending[i] = m
            \/ \E i \in 1..Len(loop.history) : loop.history[i] = UserEntry(m)

\* If every approval request is decided, every chat() returns.
EveryChatReturns ==
    []<>(\A c \in Calls : call[c] # "waiting")
        => \A m \in Messages : (m \in waiters) ~> (m \notin waiters)

\* Failures of a step never leave a chat() waiting: whatever save, hook or model
\* request fails, the rescue of an earlier failure included, a done event follows.
\* (Unless a tool call itself threw, see the run stuck_agent, or an interrupt()
\* or a forced restart came in.)
ChatSurvivesFaults ==
    [](/\ env.interrupts = 0 /\ env.timeouts = 0
       /\ \A c \in Calls : call[c] # "threw")
        => EveryChatReturns

\* The loop uses the runner only through run(), clear() and its own callbacks.
UsesRunner == Runner!RunnerSpec

=============================================================================
