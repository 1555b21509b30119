-------------------------- MODULE AgentLoop_proofs --------------------------
(***************************************************************************)
(* Theorems about AgentLoop for every set of calls, every limit and every  *)
(* bound on the environment.                                               *)
(***************************************************************************)
EXTENDS AgentLoop, FiniteSetTheorems, SequenceTheorems, TLAPS

----------------------------------------------------------------------------
(* Type correctness.                                                        *)

\* Messages with tool calls, and with their results, are entries of the history.
LEMMA EntriesOfCalls ==
    ASSUME NEW cs \in SUBSET Calls
    PROVE  Assistant(cs) \in Entries /\ Results(cs) \in Entries
BY DEF Assistant, Results, Entries

\* The queue, as it enters the history.
LEMMA EntriesOfQueue ==
    ASSUME NEW q \in Seq(Messages)
    PROVE  [i \in 1..Len(q) |-> UserEntry(q[i])] \in Seq(Entries)
<1>1. \A i \in 1..Len(q) : UserEntry(q[i]) \in Entries
  BY DEF UserEntry, Entries
<1>2. Len(q) \in Nat
  OBVIOUS
<1> QED BY <1>1, <1>2

\* A new step finds an identity that is not in use.
LEMMA NewStep ==
    ASSUME NEW L \in Loops, CanEnsure(L), ~InFlight(L)
    PROVE  LET s == CHOOSE x \in IdleSteps(L) : TRUE IN s \in Steps /\ L.pc[s] = "idle"
BY DEF CanEnsure, IdleSteps

\* Types over the part of runStep() before its first await.
LEMMA BeginStepType ==
    ASSUME NEW L \in Loops, NEW s \in Steps, NEW q \in Seq(Messages)
    PROVE  BeginStep(L, s, q) \in Loops
<1> DEFINE new == [i \in 1..Len(q) |-> UserEntry(q[i])]
<1>1. L.history \o new \in Seq(Entries)
  BY EntriesOfQueue DEF Loops
<1> HIDE DEF new
<1>2. CASE L.state # "READY" \/ L.interrupted \/ q = <<>>
  BY <1>2 DEF BeginStep, Loops, StepPcs
<1>3. CASE ~(L.state # "READY" \/ L.interrupted \/ q = <<>>)
  <2>1. BeginStep(L, s, q) = [L EXCEPT !.pc[s] = "flush", !.state = "WORKING",
                                       !.flushing = @ \cup {s}, !.history = @ \o new]
    BY <1>3 DEF BeginStep, new
  <2>2. L.flushing \cup {s} \in SUBSET Steps
    BY DEF Loops
  <2>3. [L.pc EXCEPT ![s] = "flush"] \in [Steps -> StepPcs]
    BY DEF Loops, StepPcs
  <2>4. BeginStep(L, s, q) = [L EXCEPT !.pc = [L.pc EXCEPT ![s] = "flush"], !.state = "WORKING",
                                       !.flushing = L.flushing \cup {s},
                                       !.history = L.history \o new]
    BY <2>1
  <2> QED BY <2>2, <2>3, <2>4, <1>1 DEF Loops
<1> QED BY <1>2, <1>3

\* Types over ensureProcessing().
LEMMA EnsureType ==
    ASSUME NEW L \in Loops, NEW q \in Seq(Messages), CanEnsure(L)
    PROVE  EnsureProcessing(L, q) \in Loops
<1>1. CASE InFlight(L)
  BY <1>1 DEF EnsureProcessing, Loops
<1>2. CASE ~InFlight(L)
  <2> DEFINE s == CHOOSE x \in IdleSteps(L) : TRUE
             M == [L EXCEPT !.next = FALSE, !.overdue = FALSE]
  <2>1. s \in Steps
    BY <1>2, NewStep
  <2>2. M \in Loops
    BY DEF Loops
  <2>3. BeginStep(M, s, q) \in Loops
    BY <2>1, <2>2, BeginStepType
  <2>4. EnsureProcessing(L, q) = [BeginStep(M, s, q) EXCEPT !.promise = s]
    BY <1>2 DEF EnsureProcessing
  <2> HIDE DEF s, M
  <2> QED BY <2>1, <2>3, <2>4 DEF Loops
<1> QED BY <1>1, <1>2

\* Types hold at first.
LEMMA TypeInit == Init => TypeOK
<1> SUFFICES ASSUME Init PROVE TypeOK
  OBVIOUS
<1>1. loop \in Loops
  BY DEF Init, Loops, StepPcs, NoStep
<1> QED BY <1>1 DEF Init, TypeOK, CallPcs, RecordStates

\* Calls of the API and the clock.
LEMMA TypeSend ==
    ASSUME TypeOK, Send \/ Remind
    PROVE  TypeOK'
<1> USE DEF TypeOK
<1>1. NextMessage \in Messages
  BY DEF Send, Remind, MayEnqueue, NextMessage
<1>2. pending' \in Seq(Messages) /\ kind' \in [Messages -> {"unsent", "user", "reminder"}]
  <2>1. pending' = Append(pending, NextMessage)
    BY DEF Send, Remind
  <2>2. \E k \in {"user", "reminder"} : kind' = [kind EXCEPT ![NextMessage] = k]
    BY DEF Send, Remind
  <2>3. pending \in Seq(Messages) /\ kind \in [Messages -> {"unsent", "user", "reminder"}]
    OBVIOUS
  <2> HIDE DEF TypeOK
  <2> QED BY <1>1, <2>1, <2>2, <2>3
<1>3. CASE Send
  <2>1. loop' \in Loops
    BY <1>2, <1>3, EnsureType DEF Send
  <2> QED BY <1>1, <1>2, <1>3, <2>1 DEF Send, callVars
<1>4. CASE Remind
  BY <1>2, <1>4 DEF Remind, callVars
<1> QED BY <1>3, <1>4

\* Types over interrupt() and the clock.
LEMMA TypeInterrupt ==
    ASSUME TypeOK, Interrupt \/ InterruptSaved \/ TimePasses
    PROVE  TypeOK'
<1>0. loop \in Loops
  BY DEF TypeOK
<1>1. CASE Interrupt
  <2> DEFINE cs == Sealable(loop.history)
  <2>1. cs \in SUBSET Calls
    <3>1. loop.history \in Seq(Entries)
      BY <1>0 DEF Loops
    <3>2. CASE loop.history # <<>> /\ loop.history[Len(loop.history)].role = "assistant"
      <4>1. loop.history[Len(loop.history)] \in Entries
        BY <3>1, <3>2
      <4> QED BY <4>1, <3>2 DEF Sealable, Entries
    <3> QED BY <3>2 DEF Sealable
  <2>2. Append(loop.history, Results(cs)) \in Seq(Entries)
    BY <2>1, <1>0, EntriesOfCalls DEF Loops
  <2> HIDE DEF cs
  <2>3. loop' \in Loops
    BY <1>0, <1>1, <2>2 DEF Interrupt, Loops, cs
  <2>4. rec' \in [Calls -> RecordStates] /\ interrupting' \in {"no", "plain", "sealing"}
    BY <1>1 DEF Interrupt, RecordStates, TypeOK
  <2>5. env' \in [interrupts : Nat, timeouts : Nat, faults : Nat, crashes : Nat]
    <3>1. env' = [env EXCEPT !.interrupts = @ + 1]
      BY <1>1 DEF Interrupt
    <3>2. env \in [interrupts : Nat, timeouts : Nat, faults : Nat, crashes : Nat]
      BY DEF TypeOK
    <3> QED BY <3>1, <3>2
  <2>6. UNCHANGED <<pending, kind, waiters, turn, dispatch, call, approval>>
    BY <1>1 DEF Interrupt
  <2> QED BY <2>3, <2>4, <2>5, <2>6 DEF TypeOK
<1>2. CASE InterruptSaved
  <2>1. loop' \in Loops
    BY <1>0, <1>2 DEF InterruptSaved, Loops
  <2> QED BY <1>2, <2>1 DEF InterruptSaved, callVars, runnerVars, TypeOK
<1>3. CASE TimePasses
  <2>1. loop' \in Loops
    BY <1>0, <1>3 DEF TimePasses, Loops
  <2>2. env' \in [interrupts : Nat, timeouts : Nat, faults : Nat, crashes : Nat]
    BY <1>3 DEF TimePasses, TypeOK
  <2>3. UNCHANGED <<pending, kind, waiters, turn, dispatch, callVars, interrupting>>
    BY <1>3 DEF TimePasses
  <2> QED BY <2>1, <2>2, <2>3 DEF TypeOK, callVars
<1> QED BY <1>1, <1>2, <1>3

\* Types over decide().
LEMMA TypeDecide ==
    ASSUME TypeOK, NEW c \in Calls, NEW d \in {"allow", "deny"}, Decide(c, d)
    PROVE  TypeOK'
<1>0. loop \in Loops
  BY DEF TypeOK
<1>1. loop' \in Loops
  <2>1. CASE d = "allow"
    <3> DEFINE L == [loop EXCEPT !.state = "WORKING"]
    <3>1. L \in Loops
      BY <1>0 DEF Loops
    <3>2. CanEnsure(L)
      BY <1>0, <2>1 DEF Decide, Loops, CanEnsure, InFlight, IdleSteps
    <3>3. loop' = EnsureProcessing(L, pending)
      BY <2>1 DEF Decide
    <3> QED BY <3>1, <3>2, <3>3, EnsureType DEF TypeOK
  <2>2. CASE d = "deny"
    <3>1. loop' = [loop EXCEPT !.state = "READY"]
      BY <2>2 DEF Decide
    <3> QED BY <1>0, <3>1 DEF Loops
  <2> QED BY <2>1, <2>2
<1>2. call' \in [Calls -> CallPcs] /\ rec' \in [Calls -> RecordStates]
  BY DEF Decide, CallPcs, RecordStates, TypeOK
<1>3. approval' \in [Calls -> {"none", "required", "allow", "deny"}]
  BY DEF Decide, TypeOK
<1> QED BY <1>1, <1>2, <1>3 DEF Decide, TypeOK

----------------------------------------------------------------------------
\* Steps of the loop.

\* A step that goes on changes its program counter only.
LEMMA GotoType ==
    ASSUME loop \in Loops, NEW s \in Steps, NEW pc \in StepPcs
    PROVE  /\ Goto(s, pc) \in Loops
           /\ Goto(s, pc).history = loop.history
           /\ Goto(s, pc).flushing = loop.flushing
<1>1. [loop.pc EXCEPT ![s] = pc] \in [Steps -> StepPcs]
  BY DEF Loops
<1>2. Goto(s, pc) = [loop EXCEPT !.pc = [loop.pc EXCEPT ![s] = pc]]
  BY DEF Goto
<1> QED BY <1>1, <1>2 DEF Loops

\* A failure counts as one.
LEMMA TypeFault ==
    ASSUME TypeOK, Fault
    PROVE  env' \in [interrupts : Nat, timeouts : Nat, faults : Nat, crashes : Nat]
<1>1. env' = [env EXCEPT !.faults = @ + 1]
  BY DEF Fault
<1>2. env \in [interrupts : Nat, timeouts : Nat, faults : Nat, crashes : Nat]
  BY DEF TypeOK
<1> QED BY <1>1, <1>2

\* Types over the end of a flush.
LEMMA TypeFlushed ==
    ASSUME TypeOK, NEW s \in Steps, Flushed(s)
    PROVE  TypeOK'
<1>1. loop' \in Loops
  <2>1. Goto(s, "model") \in Loops
    BY GotoType DEF StepPcs, TypeOK
  <2> QED BY <2>1 DEF Flushed, Loops
<1>2. pending' \in Seq(Messages)
  <2>1. pending' = <<>> \/ pending' = pending
    BY DEF Flushed
  <2>2. pending \in Seq(Messages) /\ <<>> \in Seq(Messages)
    BY DEF TypeOK
  <2> QED BY <2>1, <2>2
<1> QED BY <1>1, <1>2 DEF Flushed, TypeOK, callVars

\* Types over a turn of the model.
LEMMA TypeModelTurn ==
    ASSUME TypeOK, NEW s \in Steps, ModelTurn(s)
    PROVE  TypeOK'
<1>1. PICK cs \in SUBSET Unasked :
          /\ loop' = [Goto(s, "saveTurn") EXCEPT !.history = Append(@, Assistant(cs))]
          /\ turn' = [turn EXCEPT ![s] = cs]
  BY DEF ModelTurn
<1>2. cs \in SUBSET Calls
  BY DEF Unasked
<1>3. loop' \in Loops
  <2>1. Goto(s, "saveTurn") \in Loops
    BY GotoType DEF StepPcs, TypeOK
  <2>2. Append(Goto(s, "saveTurn").history, Assistant(cs)) \in Seq(Entries)
    BY <1>2, <2>1, EntriesOfCalls DEF Loops
  <2> QED BY <1>1, <2>1, <2>2 DEF Loops
<1>4. turn' \in [Steps -> SUBSET Calls]
  BY <1>1, <1>2 DEF TypeOK
<1> QED BY <1>3, <1>4 DEF ModelTurn, TypeOK, callVars

\* Types over the save of the model's message.
LEMMA TypeTurnSaved ==
    ASSUME TypeOK, NEW s \in Steps, TurnSaved(s)
    PROVE  TypeOK'
<1>1. Goto(s, "saveInfo") \in Loops /\ Goto(s, "tools") \in Loops
  BY GotoType DEF StepPcs, TypeOK
<1>2. loop' \in Loops /\ waiters' \in SUBSET Messages
  BY <1>1 DEF TurnSaved, EmitDone, TypeOK
<1>3. dispatch' \in Seq(Calls)
  <2>1. IsFiniteSet(turn[s]) /\ turn[s] \in SUBSET Calls
    BY CallsAssumption, FS_Subset DEF TypeOK
  <2>2. Cardinality(turn[s]) \in Nat
    BY <2>1, FS_CardinalityType
  <2>3. \A q \in [1..Cardinality(turn[s]) -> turn[s]] : q \in Seq(Calls)
    BY <2>1, <2>2
  <2> QED BY <2>3 DEF TurnSaved, TypeOK
<1> QED BY <1>2, <1>3 DEF TurnSaved, TypeOK, callVars

\* Types over the end of the tools.
LEMMA TypeTools ==
    ASSUME TypeOK, NEW s \in Steps, ToolsJoined(s) \/ RecordsSaved(s) \/ ToolsRejected(s)
    PROVE  TypeOK'
<1>1. CASE ToolsJoined(s)
  <2>1. loop' \in Loops
    BY <1>1, GotoType DEF ToolsJoined, StepPcs, TypeOK
  <2> QED BY <1>1, <2>1 DEF ToolsJoined, TypeOK, callVars
<1>2. CASE RecordsSaved(s)
  <2>1. Goto(s, "saveResults") \in Loops
    BY GotoType DEF StepPcs, TypeOK
  <2>2. Append(Goto(s, "saveResults").history, Results(turn[s])) \in Seq(Entries)
    BY <2>1, EntriesOfCalls DEF Loops, TypeOK
  <2>3. loop' \in Loops
    BY <1>2, <2>1, <2>2 DEF RecordsSaved, Loops
  <2> QED BY <1>2, <2>3 DEF RecordsSaved, TypeOK, callVars
<1>3. CASE ToolsRejected(s)
  <2>1. loop' \in Loops /\ waiters' = {}
    BY <1>3, GotoType DEF ToolsRejected, EmitDone, StepPcs, TypeOK
  <2> QED BY <1>3, <2>1 DEF ToolsRejected, TypeOK, callVars
<1> QED BY <1>1, <1>2, <1>3

\* The steps that end a turn.
LEMMA TypeStepEnds ==
    ASSUME TypeOK, NEW s \in Steps, ResultsSaved(s) \/ InfoSaved(s) \/ RescueFails(s)
    PROVE  TypeOK'
<1>1. turn' \in [Steps -> SUBSET Calls]
  <2>1. turn' = [turn EXCEPT ![s] = {}]
    BY DEF ResultsSaved, InfoSaved, RescueFails
  <2> QED BY <2>1 DEF TypeOK
<1>2. env' \in [interrupts : Nat, timeouts : Nat, faults : Nat, crashes : Nat]
  BY TypeFault DEF ResultsSaved, InfoSaved, RescueFails, TypeOK
<1>3. loop' \in Loops
  <2>1. CASE ResultsSaved(s)
    <3> DEFINE L == EnsureProcessing(loop, pending)
    <3>1. L \in Loops
      BY <2>1, EnsureType DEF ResultsSaved, TypeOK
    <3>2. loop' = [L EXCEPT !.pc = [L.pc EXCEPT ![s] = "returned"], !.state = "READY"]
      BY <2>1 DEF ResultsSaved
    <3> HIDE DEF L
    <3>3. [L.pc EXCEPT ![s] = "returned"] \in [Steps -> StepPcs]
      BY <3>1 DEF Loops, StepPcs
    <3> QED BY <3>1, <3>2, <3>3 DEF Loops
  <2>2. CASE InfoSaved(s) \/ RescueFails(s)
    <3>1. Goto(s, "returned") \in Loops /\ Goto(s, "rejected") \in Loops
      BY GotoType DEF StepPcs, TypeOK
    <3> QED BY <2>2, <3>1 DEF InfoSaved, RescueFails, Loops
  <2> QED BY <2>1, <2>2
<1> QED BY <1>1, <1>2, <1>3 DEF ResultsSaved, InfoSaved, RescueFails, TypeOK, callVars

\* Types over a failure.
LEMMA TypeStepFails ==
    ASSUME TypeOK, NEW s \in Steps, StepFails(s)
    PROVE  TypeOK'
<1>1. Goto(s, "saveInfoAfterError") \in Loops
  BY GotoType DEF StepPcs, TypeOK
<1>2. loop' \in Loops
  BY <1>1 DEF StepFails, Loops
<1>3. env' \in [interrupts : Nat, timeouts : Nat, faults : Nat, crashes : Nat]
  BY TypeFault DEF StepFails
<1> QED BY <1>2, <1>3 DEF StepFails, TypeOK, callVars

\* Types over finally and catch.
LEMMA TypePromise ==
    ASSUME TypeOK, NEW s \in Steps, Finally(s) \/ Catch(s)
    PROVE  TypeOK'
<1>1. loop' \in Loops
  <2>1. CASE Finally(s)
    <3> DEFINE pc == [loop.pc EXCEPT ![s] = IF @ = "rejected" THEN "catching" ELSE "idle"]
               L == [loop EXCEPT !.promise = NoStep,
                                 !.pc[s] = IF @ = "rejected" THEN "catching" ELSE "idle"]
    <3>1. pc \in [Steps -> StepPcs]
      BY DEF TypeOK, Loops, StepPcs
    <3>2. L = [loop EXCEPT !.promise = NoStep, !.pc = pc]
      OBVIOUS
    <3>3. L \in Loops
      <4> HIDE DEF pc, L
      <4> QED BY <3>1, <3>2 DEF TypeOK, Loops
    <3>4. loop' = L \/ (CanEnsure(L) /\ loop' = EnsureProcessing(L, pending))
      BY <2>1 DEF Finally
    <3> HIDE DEF L
    <3> QED BY <3>3, <3>4, EnsureType DEF TypeOK
  <2>2. CASE Catch(s)
    <3>1. Goto(s, "idle") \in Loops
      BY GotoType DEF StepPcs, TypeOK
    <3> QED BY <2>2, <3>1 DEF Catch, Loops
  <2> QED BY <2>1, <2>2
<1> QED BY <1>1 DEF Finally, Catch, TypeOK, callVars

----------------------------------------------------------------------------
\* Tool calls.

\* Types over the start of a call.
LEMMA TypeStarted ==
    ASSUME TypeOK, RegisterStarted
    PROVE  /\ call' \in [Calls -> CallPcs]
           /\ rec' \in [Calls -> RecordStates]
           /\ approval' \in [Calls -> {"none", "required", "allow", "deny"}]
BY DEF RegisterStarted, TypeOK, CallPcs, RecordStates

\* Types over the runner's callbacks.
LEMMA TypeRunner ==
    ASSUME TypeOK, Dispatch \/ \E c \in Calls : Settle(c) \/ Release(c)
    PROVE  TypeOK'
<1>1. CASE Dispatch
  BY <1>1, TypeStarted DEF Dispatch, TypeOK
<1>2. CASE \E c \in Calls : Release(c)
  BY <1>2, TypeStarted DEF Release, TypeOK, loopVars
<1>3. CASE \E c \in Calls : Settle(c)
  BY <1>3 DEF Settle, TypeOK, loopVars, callVars
<1> QED BY <1>1, <1>2, <1>3

\* Types over processToolCall.
LEMMA TypeCall ==
    ASSUME TypeOK, NEW c \in Calls,
           Check(c) \/ ApprovalSaved(c) \/ Proceed(c) \/ Execute(c) \/ CallThrows(c)
    PROVE  TypeOK'
<1>1. ASSUME NEW pc \in CallPcs, NEW state \in RecordStates, CallGoes(c, pc, state),
             approval' \in [Calls -> {"none", "required", "allow", "deny"}]
      PROVE  TypeOK'
  <2>1. call' \in [Calls -> CallPcs] /\ rec' \in [Calls -> RecordStates]
    BY <1>1 DEF CallGoes, TypeOK
  <2> QED BY <1>1, <2>1 DEF CallGoes, TypeOK, loopVars
<1>2. CASE Check(c)
  <2>1. approval' \in [Calls -> {"none", "required", "allow", "deny"}]
    BY <1>2 DEF Check, TypeOK
  <2>2. \E pc \in CallPcs, state \in RecordStates : CallGoes(c, pc, state)
    BY <1>2 DEF Check, CallPcs, RecordStates
  <2> QED BY <1>1, <2>1, <2>2
<1>3. CASE ApprovalSaved(c)
  <2>1. call' \in [Calls -> CallPcs] /\ loop' \in Loops
    BY <1>3 DEF ApprovalSaved, CallPcs, Loops, TypeOK
  <2> QED BY <1>3, <2>1 DEF ApprovalSaved, TypeOK
<1>4. CASE Proceed(c) \/ Execute(c)
  <2>1. approval' \in [Calls -> {"none", "required", "allow", "deny"}]
    BY <1>4 DEF Proceed, Execute, TypeOK
  <2>2. \E pc \in CallPcs, state \in RecordStates : CallGoes(c, pc, state)
    BY <1>4 DEF Proceed, Execute, CallPcs, RecordStates
  <2> QED BY <1>1, <2>1, <2>2
<1>5. CASE CallThrows(c)
  <2>1. call' \in [Calls -> CallPcs]
    BY <1>5 DEF CallThrows, CallPcs, TypeOK
  <2>2. env' \in [interrupts : Nat, timeouts : Nat, faults : Nat, crashes : Nat]
    BY <1>5, TypeFault DEF CallThrows
  <2> QED BY <1>5, <2>1, <2>2 DEF CallThrows, TypeOK, loopVars
<1> QED BY <1>2, <1>3, <1>4, <1>5

----------------------------------------------------------------------------

\* Types hold in every step.
LEMMA TypeStep == TypeOK /\ [Next]_vars => TypeOK'
<1> SUFFICES ASSUME TypeOK, [Next]_vars PROVE TypeOK'
  OBVIOUS
<1>1. CASE Send \/ Remind
  BY <1>1, TypeSend
<1>2. CASE \E c \in Calls : Decide(c, "allow") \/ Decide(c, "deny")
  BY <1>2, TypeDecide
<1>3. CASE Interrupt \/ InterruptSaved \/ TimePasses
  BY <1>3, TypeInterrupt
<1>4. CASE \E s \in Steps : StepNext(s)
  BY <1>4, TypeFlushed, TypeModelTurn, TypeTurnSaved, TypeTools, TypeStepEnds, TypePromise
     DEF StepNext
<1>5. CASE Dispatch
  BY <1>5, TypeRunner
<1>6. CASE \E c \in Calls : CallNext(c)
  BY <1>6, TypeCall, TypeRunner DEF CallNext
<1>7. CASE Faults
  BY <1>7, TypeStepFails, TypeStepEnds, TypeCall DEF Faults
<1>8. CASE UNCHANGED vars
  BY <1>8 DEF vars, loopVars, callVars, TypeOK
<1> QED BY <1>1, <1>2, <1>3, <1>4, <1>5, <1>6, <1>7, <1>8 DEF Next

\* Every variable of the loop keeps its type: the history stays a sequence of
\* messages with their tool calls, and no step leaves the protocol of runStep.
THEOREM TypeCorrect == Spec => []TypeOK
BY TypeInit, TypeStep, PTL DEF Spec

----------------------------------------------------------------------------
(* One step at a time.  The inductive invariant ties the program counters   *)
(* to processingPromise: unless the clock forced a restart, a step between  *)
(* its start and its finally is the one processingPromise stands for, so    *)
(* ensureProcessing starts a step only when there is none.                  *)

Resting == {"idle", "catching"}

HeldByPromise(L) ==
    /\ ~L.overdue
    /\ \A s \in Steps : L.pc[s] \notin Resting => L.promise = s

PromiseInv == env.timeouts = 0 => HeldByPromise(loop)

\* ensureProcessing() starts a step only without one.
LEMMA EnsureHeld ==
    ASSUME NEW L \in Loops, NEW q \in Seq(Messages), CanEnsure(L), HeldByPromise(L)
    PROVE  HeldByPromise(EnsureProcessing(L, q))
<1>1. CASE InFlight(L)
  BY <1>1 DEF EnsureProcessing, HeldByPromise, Loops
<1>2. CASE ~InFlight(L)
  <2> DEFINE s == CHOOSE x \in IdleSteps(L) : TRUE
             M == [L EXCEPT !.next = FALSE, !.overdue = FALSE]
             B == BeginStep(M, s, q)
  <2>1. s \in Steps
    BY <1>2, NewStep
  <2>2. M \in Loops /\ M.pc = L.pc /\ ~M.overdue
    BY DEF Loops
  <2>3. B \in Loops
    BY <2>1, <2>2, BeginStepType
  <2>4. EnsureProcessing(L, q) = [B EXCEPT !.promise = s]
    BY <1>2 DEF EnsureProcessing
  <2>5. \A t \in Steps : L.pc[t] \in Resting
    BY <1>2 DEF InFlight, HeldByPromise, NoStep, Steps
  <2> HIDE DEF s, M
  <2>6. ~B.overdue /\ \A t \in Steps \ {s} : B.pc[t] = L.pc[t]
    BY <2>1, <2>2 DEF BeginStep, Loops
  <2> HIDE DEF B
  <2> QED BY <2>1, <2>3, <2>4, <2>5, <2>6 DEF HeldByPromise, Loops
<1> QED BY <1>1, <1>2

\* A step that is not at rest moves on.
LEMMA GotoHeld ==
    ASSUME loop \in Loops, NEW s \in Steps, NEW pc, HeldByPromise(loop),
           loop.pc[s] \notin Resting \/ pc \in Resting
    PROVE  HeldByPromise(Goto(s, pc))
BY DEF HeldByPromise, Goto, Loops

\* Steps of the loop leave the promise with the step in flight.
LEMMA PromiseStep ==
    ASSUME TypeOK, HeldByPromise(loop), NEW s \in Steps,
           StepNext(s) \/ StepFails(s) \/ RescueFails(s)
    PROVE  HeldByPromise(loop')
<1>0. loop \in Loops /\ pending \in Seq(Messages)
  BY DEF TypeOK
<1>1. CASE Flushed(s) \/ ModelTurn(s) \/ TurnSaved(s) \/ ToolsJoined(s) \/ RecordsSaved(s)
           \/ InfoSaved(s) \/ ToolsRejected(s) \/ StepFails(s) \/ RescueFails(s) \/ Catch(s)
  <2> DEFINE Moves(pc) == /\ loop'.pc = Goto(s, pc).pc
                          /\ loop'.promise = loop.promise /\ loop'.overdue = loop.overdue
  <2>1. ASSUME NEW pc \in StepPcs, loop.pc[s] \notin Resting \/ pc \in Resting, Moves(pc)
        PROVE  HeldByPromise(loop')
    <3>1. HeldByPromise(Goto(s, pc))
      BY <1>0, <2>1, GotoHeld
    <3>2. Goto(s, pc).promise = loop.promise /\ Goto(s, pc).overdue = loop.overdue
      BY <1>0 DEF Goto, Loops
    <3> QED BY <2>1, <3>1, <3>2 DEF HeldByPromise
  <2>2. ASSUME NEW pc \in StepPcs
        PROVE  /\ Goto(s, pc) \in Loops
               /\ Goto(s, pc).promise = loop.promise /\ Goto(s, pc).overdue = loop.overdue
    BY <1>0, GotoType DEF Goto, Loops
  <2>3. CASE Flushed(s)
    <3>1. Moves("model")
      BY <2>2, <2>3 DEF Flushed, Loops, StepPcs
    <3> QED BY <2>1, <2>3, <3>1 DEF Flushed, At, Resting, StepPcs
  <2>4. CASE ModelTurn(s)
    <3>1. Moves("saveTurn")
      BY <2>2, <2>4 DEF ModelTurn, Loops, StepPcs
    <3> QED BY <2>1, <2>4, <3>1 DEF ModelTurn, At, Resting, StepPcs
  <2>5. CASE TurnSaved(s)
    <3>1. Moves("saveInfo") \/ Moves("tools")
      BY <2>2, <2>5 DEF TurnSaved, EmitDone, StepPcs
    <3> QED BY <2>1, <2>5, <3>1 DEF TurnSaved, At, Resting, StepPcs
  <2>6. CASE ToolsJoined(s)
    <3>1. Moves("saveRecords")
      BY <2>2, <2>6 DEF ToolsJoined, StepPcs
    <3> QED BY <2>1, <2>6, <3>1 DEF ToolsJoined, At, Resting, StepPcs
  <2>7. CASE RecordsSaved(s)
    <3>1. Moves("saveResults")
      BY <2>2, <2>7 DEF RecordsSaved, Loops, StepPcs
    <3> QED BY <2>1, <2>7, <3>1 DEF RecordsSaved, At, Resting, StepPcs
  <2>8. CASE InfoSaved(s)
    <3>1. Moves("returned")
      BY <2>2, <2>8 DEF InfoSaved, Loops, StepPcs
    <3> QED BY <2>1, <2>8, <3>1 DEF InfoSaved, At, Resting, StepPcs
  <2>9. CASE StepFails(s) \/ ToolsRejected(s)
    <3>1. Moves("saveInfoAfterError")
      BY <2>2, <2>9 DEF StepFails, ToolsRejected, EmitDone, Loops, StepPcs
    <3> QED BY <2>1, <2>9, <3>1 DEF StepFails, ToolsRejected, At, Resting, StepPcs
  <2>10. CASE RescueFails(s)
    <3>1. Moves("rejected")
      BY <2>2, <2>10 DEF RescueFails, Loops, StepPcs
    <3> QED BY <2>1, <2>10, <3>1 DEF RescueFails, At, Resting, StepPcs
  <2>11. CASE Catch(s)
    <3>1. Moves("idle")
      BY <2>2, <2>11 DEF Catch, Loops, StepPcs
    <3> QED BY <2>1, <3>1 DEF Resting, StepPcs
  <2> QED BY <1>1, <2>3, <2>4, <2>5, <2>6, <2>7, <2>8, <2>9, <2>10, <2>11
<1>2. CASE ResultsSaved(s)
  <2> DEFINE L == EnsureProcessing(loop, pending)
  <2>1. loop.pc[s] \notin Resting
    BY <1>2 DEF ResultsSaved, At, Resting
  <2>2. L \in Loops /\ HeldByPromise(L)
    BY <1>0, <1>2, EnsureType, EnsureHeld DEF ResultsSaved
  <2>3. InFlight(loop)
    BY <2>1 DEF HeldByPromise, InFlight, Steps, NoStep
  <2>4. L.pc[s] \notin Resting
    BY <1>0, <2>1, <2>3 DEF EnsureProcessing, Loops
  <2>5. loop' = [L EXCEPT !.pc[s] = "returned", !.state = "READY"]
    BY <1>2 DEF ResultsSaved
  <2> HIDE DEF L
  <2> QED BY <2>2, <2>4, <2>5 DEF HeldByPromise, Loops
<1>3. CASE Finally(s)
  <2> DEFINE L == [loop EXCEPT !.promise = NoStep,
                               !.pc[s] = IF @ = "rejected" THEN "catching" ELSE "idle"]
  <2>1. loop.promise = s
    BY <1>3 DEF Finally, HeldByPromise, Resting
  <2>2. L \in Loops
    <3>1. [loop.pc EXCEPT ![s] = IF @ = "rejected" THEN "catching" ELSE "idle"] \in [Steps -> StepPcs]
      BY <1>0 DEF Loops, StepPcs
    <3> QED BY <1>0, <3>1 DEF Loops
  <2>3. HeldByPromise(L)
    BY <1>0, <2>1 DEF HeldByPromise, Loops, Resting
  <2>4. loop' = L \/ (CanEnsure(L) /\ loop' = EnsureProcessing(L, pending))
    BY <1>3 DEF Finally
  <2> HIDE DEF L
  <2> QED BY <1>0, <2>2, <2>3, <2>4, EnsureHeld
<1> QED BY <1>1, <1>2, <1>3 DEF StepNext

\* So do the calls of the API.
LEMMA PromiseApi ==
    ASSUME TypeOK, HeldByPromise(loop),
           \/ Send \/ Remind \/ Interrupt \/ InterruptSaved
           \/ \E c \in Calls : Decide(c, "allow") \/ Decide(c, "deny") \/ ApprovalSaved(c)
    PROVE  HeldByPromise(loop')
<1>0. loop \in Loops /\ pending \in Seq(Messages)
  BY DEF TypeOK
<1>1. CASE Send
  <2>1. pending' \in Seq(Messages)
    BY <1>1, TypeSend DEF TypeOK
  <2> QED BY <1>0, <1>1, <2>1, EnsureHeld DEF Send
<1>2. CASE Remind
  BY <1>2 DEF Remind
<1>3. CASE \E c \in Calls : Decide(c, "allow")
  <2> DEFINE L == [loop EXCEPT !.state = "WORKING"]
  <2>1. L \in Loops /\ HeldByPromise(L)
    BY <1>0 DEF HeldByPromise, Loops
  <2>2. CanEnsure(L) /\ loop' = EnsureProcessing(L, pending)
    BY <1>0, <1>3 DEF Decide, CanEnsure, InFlight, IdleSteps, Loops
  <2> HIDE DEF L
  <2> QED BY <1>0, <2>1, <2>2, EnsureHeld
<1>4. CASE Interrupt \/ InterruptSaved \/ \E c \in Calls : Decide(c, "deny") \/ ApprovalSaved(c)
  <2>1. loop'.pc = loop.pc /\ loop'.promise = loop.promise /\ loop'.overdue = loop.overdue
    BY <1>0, <1>4 DEF Interrupt, InterruptSaved, Decide, ApprovalSaved, Loops
  <2> QED BY <2>1 DEF HeldByPromise
<1> QED BY <1>1, <1>2, <1>3, <1>4

\* The clock is the only way to a second step: no sequence of sends, decisions,
\* interrupts, denials, failures and late callbacks starts one beside another.
THEOREM OneRunner == Spec => []SingleRunner
<1>1. Init => PromiseInv
  BY DEF Init, PromiseInv, HeldByPromise, Resting
<1>2. TypeOK /\ PromiseInv /\ [Next]_vars => PromiseInv'
  <2> SUFFICES ASSUME TypeOK, PromiseInv, [Next]_vars, env'.timeouts = 0
               PROVE  HeldByPromise(loop)'
    BY DEF PromiseInv
  <2>1. env.timeouts = 0 /\ ~TimePasses
    <3>1. env \in [interrupts : Nat, timeouts : Nat, faults : Nat, crashes : Nat]
      BY DEF TypeOK
    <3>2. ~TimePasses
      BY <3>1 DEF TimePasses
    <3>3. env'.timeouts = env.timeouts
      BY <3>1, <3>2 DEF Next, Send, Remind, Decide, Interrupt, InterruptSaved, StepNext, Flushed,
           ModelTurn, TurnSaved, ToolsJoined, RecordsSaved, ResultsSaved, InfoSaved,
           ToolsRejected, Finally, Catch, Dispatch, CallNext, Check, CallGoes, ApprovalSaved,
           Proceed, Execute, Settle, Release, Faults, StepFails, RescueFails, CallThrows,
           Fault, vars
    <3> QED BY <3>2, <3>3
  <2>2. HeldByPromise(loop)
    BY <2>1 DEF PromiseInv
  <2>3. CASE \/ Send \/ Remind \/ Interrupt \/ InterruptSaved
             \/ \E c \in Calls : Decide(c, "allow") \/ Decide(c, "deny") \/ ApprovalSaved(c)
    BY <2>2, <2>3, PromiseApi DEF HeldByPromise
  <2>4. CASE \E s \in Steps : StepNext(s) \/ StepFails(s) \/ RescueFails(s)
    BY <2>2, <2>4, PromiseStep DEF HeldByPromise
  <2>5. CASE UNCHANGED loop
    BY <2>2, <2>5 DEF HeldByPromise
  <2> QED BY <2>1, <2>3, <2>4, <2>5 DEF Next, CallNext, Check, CallGoes, Proceed, Execute, Settle,
             Release, Dispatch, Faults, CallThrows, vars, loopVars
<1>3. TypeOK /\ PromiseInv => SingleRunner
  <2> SUFFICES ASSUME PromiseInv, env.timeouts = 0
               PROVE  Cardinality(Working) <= 1
    BY DEF SingleRunner
  <2>1. Working \subseteq {loop.promise}
    BY DEF PromiseInv, HeldByPromise, Working, Resting
  <2>2. IsFiniteSet({loop.promise}) /\ Cardinality({loop.promise}) = 1
    BY FS_Singleton
  <2>3. Cardinality(Working) <= Cardinality({loop.promise})
    BY <2>1, <2>2, FS_Subset
  <2> QED BY <2>2, <2>3
<1> QED BY <1>1, <1>2, <1>3, TypeCorrect, PTL DEF Spec

----------------------------------------------------------------------------
(* Consent.  Inductive once it is known that a call under examination has   *)
(* not been through an approval: examination alone may let it execute.      *)

ConsentInv ==
    /\ ConsentBeforeExecution
    /\ \A c \in Calls : call[c] = "checking" => approval[c] = "none"

\* A call that starts has no approval yet.
LEMMA ConsentRegister ==
    ASSUME TypeOK, ConsentInv, RegisterStarted
    PROVE  ConsentInv'
<1>1. \A c \in Calls : \/ call'[c] = "checking" /\ approval'[c] = "none"
                       \/ call'[c] = call[c] /\ approval'[c] = approval[c]
  BY DEF RegisterStarted
<1> QED BY <1>1 DEF ConsentInv, ConsentBeforeExecution

\* Calls go on with the consent they have.
LEMMA ConsentCall ==
    ASSUME TypeOK, ConsentInv, NEW c \in Calls,
           \/ Decide(c, "allow") \/ Decide(c, "deny") \/ Check(c)
           \/ ApprovalSaved(c) \/ Proceed(c) \/ Execute(c) \/ CallThrows(c)
    PROVE  ConsentInv'
<1>1. /\ call \in [Calls -> CallPcs]
      /\ approval \in [Calls -> {"none", "required", "allow", "deny"}]
  BY DEF TypeOK
<1>2. \A b \in Calls \ {c} : call'[b] = call[b] /\ approval'[b] = approval[b]
  BY <1>1 DEF Decide, Check, CallGoes, ApprovalSaved, Proceed, Execute, CallThrows
<1>3. call'[c] # "checking"
  BY <1>1 DEF Decide, Check, CallGoes, ApprovalSaved, Proceed, Execute, CallThrows
<1>4. call'[c] = "executing" => approval'[c] \in {"none", "allow"}
  <2>1. CASE Check(c)
    BY <1>1, <2>1 DEF Check, CallGoes, ConsentInv
  <2>2. CASE Proceed(c)
    BY <1>1, <2>2 DEF Proceed, CallGoes
  <2>3. CASE \/ Decide(c, "allow") \/ Decide(c, "deny") \/ ApprovalSaved(c)
             \/ Execute(c) \/ CallThrows(c)
    BY <1>1, <2>3 DEF Decide, ApprovalSaved, Execute, CallGoes, CallThrows
  <2> QED BY <2>1, <2>2, <2>3
<1> QED BY <1>2, <1>3, <1>4 DEF ConsentInv, ConsentBeforeExecution

\* Consent is kept in every step.
LEMMA ConsentStep == TypeOK /\ ConsentInv /\ [Next]_vars => ConsentInv'
<1> SUFFICES ASSUME TypeOK, ConsentInv, [Next]_vars PROVE ConsentInv'
  OBVIOUS
<1>1. CASE \E c \in Calls : \/ Decide(c, "allow") \/ Decide(c, "deny") \/ Check(c)
                            \/ ApprovalSaved(c) \/ Proceed(c) \/ Execute(c) \/ CallThrows(c)
  BY <1>1, ConsentCall
<1>2. CASE Dispatch \/ \E c \in Calls : Release(c)
  BY <1>2, ConsentRegister DEF Dispatch, Release
<1>3. CASE UNCHANGED <<call, approval>>
  BY <1>3 DEF ConsentInv, ConsentBeforeExecution
<1>4. CASE Send \/ Remind \/ Interrupt \/ InterruptSaved \/ TimePasses
           \/ \E c \in Calls : Settle(c)
  BY <1>3, <1>4 DEF Send, Remind, Interrupt, InterruptSaved, TimePasses, Settle, callVars
<1>5. CASE \E s \in Steps : StepNext(s) \/ StepFails(s) \/ RescueFails(s)
  BY <1>3, <1>5 DEF StepNext, Flushed, ModelTurn, TurnSaved, ToolsJoined, RecordsSaved,
     ResultsSaved, InfoSaved, ToolsRejected, Finally, Catch, StepFails, RescueFails, callVars
<1>6. CASE UNCHANGED vars
  BY <1>3, <1>6 DEF vars, callVars
<1> QED BY <1>1, <1>2, <1>4, <1>5, <1>6 DEF Next, CallNext, Faults

\* Whatever interrupt, restart of the loop or failure comes between a request
\* for approval and its decision, no call executes against or without it.
THEOREM ConsentHolds == Spec => []ConsentBeforeExecution
<1>1. Init => ConsentInv
  BY DEF Init, ConsentInv, ConsentBeforeExecution
<1>2. ConsentInv => ConsentBeforeExecution
  BY DEF ConsentInv
<1> QED BY <1>1, <1>2, ConsentStep, TypeCorrect, PTL DEF Spec

----------------------------------------------------------------------------
(* The loop is a client of the runner: what is proved of the runner holds   *)
(* inside the loop.                                                         *)

Facts == INSTANCE ToolRunner_proofs WITH Tasks <- Calls, status <- slot

\* A step of the loop is a step of the runner, or none.
LEMMA RunnerStepped == TypeOK /\ [Next]_vars => [Runner!RunnerNext]_(Runner!runnerVars)
<1> SUFFICES ASSUME TypeOK, [Next]_vars PROVE [Runner!RunnerNext]_(Runner!runnerVars)
  OBVIOUS
<1>1. CASE Dispatch
  <2>1. Head(dispatch) \in Calls
    BY <1>1 DEF Dispatch, TypeOK
  <2> QED BY <1>1, <2>1 DEF Dispatch, Runner!RunnerNext, Runner!RunnerStep
<1>2. CASE \E c \in Calls : Settle(c) \/ Release(c)
  BY <1>2 DEF Settle, Release, Runner!RunnerNext, Runner!RunnerStep
<1>3. CASE Interrupt
  BY <1>3 DEF Interrupt, Runner!RunnerNext
<1>4. CASE UNCHANGED runnerVars
  BY <1>4 DEF runnerVars, Runner!runnerVars
<1>5. CASE \/ Send \/ Remind \/ InterruptSaved \/ TimePasses
           \/ \E c \in Calls : \/ Decide(c, "allow") \/ Decide(c, "deny") \/ Check(c)
                                \/ ApprovalSaved(c) \/ Proceed(c) \/ Execute(c) \/ CallThrows(c)
  BY <1>4, <1>5 DEF Send, Remind, InterruptSaved, TimePasses, Decide, Check, CallGoes,
     ApprovalSaved, Proceed, Execute, CallThrows
<1>6. CASE \E s \in Steps : StepNext(s) \/ StepFails(s) \/ RescueFails(s)
  BY <1>4, <1>6 DEF StepNext, Flushed, ModelTurn, TurnSaved, ToolsJoined, RecordsSaved,
     ResultsSaved, InfoSaved, ToolsRejected, Finally, Catch, StepFails, RescueFails
<1>7. CASE UNCHANGED vars
  BY <1>4, <1>7 DEF vars
<1> QED BY <1>1, <1>2, <1>3, <1>5, <1>6, <1>7 DEF Next, CallNext, Faults

\* Every step of the loop is a step of the runner or leaves it alone, interrupts
\* and failures included.
THEOREM LoopUsesRunner == Spec => UsesRunner
<1>1. Init => Runner!RunnerInit
  BY DEF Init
<1> QED BY <1>1, RunnerStepped, TypeCorrect, PTL DEF Spec, UsesRunner, Runner!RunnerSpec

\* The runner's inductive invariant, inside the loop.
LEMMA RunnerInv ==
    /\ Runner!RunnerInit => Facts!IInv
    /\ Facts!IInv /\ [Runner!RunnerNext]_(Runner!runnerVars) => Facts!IInv'
<1>1. Facts!IsFiniteSet(Calls)
  BY CallsAssumption DEF Facts!IsFiniteSet, IsFiniteSet
<1>2. Runner!RunnerInit => Facts!IInv
  <2>1. Facts!RunnerInit => Facts!IInv
    BY <1>1, LoopConcurrency, Facts!InitIInv
  <2> QED BY <2>1 DEF Runner!RunnerInit, Facts!RunnerInit
<1>3. Facts!IInv /\ [Runner!RunnerNext]_(Runner!runnerVars) => Facts!IInv'
  <2>1. Facts!IInv /\ [Facts!RunnerNext]_(Facts!runnerVars) => Facts!IInv'
    BY <1>1, LoopConcurrency, Facts!NextIInv
  <2>2. Runner!RunnerNext => Facts!RunnerNext
    BY DEF Runner!RunnerNext, Facts!RunnerNext, Runner!RunnerStep, Facts!RunnerStep, Runner!Run, Facts!Run,
       Runner!Settle, Facts!Settle, Runner!Release, Facts!Release, Runner!Clear, Facts!Clear
  <2> QED BY <2>1, <2>2 DEF Runner!runnerVars, Facts!runnerVars
<1> QED BY <1>2, <1>3

\* So the limit on tool calls at work holds in the loop, with a counter that is
\* exact in spite of interrupt()'s clear() and of late callbacks.
THEOREM LimitInLoop == Spec => []Runner!WithinLimit
<1>1. \A S : Facts!Cardinality(S) = Runner!Cardinality(S)
  BY DEF Facts!Cardinality, Runner!Cardinality
<1>2. Facts!IInv => Runner!WithinLimit
  BY <1>1 DEF Facts!IInv, Facts!WithinLimit, Runner!WithinLimit, Facts!Occupied, Runner!Occupied
<1> QED BY <1>2, RunnerInv, LoopUsesRunner, PTL DEF UsesRunner, Runner!RunnerSpec

-----------------------------------------------------------------------------
(* Messages in order.                                                       *)

\* The messages of a queue as they enter the history.
Entered(q) == [i \in 1..Len(q) |-> UserEntry(q[i])]

Heard(h, m) == \E k \in 1..Len(h) : h[k] = UserEntry(m)

\* A history h and a queue q of messages whose kinds are K: messages are sent one
\* after the other and queued in this order, and no message of the queue is new to
\* a history that has a later one.
SentInOrder(K) == \A m, n \in Messages : n < m /\ K[m] # "unsent" => K[n] # "unsent"

QueuedInOrder(q, K) ==
    /\ \A i \in 1..Len(q) : K[q[i]] # "unsent"
    /\ \A i, j \in 1..Len(q) : i < j => q[i] < q[j]

HeardInOrder(h, q, K) ==
    /\ \A j \in 1..Len(h) : h[j].role = "user" => K[h[j].msg] # "unsent"
    /\ \A i \in 1..Len(q), j \in 1..Len(h) :
          h[j].role = "user" /\ q[i] < h[j].msg => Heard(h, q[i])
    /\ \A i, j \in 1..Len(h) :
          h[i].role = "user" /\ h[j].role = "user" /\ i < j /\ h[j].msg < h[i].msg
             => \E k \in 1..(i - 1) : h[k] = h[j]

Orderly(h, q, K) == SentInOrder(K) /\ QueuedInOrder(q, K) /\ HeardInOrder(h, q, K)

OrderInv == Orderly(loop.history, pending, kind)

\* A queue that has entered is a sequence of user entries.
LEMMA EnteredType ==
    ASSUME NEW q \in Seq(Messages)
    PROVE  /\ Entered(q) \in Seq(Entries) /\ Len(Entered(q)) = Len(q)
           /\ \A i \in 1..Len(q) : Entered(q)[i] = UserEntry(q[i])
<1>1. Entered(q) \in Seq(Entries)
  BY EntriesOfQueue DEF Entered
<1>2. Len(q) \in Nat
  OBVIOUS
<1> QED BY <1>1, <1>2 DEF Entered

\* ensureProcessing() adds the queue to the history, or nothing.
LEMMA EnsureHistory ==
    ASSUME NEW L \in Loops, NEW q \in Seq(Messages)
    PROVE  EnsureProcessing(L, q).history \in {L.history, L.history \o Entered(q)}
<1>1. CASE InFlight(L)
  BY <1>1 DEF EnsureProcessing, Loops
<1>2. CASE ~InFlight(L)
  <2> DEFINE s == CHOOSE x \in IdleSteps(L) : TRUE
             M == [L EXCEPT !.next = FALSE, !.overdue = FALSE]
  <2>1. M \in Loops /\ M.history = L.history
    BY DEF Loops
  <2>2. EnsureProcessing(L, q) = [BeginStep(M, s, q) EXCEPT !.promise = s]
    BY <1>2 DEF EnsureProcessing
  <2> HIDE DEF s, M
  <2>3. BeginStep(M, s, q).history \in {M.history, M.history \o Entered(q)}
    BY <2>1 DEF BeginStep, Loops, Entered
  <2>4. EnsureProcessing(L, q).history = BeginStep(M, s, q).history
    BY <2>1, <2>2 DEF BeginStep, Loops
  <2> QED BY <2>1, <2>3, <2>4
<1> QED BY <1>1, <1>2

\* What a step does to the history.
HistoryMoves ==
    \/ loop'.history = loop.history
    \/ loop'.history = loop.history \o Entered(pending')
    \/ /\ Interrupt \/ \E s \in Steps : ModelTurn(s) \/ RecordsSaved(s)
       /\ \E e \in Entries : e.role # "user" /\ loop'.history = Append(loop.history, e)

\* What a step does to the queue and to the kinds of messages.
QueueMoves ==
    \/ kind' = kind /\ pending' \in {pending, <<>>}
    \/ /\ MayEnqueue /\ pending' = Append(pending, NextMessage)
       /\ \E k \in {"user", "reminder"} : kind' = [kind EXCEPT ![NextMessage] = k]

\* Every step of the loop moves the queue in one of these ways.
LEMMA QueueMoved == TypeOK /\ [Next]_vars => QueueMoves
<1> SUFFICES ASSUME TypeOK, [Next]_vars PROVE QueueMoves
  OBVIOUS
<1>1. CASE Send \/ Remind
  BY <1>1 DEF Send, Remind, QueueMoves
<1>2. CASE \E s \in Steps : Flushed(s)
  BY <1>2 DEF Flushed, QueueMoves
<1>3. CASE UNCHANGED <<pending, kind>>
  BY <1>3 DEF QueueMoves
<1> QED BY <1>1, <1>2, <1>3 DEF Next, Decide, Interrupt, InterruptSaved, TimePasses, StepNext,
        ModelTurn, TurnSaved, ToolsJoined, RecordsSaved, ResultsSaved, InfoSaved, ToolsRejected, Finally, Catch,
        Dispatch, CallNext, Check, CallGoes, ApprovalSaved, Proceed, Execute, Settle, Release, Faults, StepFails,
        RescueFails, CallThrows, vars, loopVars

\* Every step of the loop moves the history in one of these ways.
LEMMA HistoryMoved == TypeOK /\ [Next]_vars => HistoryMoves
<1> SUFFICES ASSUME TypeOK, [Next]_vars PROVE HistoryMoves
  OBVIOUS
<1>0. loop \in Loops /\ pending \in Seq(Messages) /\ turn \in [Steps -> SUBSET Calls]
  BY DEF TypeOK
<1>1. pending' \in Seq(Messages)
  BY TypeStep DEF TypeOK
<1>2. ASSUME NEW L \in Loops, L.history = loop.history, pending' = pending \/ Send,
             loop'.history = EnsureProcessing(L, pending').history
      PROVE  HistoryMoves
  BY <1>1, <1>2, EnsureHistory DEF HistoryMoves
<1>3. CASE Send
  BY <1>0, <1>2, <1>3 DEF Send
<1>4. CASE \E c \in Calls : Decide(c, "allow")
  <2> DEFINE L == [loop EXCEPT !.state = "WORKING"]
  <2>1. L \in Loops /\ L.history = loop.history
    BY <1>0 DEF Loops
  <2>2. loop' = EnsureProcessing(L, pending') /\ pending' = pending
    BY <1>4 DEF Decide
  <2> HIDE DEF L
  <2> QED BY <2>1, <2>2, <1>2
<1>5. CASE \E s \in Steps : ResultsSaved(s)
  <2> DEFINE L == EnsureProcessing(loop, pending)
  <2>1. L \in Loops
    BY <1>0, <1>5, EnsureType DEF ResultsSaved
  <2>2. loop'.history = L.history /\ pending' = pending
    BY <1>5, <2>1 DEF ResultsSaved, Loops
  <2> QED BY <1>0, <1>2, <2>2
<1>6. CASE \E s \in Steps : Finally(s)
  <2> PICK s \in Steps : Finally(s)
    BY <1>6
  <2> DEFINE pc == [loop.pc EXCEPT ![s] = IF @ = "rejected" THEN "catching" ELSE "idle"]
             L == [loop EXCEPT !.promise = NoStep, !.pc[s] = IF @ = "rejected" THEN "catching" ELSE "idle"]
  <2>1. pc \in [Steps -> StepPcs]
    BY <1>0 DEF Loops, StepPcs
  <2>2. L = [loop EXCEPT !.promise = NoStep, !.pc = pc]
    OBVIOUS
  <2>3. L \in Loops /\ L.history = loop.history
    <3> HIDE DEF pc, L
    <3> QED BY <1>0, <2>1, <2>2 DEF Loops
  <2>4. pending' = pending /\ (loop' = L \/ loop' = EnsureProcessing(L, pending))
    BY DEF Finally
  <2> HIDE DEF L
  <2> QED BY <1>2, <2>3, <2>4 DEF HistoryMoves
<1>7. CASE \E s \in Steps : ModelTurn(s) \/ RecordsSaved(s)
  <2> PICK s \in Steps : ModelTurn(s) \/ RecordsSaved(s)
    BY <1>7
  <2>1. \A pc : Goto(s, pc).history = loop.history /\ Goto(s, pc) = [loop EXCEPT !.pc = Goto(s, pc).pc]
    BY <1>0 DEF Goto, Loops
  <2>2. CASE ModelTurn(s)
    <3>1. PICK cs \in SUBSET Unasked :
             loop' = [Goto(s, "saveTurn") EXCEPT !.history = Append(@, Assistant(cs))]
      BY <2>2 DEF ModelTurn
    <3>2. loop'.history = Append(loop.history, Assistant(cs))
      BY <1>0, <2>1, <3>1 DEF Goto, Loops
    <3>3. Assistant(cs) \in Entries /\ Assistant(cs).role # "user"
      BY <3>1, EntriesOfCalls DEF Unasked, Assistant
    <3> QED BY <3>2, <3>3 DEF HistoryMoves
  <2>3. CASE RecordsSaved(s)
    <3>1. loop'.history = Append(loop.history, Results(turn[s]))
      BY <1>0, <2>1, <2>3 DEF RecordsSaved, Goto, Loops
    <3>2. Results(turn[s]) \in Entries /\ Results(turn[s]).role # "user"
      BY <1>0, EntriesOfCalls DEF Results
    <3> QED BY <3>1, <3>2 DEF HistoryMoves
  <2> QED BY <2>2, <2>3
<1>8. CASE Interrupt
  <2> DEFINE cs == Sealable(loop.history)
  <2>1. cs \in SUBSET Calls
    <3>1. loop.history \in Seq(Entries)
      BY <1>0 DEF Loops
    <3>2. CASE loop.history # <<>> /\ loop.history[Len(loop.history)].role = "assistant"
      <4>1. loop.history[Len(loop.history)] \in Entries
        BY <3>1, <3>2
      <4> QED BY <4>1, <3>2 DEF Sealable, Entries
    <3> QED BY <3>2 DEF Sealable
  <2>2. loop'.history \in {loop.history, Append(loop.history, Results(cs))}
    BY <1>0, <1>8 DEF Interrupt, Loops
  <2> HIDE DEF cs
  <2>3. Results(cs) \in Entries /\ Results(cs).role # "user"
    BY <2>1, EntriesOfCalls DEF Results
  <2> QED BY <1>8, <2>2, <2>3 DEF HistoryMoves
<1>9. CASE \E s \in Steps : \/ Flushed(s) \/ TurnSaved(s) \/ ToolsJoined(s) \/ InfoSaved(s) \/ ToolsRejected(s)
                           \/ Catch(s) \/ StepFails(s) \/ RescueFails(s)
  <2>1. loop'.history = loop.history
    BY <1>0, <1>9 DEF Flushed, TurnSaved, EmitDone, ToolsJoined, InfoSaved, ToolsRejected, Catch, StepFails,
       RescueFails, Goto, Loops
  <2> QED BY <2>1 DEF HistoryMoves
<1>10. CASE InterruptSaved \/ TimePasses \/ \E c \in Calls : Decide(c, "deny") \/ ApprovalSaved(c)
  <2>1. loop'.history = loop.history
    BY <1>0, <1>10 DEF InterruptSaved, TimePasses, Decide, ApprovalSaved, Loops
  <2> QED BY <2>1 DEF HistoryMoves
<1>11. CASE UNCHANGED loop
  BY <1>11 DEF HistoryMoves
<1> QED BY <1>3, <1>4, <1>5, <1>6, <1>7, <1>8, <1>9, <1>10, <1>11 DEF Next, Remind, StepNext, Dispatch,
        CallNext, Check, CallGoes, Proceed, Execute, Settle, Release, Faults, CallThrows, vars, loopVars

\* A message that is sent is later than all that were.
LEMMA NextIsLater ==
    ASSUME SentInOrder(kind), MayEnqueue
    PROVE  /\ NextMessage \in Messages /\ kind[NextMessage] = "unsent"
           /\ \A m \in Messages : kind[m] # "unsent" => m < NextMessage
<1>1. NextMessage \in Messages /\ IsNext(NextMessage)
  BY DEF MayEnqueue, NextMessage
<1> QED BY <1>1 DEF IsNext, SentInOrder, Messages

\* Order is kept over what happens to the queue.
LEMMA QueueOrder ==
    ASSUME TypeOK, OrderInv, QueueMoves
    PROVE  Orderly(loop.history, pending', kind')
<1> DEFINE h == loop.history
<1>0. pending \in Seq(Messages) /\ h \in Seq(Entries) /\ kind \in [Messages -> {"unsent", "user", "reminder"}]
  BY DEF TypeOK, Loops
<1>1. CASE kind' = kind /\ pending' \in {pending, <<>>}
  BY <1>1 DEF OrderInv, Orderly, QueuedInOrder, HeardInOrder
<1>2. CASE MayEnqueue /\ pending' = Append(pending, NextMessage)
           /\ \E k \in {"user", "reminder"} : kind' = [kind EXCEPT ![NextMessage] = k]
  <2> DEFINE n == NextMessage
  <2>1. /\ n \in Messages /\ kind[n] = "unsent"
        /\ \A m \in Messages : kind[m] # "unsent" => m < n
    BY <1>2, NextIsLater DEF OrderInv, Orderly
  <2> HIDE DEF n
  <2>2. \A m \in Messages : kind'[m] # "unsent" <=> kind[m] # "unsent" \/ m = n
    BY <1>0, <1>2, <2>1 DEF n
  <2>3. SentInOrder(kind')
    <3>1. \A m \in Messages : m < n => kind[m] # "unsent"
      BY <1>2 DEF MayEnqueue, n, NextMessage, IsNext, Messages
    <3> QED BY <2>1, <2>2, <3>1 DEF OrderInv, Orderly, SentInOrder, Messages
  <2>4. /\ pending' = Append(pending, n) /\ Len(pending') = Len(pending) + 1 /\ pending'[Len(pending) + 1] = n
        /\ \A i \in 1..Len(pending) : pending'[i] = pending[i] /\ pending[i] \in Messages
    BY <1>0, <1>2, <2>1 DEF n
  <2>5. /\ \A i \in 1..Len(pending) : kind[pending[i]] # "unsent" /\ pending[i] < n
        /\ \A i, j \in 1..Len(pending) : i < j => pending[i] < pending[j]
    BY <2>1, <2>4 DEF OrderInv, Orderly, QueuedInOrder
  <2>5a. Len(pending) \in Nat /\ \A i \in 1..Len(pending') : i \in 1..Len(pending) \/ i = Len(pending) + 1
    BY <1>0, <2>4
  <2>6. QueuedInOrder(pending', kind')
    <3>1. ASSUME NEW i \in 1..Len(pending') PROVE kind'[pending'[i]] # "unsent"
      BY <2>1, <2>2, <2>4, <2>5, <2>5a
    <3>2. ASSUME NEW i \in 1..Len(pending'), NEW j \in 1..Len(pending'), i < j PROVE pending'[i] < pending'[j]
      <4>1. i \in 1..Len(pending)
        BY <2>4, <2>5a, <3>2
      <4> QED BY <2>4, <2>5, <2>5a, <4>1, <3>2
    <3> QED BY <3>1, <3>2 DEF QueuedInOrder
  <2>7. \A j \in 1..Len(h) : h[j].role = "user" => h[j].msg \in Messages /\ kind[h[j].msg] # "unsent"
    <3>1. \A j \in 1..Len(h) : h[j] \in Entries
      BY <1>0
    <3>2. \A j \in 1..Len(h) : h[j].role = "user" => h[j].msg \in Messages
      BY <3>1 DEF Entries
    <3> QED BY <3>2 DEF OrderInv, Orderly, HeardInOrder
  <2>8. ASSUME NEW i \in 1..Len(pending'), NEW j \in 1..Len(h), h[j].role = "user", pending'[i] < h[j].msg
        PROVE  Heard(h, pending'[i])
    <3>1. h[j].msg \in Messages /\ h[j].msg < n
      BY <2>1, <2>7, <2>8
    <3>2. i \in 1..Len(pending)
      BY <2>1, <2>4, <2>5a, <2>8, <3>1 DEF Messages
    <3> QED BY <2>4, <2>8, <3>2 DEF OrderInv, Orderly, HeardInOrder
  <2>9. HeardInOrder(h, pending', kind')
    BY <2>2, <2>7, <2>8 DEF OrderInv, Orderly, HeardInOrder
  <2> QED BY <2>3, <2>6, <2>9 DEF Orderly
<1> QED BY <1>1, <1>2 DEF QueueMoves

\* Order is kept when the queue enters the history: whoever is overtaken there had
\* been heard before.
LEMMA EnterOrder ==
    ASSUME NEW h \in Seq(Entries), NEW q \in Seq(Messages), NEW K, Orderly(h, q, K)
    PROVE  Orderly(h \o Entered(q), q, K)
<1> DEFINE g == h \o Entered(q)
<1>1. Entered(q) \in Seq(Entries) /\ Len(Entered(q)) = Len(q)
      /\ \A i \in 1..Len(q) : Entered(q)[i] = UserEntry(q[i])
  BY EnteredType
<1>2. /\ Len(g) = Len(h) + Len(q) /\ Len(h) \in Nat /\ Len(q) \in Nat
      /\ \A i \in 1..Len(h) : g[i] = h[i]
      /\ \A i \in 1..Len(q) : g[Len(h) + i] = UserEntry(q[i])
  BY <1>1
<1>3. /\ \A i \in 1..Len(h) : i \in 1..Len(g)
      /\ \A i \in 1..Len(q) : Len(h) + i \in 1..Len(g)
      /\ \A i \in 1..Len(g) : i \in 1..Len(h) \/ (i - Len(h) \in 1..Len(q) /\ g[i] = UserEntry(q[i - Len(h)]))
  <2>1. \A i \in 1..Len(g) : i \in 1..Len(h) \/ i - Len(h) \in 1..Len(q)
    BY <1>2
  <2>2. \A i \in 1..Len(g) : i = Len(h) + (i - Len(h))
    BY <1>2
  <2> QED BY <1>2, <2>1, <2>2
<1>4. /\ \A i \in 1..Len(q) : q[i] \in Messages /\ UserEntry(q[i]).role = "user" /\ UserEntry(q[i]).msg = q[i]
      /\ \A i \in 1..Len(h) : h[i] \in Entries /\ (h[i].role = "user" => h[i].msg \in Messages)
  BY DEF UserEntry, Entries
<1>5. \A i \in 1..Len(q) : Heard(g, q[i])
  BY <1>2, <1>3 DEF Heard
<1> HIDE DEF g
<1>6. \A j \in 1..Len(g) : g[j].role = "user" => K[g[j].msg] # "unsent"
  <2> TAKE j \in 1..Len(g)
  <2>1. CASE j \in 1..Len(h)
    BY <1>2, <2>1 DEF Orderly, HeardInOrder
  <2>2. CASE j - Len(h) \in 1..Len(q) /\ g[j] = UserEntry(q[j - Len(h)])
    BY <1>4, <2>2 DEF Orderly, QueuedInOrder
  <2> QED BY <1>3, <2>1, <2>2
<1>7. ASSUME NEW i \in 1..Len(g), NEW j \in 1..Len(g),
             g[i].role = "user", g[j].role = "user", i < j, g[j].msg < g[i].msg
      PROVE  \E k \in 1..(i - 1) : g[k] = g[j]
  <2>1. CASE j \in 1..Len(h)
    <3>1. i \in 1..Len(h) /\ g[i] = h[i] /\ g[j] = h[j]
      BY <1>2, <1>7, <2>1
    <3>2. PICK k \in 1..(i - 1) : h[k] = h[j]
      BY <1>7, <2>1, <3>1 DEF Orderly, HeardInOrder
    <3>3. k \in 1..Len(h)
      BY <3>1, <3>2
    <3> QED BY <1>2, <3>1, <3>2, <3>3
  <2>2. CASE j - Len(h) \in 1..Len(q) /\ g[j] = UserEntry(q[j - Len(h)])
    <3> DEFINE b == j - Len(h)
    <3>1. g[j].msg = q[b] /\ q[b] \in Messages /\ b \in 1..Len(q)
      BY <1>4, <2>2
    <3>2. i \in 1..Len(h)
      <4> SUFFICES ASSUME i - Len(h) \in 1..Len(q), g[i] = UserEntry(q[i - Len(h)]) PROVE FALSE
        BY <1>3
      <4>1. g[i].msg = q[i - Len(h)] /\ q[i - Len(h)] \in Messages
        BY <1>4
      <4>2. i - Len(h) < b
        BY <1>2, <1>7
      <4>3. q[i - Len(h)] < q[b]
        BY <3>1, <4>2 DEF Orderly, QueuedInOrder
      <4> QED BY <1>7, <3>1, <4>1, <4>3 DEF Messages
    <3> HIDE DEF b
    <3>3. g[i] = h[i] /\ h[i].role = "user" /\ q[b] < h[i].msg
      BY <1>2, <1>7, <3>1, <3>2
    <3>4. PICK k \in 1..Len(h) : h[k] = UserEntry(q[b])
      BY <3>1, <3>2, <3>3 DEF Orderly, HeardInOrder, Heard
    <3>5. h[k].role = "user" /\ h[k].msg = q[b]
      BY <1>4, <3>1, <3>4
    <3>6. CASE k < i
      <4>1. k \in 1..(i - 1)
        BY <3>2, <3>6
      <4> QED BY <1>2, <2>2, <3>4, <4>1 DEF b
    <3>7. CASE i < k
      <4>1. PICK l \in 1..(i - 1) : h[l] = h[k]
        BY <3>2, <3>3, <3>5, <3>7 DEF Orderly, HeardInOrder
      <4>2. l \in 1..Len(h)
        BY <3>2, <4>1
      <4> QED BY <1>2, <2>2, <3>4, <4>1, <4>2 DEF b
    <3>8. CASE k = i
      <4>1. h[i].msg = q[b]
        BY <3>5, <3>8
      <4> QED BY <3>1, <3>3, <4>1 DEF Messages
    <3>9. k \in Int /\ i \in Int
      BY <3>2
    <3> QED BY <3>6, <3>7, <3>8, <3>9
  <2> QED BY <1>3, <2>1, <2>2
<1>8. HeardInOrder(g, q, K)
  BY <1>5, <1>6, <1>7 DEF HeardInOrder
<1> QED BY <1>8 DEF Orderly, g

\* Order is kept over other entries.
LEMMA OtherOrder ==
    ASSUME NEW h \in Seq(Entries), NEW e \in Entries, e.role # "user", NEW q, NEW K, Orderly(h, q, K)
    PROVE  Orderly(Append(h, e), q, K)
<1> DEFINE g == Append(h, e)
<1>1. /\ Len(g) = Len(h) + 1 /\ Len(h) \in Nat /\ g[Len(h) + 1] = e
      /\ \A i \in 1..Len(h) : g[i] = h[i]
  OBVIOUS
<1>2. /\ \A i \in 1..Len(h) : i \in 1..Len(g)
      /\ \A i \in 1..Len(g) : g[i].role = "user" => i \in 1..Len(h) /\ g[i] = h[i]
  BY <1>1
<1> HIDE DEF g
<1>3. \A m : Heard(h, m) => Heard(g, m)
  BY <1>1, <1>2 DEF Heard
<1>4. ASSUME NEW i \in 1..Len(g), NEW j \in 1..Len(g),
             g[i].role = "user", g[j].role = "user", i < j, g[j].msg < g[i].msg
      PROVE  \E k \in 1..(i - 1) : g[k] = g[j]
  <2>1. i \in 1..Len(h) /\ j \in 1..Len(h) /\ g[i] = h[i] /\ g[j] = h[j]
    BY <1>2, <1>4
  <2>2. PICK k \in 1..(i - 1) : h[k] = h[j]
    BY <1>4, <2>1 DEF Orderly, HeardInOrder
  <2>3. k \in 1..Len(h)
    BY <2>1, <2>2
  <2> QED BY <1>1, <2>1, <2>2, <2>3
<1>5. HeardInOrder(g, q, K)
  <2>1. \A j \in 1..Len(g) : g[j].role = "user" => K[g[j].msg] # "unsent"
    BY <1>2 DEF Orderly, HeardInOrder
  <2>2. \A i \in 1..Len(q), j \in 1..Len(g) : g[j].role = "user" /\ q[i] < g[j].msg => Heard(g, q[i])
    BY <1>2, <1>3 DEF Orderly, HeardInOrder
  <2> QED BY <1>4, <2>1, <2>2 DEF HeardInOrder
<1> QED BY <1>5 DEF Orderly, g

\* Order is kept in every step.
LEMMA OrderStep == TypeOK /\ OrderInv /\ [Next]_vars => OrderInv'
<1> SUFFICES ASSUME TypeOK, OrderInv, [Next]_vars PROVE OrderInv'
  OBVIOUS
<1>1. TypeOK' /\ QueueMoves /\ HistoryMoves
  BY TypeStep, QueueMoved, HistoryMoved
<1>2. Orderly(loop.history, pending', kind')
  BY <1>1, QueueOrder
<1>3. loop.history \in Seq(Entries) /\ pending' \in Seq(Messages)
  BY <1>1 DEF TypeOK, Loops
<1>4. Orderly(loop'.history, pending', kind')
  BY <1>1, <1>2, <1>3, EnterOrder, OtherOrder DEF HistoryMoves
<1> QED BY <1>4 DEF OrderInv

\* Nothing is out of order at first.
LEMMA OrderInit == Init => OrderInv
BY DEF Init, OrderInv, Orderly, SentInOrder, QueuedInOrder, HeardInOrder

\* An orderly history is one in the order of sending.
LEMMA OrderSafe == TypeOK /\ OrderInv => SendOrder
BY DEF OrderInv, Orderly, HeardInOrder, SendOrder

-----------------------------------------------------------------------------
(* Untroubled behaviours.                                                   *)

InProgress(c) == call[c] \in {"checking", "saveApproval", "waiting", "decided", "executing"}

\* A call that runs, that waits for the runner or that the runner has still to be
\* given.
Busy == {c \in Calls : InProgress(c) \/ slot[c] = "queued" \/ \E i \in 1..Len(dispatch) : dispatch[i] = c}

\* Each is of a step that waits for it.
BusyInTools == \A c \in Busy : \E s \in Steps : loop.pc[s] = "tools" /\ c \in turn[s]

\* The step in flight is the promise's, and there is one while there is a promise.
OneInFlight == /\ ~loop.overdue
               /\ \A s \in Steps : loop.pc[s] # "idle" <=> loop.promise = s

PlainSailing ==
    /\ ~loop.interrupted /\ interrupting = "no"
    /\ \A c \in Calls : call[c] # "threw"
    /\ \A s \in Steps : loop.pc[s] \notin {"saveInfoAfterError", "rejected", "catching"}

\* A round that is asked for finds the agent READY.
ReadyAtRest ==
    loop.promise = NoStep \/ loop.pc[loop.promise] = "returned" => loop.state = "READY"

FlushHolds == \A s \in Steps : loop.pc[s] = "flush" => s \in loop.flushing

\* A user message in the queue has a step that takes it along, or a round asked for.
Tended == (\E i \in 1..Len(pending) : kind[pending[i]] = "user")
             => loop.promise # NoStep /\ (loop.next \/ loop.pc[loop.promise] = "flush")

Control == OneInFlight /\ PlainSailing /\ ReadyAtRest /\ FlushHolds /\ Tended

\* The history up to the message n is one that the model may be sent.
AskedBefore(h, n) == \A i \in 1..(n - 1) :
    h[i].role = "assistant" /\ h[i].uses # {} => i < Len(h) /\ h[i + 1] = Results(h[i].uses)
Replied(h) == \A i \in 1..Len(h) : h[i].role = "results" => i > 1 /\ h[i - 1] = Assistant(h[i].uses)

\* It ends with a message whose calls cs are still to be answered.
EndsWith(h, cs) == h # <<>> /\ h[Len(h)] = Assistant(cs) /\ AskedBefore(h, Len(h)) /\ Replied(h)

Asking == {"saveTurn", "tools", "saveRecords"}

Conversation ==
    /\ \A s \in Steps : /\ loop.pc[s] \in Asking => EndsWith(loop.history, turn[s])
                        /\ loop.pc[s] \in {"tools", "saveRecords"} => turn[s] # {}
    /\ (\A s \in Steps : loop.pc[s] \notin Asking) => WellFormed(loop.history)

SmoothInv == Untroubled => Control /\ BusyInTools /\ Conversation

\* A behaviour is untroubled up to the first trouble.
LEMMA StaysUntroubled ==
    ASSUME TypeOK, [Next]_vars, Untroubled'
    PROVE  Untroubled /\ ~Interrupt /\ ~TimePasses /\ ~Fault
<1>1. env \in [interrupts : Nat, timeouts : Nat, faults : Nat, crashes : Nat]
  BY DEF TypeOK
<1>2. ~Interrupt /\ ~TimePasses /\ ~Fault
  BY <1>1 DEF Interrupt, TimePasses, Fault, Untroubled
<1>3. env' = env
  BY <1>2 DEF Next, Send, Remind, Decide, InterruptSaved, StepNext, Flushed, ModelTurn, TurnSaved, ToolsJoined,
     RecordsSaved, ResultsSaved, InfoSaved, ToolsRejected, Finally, Catch, Dispatch, CallNext, Check, CallGoes,
     ApprovalSaved, Proceed, Execute, Settle, Release, Faults, StepFails, RescueFails, CallThrows, vars
<1> QED BY <1>2, <1>3 DEF Untroubled

-----------------------------------------------------------------------------
\* What is well formed, over the ways a history grows.
LEMMA TurnOpens ==
    ASSUME NEW h \in Seq(Entries), NEW cs \in SUBSET Calls, WellFormed(h)
    PROVE  EndsWith(Append(h, Assistant(cs)), cs)
<1> DEFINE g == Append(h, Assistant(cs))
<1>1. /\ Len(g) = Len(h) + 1 /\ Len(h) \in Nat /\ g[Len(h) + 1] = Assistant(cs) /\ g # <<>>
      /\ \A i \in 1..Len(h) : g[i] = h[i]
  BY EntriesOfCalls
<1> HIDE DEF g
<1>2. AskedBefore(g, Len(g))
  <2> SUFFICES ASSUME NEW i \in 1..Len(h), g[i].role = "assistant", g[i].uses # {}
               PROVE  i < Len(g) /\ g[i + 1] = Results(g[i].uses)
    BY <1>1 DEF AskedBefore
  <2>1. i < Len(h) /\ h[i + 1] = Results(h[i].uses)
    BY <1>1 DEF WellFormed
  <2>2. i + 1 \in 1..Len(h)
    BY <1>1, <2>1
  <2> QED BY <1>1, <2>1, <2>2
<1>3. Replied(g)
  <2> SUFFICES ASSUME NEW i \in 1..Len(g), g[i].role = "results"
               PROVE  i > 1 /\ g[i - 1] = Assistant(g[i].uses)
    BY DEF Replied
  <2>1. i \in 1..Len(h)
    BY <1>1 DEF Assistant
  <2>2. i > 1 /\ h[i - 1] = Assistant(h[i].uses)
    BY <1>1, <2>1 DEF WellFormed
  <2>3. i - 1 \in 1..Len(h)
    BY <1>1, <2>1, <2>2
  <2> QED BY <1>1, <2>1, <2>2, <2>3
<1> QED BY <1>1, <1>2, <1>3 DEF EndsWith, g

\* A message without calls leaves nothing to answer.
LEMMA NothingOpen ==
    ASSUME NEW h \in Seq(Entries), EndsWith(h, {})
    PROVE  WellFormed(h)
<1>1. Len(h) \in Nat /\ h[Len(h)].uses = {}
  BY DEF EndsWith, Assistant
<1>2. \A i \in 1..Len(h) : i = Len(h) \/ i \in 1..(Len(h) - 1)
  BY <1>1
<1> QED BY <1>1, <1>2 DEF EndsWith, AskedBefore, Replied, WellFormed

\* The results of its calls close a turn.
LEMMA ResultsClose ==
    ASSUME NEW h \in Seq(Entries), NEW cs \in SUBSET Calls, EndsWith(h, cs)
    PROVE  WellFormed(Append(h, Results(cs)))
<1> DEFINE g == Append(h, Results(cs))
<1>1. /\ Len(g) = Len(h) + 1 /\ Len(h) \in Nat /\ g[Len(h) + 1] = Results(cs) /\ Len(h) >= 1
      /\ \A i \in 1..Len(h) : g[i] = h[i]
  BY EntriesOfCalls DEF EndsWith
<1>2. h[Len(h)] = Assistant(cs)
  BY DEF EndsWith
<1> HIDE DEF g
<1>3. ASSUME NEW i \in 1..Len(g), g[i].role = "assistant", g[i].uses # {}
      PROVE  i < Len(g) /\ g[i + 1] = Results(g[i].uses)
  <2>1. i \in 1..Len(h)
    BY <1>1, <1>3 DEF Results
  <2>2. CASE i = Len(h)
    <3>1. g[i].uses = cs
      BY <1>1, <1>2, <2>1, <2>2 DEF Assistant
    <3> QED BY <1>1, <2>2, <3>1
  <2>3. CASE i # Len(h)
    <3>1. i \in 1..(Len(h) - 1)
      BY <1>1, <2>1, <2>3
    <3>2. i < Len(h) /\ h[i + 1] = Results(h[i].uses)
      BY <1>1, <1>3, <2>1, <3>1 DEF EndsWith, AskedBefore
    <3>3. i + 1 \in 1..Len(h)
      BY <1>1, <3>1
    <3> QED BY <1>1, <2>1, <3>2, <3>3
  <2> QED BY <2>2, <2>3
<1>4. ASSUME NEW i \in 1..Len(g), g[i].role = "results"
      PROVE  i > 1 /\ g[i - 1] = Assistant(g[i].uses)
  <2>1. CASE i = Len(h) + 1
    <3>1. g[i].uses = cs
      BY <1>1, <2>1 DEF Results
    <3> QED BY <1>1, <1>2, <2>1, <3>1
  <2>2. CASE i # Len(h) + 1
    <3>1. i \in 1..Len(h)
      BY <1>1, <2>2
    <3>2. i > 1 /\ h[i - 1] = Assistant(h[i].uses)
      BY <1>1, <1>4, <3>1 DEF EndsWith, Replied
    <3>3. i - 1 \in 1..Len(h)
      BY <1>1, <3>1, <3>2
    <3> QED BY <1>1, <3>1, <3>2, <3>3
  <2> QED BY <2>1, <2>2
<1> QED BY <1>3, <1>4 DEF WellFormed, g

\* User messages may follow where nothing is open.
LEMMA QueueFits ==
    ASSUME NEW h \in Seq(Entries), NEW q \in Seq(Messages), WellFormed(h)
    PROVE  WellFormed(h \o Entered(q))
<1> DEFINE g == h \o Entered(q)
<1>1. Entered(q) \in Seq(Entries) /\ Len(Entered(q)) = Len(q)
      /\ \A i \in 1..Len(q) : Entered(q)[i] = UserEntry(q[i])
  BY EnteredType
<1>2. /\ Len(g) = Len(h) + Len(q) /\ Len(h) \in Nat /\ Len(q) \in Nat
      /\ \A i \in 1..Len(h) : g[i] = h[i]
      /\ \A i \in 1..Len(q) : g[Len(h) + i] = UserEntry(q[i])
  BY <1>1
<1>3. \A i \in 1..Len(g) : i \in 1..Len(h) \/ g[i].role = "user"
  <2> SUFFICES ASSUME NEW i \in 1..Len(g), i \notin 1..Len(h) PROVE g[i].role = "user"
    OBVIOUS
  <2>1. i - Len(h) \in 1..Len(q) /\ i = Len(h) + (i - Len(h))
    BY <1>2
  <2>2. g[i] = UserEntry(q[i - Len(h)])
    BY <1>2, <2>1
  <2> QED BY <2>2 DEF UserEntry
<1> HIDE DEF g
<1>4. ASSUME NEW i \in 1..Len(g), g[i].role = "assistant", g[i].uses # {}
      PROVE  i < Len(g) /\ g[i + 1] = Results(g[i].uses)
  <2>1. i \in 1..Len(h) /\ i < Len(h) /\ h[i + 1] = Results(h[i].uses)
    BY <1>2, <1>3, <1>4 DEF WellFormed
  <2>2. i + 1 \in 1..Len(h)
    BY <1>2, <2>1
  <2> QED BY <1>2, <2>1, <2>2
<1>5. ASSUME NEW i \in 1..Len(g), g[i].role = "results"
      PROVE  i > 1 /\ g[i - 1] = Assistant(g[i].uses)
  <2>1. i \in 1..Len(h) /\ i > 1 /\ h[i - 1] = Assistant(h[i].uses)
    BY <1>2, <1>3, <1>5 DEF WellFormed
  <2>2. i - 1 \in 1..Len(h)
    BY <1>2, <2>1
  <2> QED BY <1>2, <2>1, <2>2
<1> QED BY <1>4, <1>5 DEF WellFormed, g

-----------------------------------------------------------------------------
\* What ensureProcessing() does when a step is in flight, and when none is.
LEMMA EnsureFlies ==
    ASSUME NEW L \in Loops, NEW q, InFlight(L)
    PROVE  EnsureProcessing(L, q) = [L EXCEPT !.next = TRUE]
BY DEF EnsureProcessing

Begins(L, N, s, q) ==
    /\ s \in Steps /\ L.pc[s] = "idle"
    /\ N.promise = s /\ N.pc = [L.pc EXCEPT ![s] = IF q = <<>> THEN "model" ELSE "flush"]
    /\ N.state = "WORKING" /\ ~N.next /\ ~N.overdue /\ ~N.interrupted
    /\ q # <<>> => s \in N.flushing
    /\ N.history \in {L.history, L.history \o Entered(q)}

\* At rest it begins a step.
LEMMA EnsureBegins ==
    ASSUME NEW L \in Loops, NEW q \in Seq(Messages), CanEnsure(L), ~InFlight(L),
           L.state = "READY", ~L.interrupted
    PROVE  \E s \in Steps : Begins(L, EnsureProcessing(L, q), s, q)
<1> DEFINE s == CHOOSE x \in IdleSteps(L) : TRUE
           M == [L EXCEPT !.next = FALSE, !.overdue = FALSE]
           N == EnsureProcessing(L, q)
<1>1. s \in Steps /\ L.pc[s] = "idle"
  BY NewStep
<1>2. /\ M \in Loops /\ M.history = L.history /\ M.pc = L.pc /\ M.state = "READY" /\ ~M.interrupted
      /\ ~M.next /\ ~M.overdue
  BY DEF Loops
<1>3. N = [BeginStep(M, s, q) EXCEPT !.promise = s]
  BY DEF EnsureProcessing
<1>4. N.history \in {L.history, L.history \o Entered(q)}
  BY EnsureHistory
<1> HIDE DEF s, M, N
<1>5. CASE q = <<>>
  <2>1. BeginStep(M, s, q) = [M EXCEPT !.pc[s] = "model", !.state = "WORKING"]
    BY <1>2, <1>5 DEF BeginStep
  <2>2. N = [M EXCEPT !.pc = [M.pc EXCEPT ![s] = "model"], !.state = "WORKING", !.promise = s]
    BY <1>2, <1>3, <2>1 DEF Loops
  <2>3. /\ N.promise = s /\ N.pc = [L.pc EXCEPT ![s] = "model"] /\ N.state = "WORKING"
        /\ ~N.next /\ ~N.overdue /\ ~N.interrupted
    BY <1>2, <2>2 DEF Loops
  <2> QED BY <1>1, <1>4, <1>5, <2>3 DEF Begins, N
<1>6. CASE q # <<>>
  <2>1. BeginStep(M, s, q) = [M EXCEPT !.pc[s] = "flush", !.state = "WORKING",
                                       !.flushing = @ \cup {s}, !.history = @ \o Entered(q)]
    BY <1>2, <1>6 DEF BeginStep, Entered
  <2> QED BY <1>1, <1>2, <1>3, <1>4, <1>6, <2>1 DEF Begins, N, Loops
<1> QED BY <1>5, <1>6
-----------------------------------------------------------------------------
\* The steps of the loop that neither end a turn nor touch the queue: s goes from
\* its place to pc.
Goes(s, pc) ==
    /\ loop.pc[s] \in {"model", "saveTurn", "tools", "saveRecords"}
    /\ pc \in {"saveTurn", "tools", "saveRecords", "saveResults", "saveInfo"}
    /\ loop'.pc = [loop.pc EXCEPT ![s] = pc]
    /\ loop'.promise = loop.promise /\ loop'.next = loop.next /\ loop'.overdue = loop.overdue
    /\ loop'.interrupted = loop.interrupted /\ loop'.state = loop.state /\ loop'.flushing = loop.flushing
    /\ UNCHANGED <<pending, kind, call, interrupting>>

\* These actions go on in this way.
LEMMA GoesOn ==
    ASSUME TypeOK, NEW s \in Steps, ModelTurn(s) \/ TurnSaved(s) \/ ToolsJoined(s) \/ RecordsSaved(s)
    PROVE  \E pc \in StepPcs : Goes(s, pc)
<1>0. loop \in Loops
  BY DEF TypeOK
<1>1. \A pc : /\ Goto(s, pc) = [loop EXCEPT !.pc = [loop.pc EXCEPT ![s] = pc]]
              /\ Goto(s, pc).pc = [loop.pc EXCEPT ![s] = pc] /\ Goto(s, pc).promise = loop.promise
              /\ Goto(s, pc).next = loop.next /\ Goto(s, pc).overdue = loop.overdue
              /\ Goto(s, pc).interrupted = loop.interrupted /\ Goto(s, pc).state = loop.state
              /\ Goto(s, pc).flushing = loop.flushing
  BY <1>0 DEF Goto, Loops
<1>2. \A pc, h : LET G == [Goto(s, pc) EXCEPT !.history = h]
                 IN /\ G.pc = [loop.pc EXCEPT ![s] = pc] /\ G.promise = loop.promise
                    /\ G.next = loop.next /\ G.overdue = loop.overdue
                    /\ G.interrupted = loop.interrupted /\ G.state = loop.state /\ G.flushing = loop.flushing
  BY <1>0, <1>1 DEF Loops
<1>3. CASE ModelTurn(s)
  <2>1. PICK cs \in SUBSET Unasked :
           loop' = [Goto(s, "saveTurn") EXCEPT !.history = Append(Goto(s, "saveTurn").history, Assistant(cs))]
    BY <1>3 DEF ModelTurn
  <2>2. UNCHANGED <<pending, kind, call, interrupting>> /\ loop.pc[s] = "model"
    BY <1>3 DEF ModelTurn, At, callVars
  <2> QED BY <1>2, <2>1, <2>2 DEF Goes, StepPcs
<1>4. CASE TurnSaved(s)
  <2>1. loop' \in {Goto(s, "tools"), Goto(s, "saveInfo")}
    BY <1>4 DEF TurnSaved, EmitDone
  <2>2. UNCHANGED <<pending, kind, call, interrupting>> /\ loop.pc[s] = "saveTurn"
    BY <1>4 DEF TurnSaved, At, callVars
  <2> QED BY <1>1, <2>1, <2>2 DEF Goes, StepPcs
<1>5. CASE ToolsJoined(s)
  <2>1. UNCHANGED <<pending, kind, call, interrupting>> /\ loop.pc[s] = "tools" /\ loop' = Goto(s, "saveRecords")
    BY <1>5 DEF ToolsJoined, At, callVars
  <2> QED BY <1>1, <2>1 DEF Goes, StepPcs
<1>6. CASE RecordsSaved(s)
  <2>1. loop' = [Goto(s, "saveResults") EXCEPT !.history = Append(Goto(s, "saveResults").history, Results(turn[s]))]
    BY <1>6 DEF RecordsSaved
  <2>2. UNCHANGED <<pending, kind, call, interrupting>> /\ loop.pc[s] = "saveRecords"
    BY <1>6 DEF RecordsSaved, At, callVars
  <2> QED BY <1>2, <2>1, <2>2 DEF Goes, StepPcs
<1> QED BY <1>3, <1>4, <1>5, <1>6

\* Control is kept over them.
LEMMA ControlGoes ==
    ASSUME TypeOK, Control, NEW s \in Steps, NEW pc \in StepPcs, Goes(s, pc)
    PROVE  Control'
<1>1. loop.pc \in [Steps -> StepPcs] /\ loop.promise \in Steps \cup {NoStep}
  BY DEF TypeOK, Loops
<1>2. loop.promise = s /\ s # NoStep
  BY DEF Control, OneInFlight, Goes, Steps, NoStep
<1>3. loop'.pc[s] = pc /\ \A t \in Steps \ {s} : loop'.pc[t] = loop.pc[t]
  BY <1>1 DEF Goes
<1>4. OneInFlight'
  BY <1>2, <1>3 DEF Control, OneInFlight, Goes
<1>5. PlainSailing'
  BY <1>3 DEF Control, PlainSailing, Goes
<1>6. ReadyAtRest' /\ FlushHolds' /\ Tended'
  BY <1>2, <1>3 DEF Control, ReadyAtRest, FlushHolds, Tended, Goes
<1> QED BY <1>4, <1>5, <1>6 DEF Control

\* A step begins from rest.
LEMMA ControlBegins ==
    ASSUME NEW L \in Loops, \A t \in Steps : L.pc[t] = "idle", pending' \in Seq(Messages),
           NEW s \in Steps, Begins(L, loop', s, pending'), loop' \in Loops,
           interrupting' = "no", \A c \in Calls : call'[c] # "threw"
    PROVE  Control'
<1>1. loop'.pc[s] = (IF pending' = <<>> THEN "model" ELSE "flush") /\ \A t \in Steps \ {s} : loop'.pc[t] = "idle"
  BY DEF Begins, Loops
<1>2. loop'.promise = s /\ s # NoStep
  BY DEF Begins, Steps, NoStep
<1>3. OneInFlight' /\ PlainSailing'
  BY <1>1, <1>2 DEF OneInFlight, PlainSailing, Begins
<1>4. ReadyAtRest' /\ FlushHolds'
  BY <1>1, <1>2 DEF ReadyAtRest, FlushHolds, Begins
<1>5. Tended'
  <2>1. CASE pending' = <<>>
    BY <2>1 DEF Tended
  <2>2. CASE pending' # <<>>
    BY <1>1, <1>2, <2>2 DEF Tended
  <2> QED BY <2>1, <2>2
<1> QED BY <1>3, <1>4, <1>5 DEF Control

\* Control is kept over send(): a step takes the message along or is asked for a
\* round.
LEMMA ControlSend ==
    ASSUME TypeOK, TypeOK', Control, Send
    PROVE  Control'
<1>0. loop \in Loops /\ loop' \in Loops /\ pending' \in Seq(Messages)
  BY DEF TypeOK
<1>1. UNCHANGED <<call, interrupting>> /\ loop' = EnsureProcessing(loop, pending') /\ CanEnsure(loop)
  BY DEF Send, callVars
<1>2. CASE InFlight(loop)
  <2>1. loop' = [loop EXCEPT !.next = TRUE] /\ loop.promise # NoStep
    BY <1>0, <1>1, <1>2, EnsureFlies DEF InFlight
  <2>2. /\ loop'.pc = loop.pc /\ loop'.promise = loop.promise /\ loop'.overdue = loop.overdue /\ loop'.next
        /\ loop'.state = loop.state /\ loop'.interrupted = loop.interrupted /\ loop'.flushing = loop.flushing
    BY <1>0, <2>1 DEF Loops
  <2> QED BY <1>1, <2>1, <2>2 DEF Control, OneInFlight, PlainSailing, ReadyAtRest, FlushHolds, Tended
<1>3. CASE ~InFlight(loop)
  <2>1. loop.promise = NoStep
    BY <1>3 DEF Control, OneInFlight, InFlight
  <2>2. loop.state = "READY" /\ ~loop.interrupted /\ \A t \in Steps : loop.pc[t] = "idle"
    BY <2>1 DEF Control, ReadyAtRest, OneInFlight, PlainSailing, Steps, NoStep
  <2>3. PICK s \in Steps : Begins(loop, loop', s, pending')
    BY <1>0, <1>1, <1>3, <2>2, EnsureBegins
  <2>4. interrupting' = "no" /\ \A c \in Calls : call'[c] # "threw"
    BY <1>1 DEF Control, PlainSailing
  <2> QED BY <1>0, <2>2, <2>3, <2>4, ControlBegins
<1> QED BY <1>2, <1>3

\* Control is kept over finally: the round that was asked for begins.
LEMMA ControlFinally ==
    ASSUME TypeOK, TypeOK', Control, NEW s \in Steps, Finally(s)
    PROVE  Control'
<1>0. loop \in Loops /\ loop' \in Loops /\ pending' \in Seq(Messages)
  BY DEF TypeOK
<1> DEFINE L == [loop EXCEPT !.promise = NoStep, !.pc[s] = IF @ = "rejected" THEN "catching" ELSE "idle"]
           pc == [loop.pc EXCEPT ![s] = "idle"]
<1>1. loop.pc[s] = "returned" /\ UNCHANGED <<pending, kind, call, interrupting>>
  BY DEF Finally, Control, PlainSailing, callVars
<1>2. loop.promise = s /\ s # NoStep /\ loop.state = "READY"
  BY <1>1 DEF Control, OneInFlight, ReadyAtRest, Steps, NoStep
<1>3. L = [loop EXCEPT !.promise = NoStep, !.pc = pc] /\ pc \in [Steps -> StepPcs]
  BY <1>0, <1>1 DEF Loops, StepPcs
<1>4. \/ loop.next /\ CanEnsure(L) /\ loop' = EnsureProcessing(L, pending)
      \/ ~loop.next /\ loop' = L
  BY DEF Finally
<1>5. \A t \in Steps : pc[t] = "idle"
  BY <1>0, <1>2 DEF Control, OneInFlight, Loops
<1> HIDE DEF L, pc
<1>6. /\ L \in Loops /\ L.promise = NoStep /\ L.pc = pc /\ L.state = "READY" /\ ~L.interrupted
      /\ ~L.overdue /\ L.flushing = loop.flushing /\ L.next = loop.next
  BY <1>0, <1>2, <1>3 DEF Loops, Control, PlainSailing, OneInFlight
<1>7. interrupting' = "no" /\ \A c \in Calls : call'[c] # "threw"
  BY <1>1 DEF Control, PlainSailing
<1>8. CASE loop.next
  <2>1. CanEnsure(L) /\ ~InFlight(L) /\ loop' = EnsureProcessing(L, pending) /\ pending' = pending
    BY <1>1, <1>4, <1>6, <1>8 DEF InFlight
  <2>2. PICK t \in Steps : Begins(L, loop', t, pending')
    BY <1>0, <1>6, <2>1, EnsureBegins
  <2> QED BY <1>0, <1>5, <1>6, <1>7, <2>2, ControlBegins
<1>9. CASE ~loop.next
  <2>1. loop' = L
    BY <1>4, <1>9
  <2>2. ~\E i \in 1..Len(pending') : kind'[pending'[i]] = "user"
    BY <1>1, <1>2, <1>9 DEF Control, Tended
  <2>3. OneInFlight' /\ PlainSailing'
    BY <1>5, <1>6, <1>7, <2>1 DEF OneInFlight, PlainSailing, Steps, NoStep
  <2>4. ReadyAtRest' /\ FlushHolds'
    BY <1>5, <1>6, <2>1 DEF ReadyAtRest, FlushHolds
  <2> QED BY <2>2, <2>3, <2>4 DEF Control, Tended
<1> QED BY <1>8, <1>9

\* The ends of a turn.
LEMMA ControlEnds ==
    ASSUME TypeOK, Control, NEW s \in Steps, ResultsSaved(s) \/ InfoSaved(s)
    PROVE  Control'
<1>0. loop \in Loops
  BY DEF TypeOK
<1>1. loop.pc[s] \in {"saveResults", "saveInfo"} /\ UNCHANGED <<pending, kind, call, interrupting>>
  BY DEF ResultsSaved, InfoSaved, At, Control, PlainSailing, callVars
<1>2. loop.promise = s /\ s # NoStep /\ ~loop.overdue
  BY <1>1 DEF Control, OneInFlight, Steps, NoStep
<1>3. \E b \in {TRUE, loop.next} :
         loop' = [loop EXCEPT !.next = b, !.pc = [loop.pc EXCEPT ![s] = "returned"], !.state = "READY"]
  <2>1. CASE ResultsSaved(s)
    <3>1. EnsureProcessing(loop, pending) = [loop EXCEPT !.next = TRUE]
      BY <1>0, <1>2, EnsureFlies DEF InFlight
    <3>2. loop' = [EnsureProcessing(loop, pending) EXCEPT !.pc[s] = "returned", !.state = "READY"]
      BY <2>1 DEF ResultsSaved
    <3> QED BY <1>0, <3>1, <3>2 DEF Loops
  <2>2. CASE InfoSaved(s)
    <3>1. loop' = [Goto(s, "returned") EXCEPT !.state = "READY"]
      BY <2>2 DEF InfoSaved
    <3> QED BY <1>0, <3>1 DEF Goto, Loops
  <2> QED BY <2>1, <2>2
<1>4. /\ loop'.pc[s] = "returned" /\ \A t \in Steps \ {s} : loop'.pc[t] = loop.pc[t]
      /\ loop'.promise = s /\ loop'.state = "READY" /\ (loop.next => loop'.next) /\ loop'.overdue = loop.overdue
      /\ loop'.interrupted = loop.interrupted /\ loop'.flushing = loop.flushing
  <2> DEFINE pc == [loop.pc EXCEPT ![s] = "returned"]
  <2>1. pc[s] = "returned" /\ \A t \in Steps \ {s} : pc[t] = loop.pc[t]
    BY <1>0 DEF Loops
  <2>2. PICK b \in {TRUE, loop.next} : loop' = [loop EXCEPT !.next = b, !.pc = pc, !.state = "READY"]
    BY <1>3
  <2> HIDE DEF pc
  <2> QED BY <1>0, <1>2, <2>1, <2>2 DEF Loops
<1>5. OneInFlight' /\ PlainSailing'
  BY <1>1, <1>2, <1>4 DEF Control, OneInFlight, PlainSailing
<1>6. ReadyAtRest' /\ FlushHolds'
  BY <1>4 DEF Control, ReadyAtRest, FlushHolds
<1>7. Tended'
  BY <1>1, <1>2, <1>4 DEF Control, Tended
<1> QED BY <1>5, <1>6, <1>7 DEF Control

\* Control is kept over the end of a flush, which may drop messages and strands
\* none.
LEMMA ControlFlushed ==
    ASSUME TypeOK, Control, NEW s \in Steps, Flushed(s)
    PROVE  Control'
<1>0. loop \in Loops
  BY DEF TypeOK
<1>1. loop.pc[s] = "flush" /\ s \in loop.flushing /\ pending' = <<>> /\ UNCHANGED <<kind, call, interrupting>>
  BY DEF Flushed, At, Control, FlushHolds, callVars
<1>2. loop.promise = s /\ s # NoStep
  BY <1>1 DEF Control, OneInFlight, Steps, NoStep
<1>3. loop' = [loop EXCEPT !.pc = [loop.pc EXCEPT ![s] = "model"], !.flushing = {}]
  BY <1>0, <1>1 DEF Flushed, Goto, Loops
<1>4. /\ loop'.pc[s] = "model" /\ \A t \in Steps \ {s} : loop'.pc[t] = loop.pc[t]
      /\ loop'.promise = s /\ loop'.state = loop.state /\ loop'.overdue = loop.overdue
      /\ loop'.interrupted = loop.interrupted
  BY <1>0, <1>2, <1>3 DEF Loops
<1>5. \A t \in Steps \ {s} : loop.pc[t] = "idle"
  BY <1>2 DEF Control, OneInFlight
<1>6. OneInFlight' /\ PlainSailing'
  BY <1>1, <1>2, <1>4 DEF Control, OneInFlight, PlainSailing
<1>7. ReadyAtRest' /\ FlushHolds' /\ Tended'
  BY <1>1, <1>2, <1>4, <1>5 DEF ReadyAtRest, FlushHolds, Tended
<1> QED BY <1>6, <1>7 DEF Control
\* A call that is busy has its step, which is the promise's.
LEMMA BusyStep ==
    ASSUME TypeOK, Control, BusyInTools, NEW c \in Busy
    PROVE  /\ loop.promise \in Steps /\ loop.promise # NoStep
           /\ loop.pc[loop.promise] = "tools" /\ c \in turn[loop.promise]
BY DEF BusyInTools, Control, OneInFlight, Steps, NoStep

\* Control is kept over decisions and requests for approval: the step waits for its
\* tools.
LEMMA ControlCall ==
    ASSUME TypeOK, Control, BusyInTools, NEW c \in Calls,
           Decide(c, "allow") \/ Decide(c, "deny") \/ ApprovalSaved(c)
    PROVE  Control'
<1>0. loop \in Loops /\ call \in [Calls -> CallPcs]
  BY DEF TypeOK
<1>1. c \in Busy
  BY DEF Decide, ApprovalSaved, Busy, InProgress
<1>2. loop.promise \in Steps /\ loop.promise # NoStep /\ loop.pc[loop.promise] = "tools" /\ ~loop.overdue
  BY <1>1, BusyStep DEF Control, OneInFlight
<1>3. UNCHANGED <<pending, kind, interrupting>> /\ \A b \in Calls : call'[b] # "threw"
  BY <1>0 DEF Decide, ApprovalSaved, Control, PlainSailing
<1>4. \E st \in {"WORKING", "READY", "PAUSED"}, b \in {TRUE, loop.next} :
         loop' = [loop EXCEPT !.state = st, !.next = b]
  <2>1. CASE Decide(c, "allow")
    <3> DEFINE L == [loop EXCEPT !.state = "WORKING"]
    <3>1. L \in Loops /\ InFlight(L)
      BY <1>0, <1>2 DEF Loops, InFlight
    <3>2. loop' = EnsureProcessing(L, pending)
      BY <2>1 DEF Decide
    <3>3. loop' = [L EXCEPT !.next = TRUE]
      BY <3>1, <3>2, EnsureFlies
    <3> QED BY <1>0, <3>3 DEF Loops
  <2>2. CASE Decide(c, "deny")
    <3>1. loop' = [loop EXCEPT !.state = "READY"]
      BY <2>2 DEF Decide
    <3> QED BY <1>0, <3>1 DEF Loops
  <2>3. CASE ApprovalSaved(c)
    <3>1. loop' = [loop EXCEPT !.state = "PAUSED"]
      BY <2>3 DEF ApprovalSaved
    <3> QED BY <1>0, <3>1 DEF Loops
  <2> QED BY <2>1, <2>2, <2>3
<1>5. /\ loop'.pc = loop.pc /\ loop'.promise = loop.promise /\ (loop.next => loop'.next)
      /\ loop'.overdue = loop.overdue /\ loop'.interrupted = loop.interrupted /\ loop'.flushing = loop.flushing
  BY <1>0, <1>4 DEF Loops
<1>6. OneInFlight' /\ PlainSailing'
  BY <1>3, <1>5 DEF Control, OneInFlight, PlainSailing
<1>7. ReadyAtRest' /\ FlushHolds' /\ Tended'
  BY <1>2, <1>3, <1>5 DEF Control, ReadyAtRest, FlushHolds, Tended
<1> QED BY <1>6, <1>7 DEF Control

\* Control is kept by what leaves the loop alone.
LEMMA ControlElse ==
    ASSUME TypeOK, Control, UNCHANGED <<loop, interrupting>>,
           \A c \in Calls : call'[c] \in {call[c], "checking", "saveApproval", "executing", "returned"},
           \A i \in 1..Len(pending') : kind'[pending'[i]] = "user"
                => \E k \in 1..Len(pending) : kind[pending[k]] = "user"
    PROVE  Control'
<1>1. OneInFlight' /\ PlainSailing'
  BY DEF Control, OneInFlight, PlainSailing
<1>2. ReadyAtRest' /\ FlushHolds' /\ Tended'
  BY DEF Control, ReadyAtRest, FlushHolds, Tended
<1> QED BY <1>1, <1>2 DEF Control

\* Control is kept in every step without trouble.
LEMMA ControlStep ==
    ASSUME TypeOK, TypeOK', Control, BusyInTools, [Next]_vars, ~Interrupt, ~TimePasses, ~Fault
    PROVE  Control'
<1>0. call \in [Calls -> CallPcs] /\ kind \in [Messages -> {"unsent", "user", "reminder"}] /\ pending \in Seq(Messages)
  BY DEF TypeOK
<1>1. CASE Send
  BY <1>1, ControlSend
<1>2. CASE Remind
  <2>1. NextMessage \in Messages
    BY <1>2 DEF Remind, MayEnqueue, NextMessage
  <2>2. /\ UNCHANGED <<loop, interrupting, call>> /\ pending' = Append(pending, NextMessage)
        /\ kind' = [kind EXCEPT ![NextMessage] = "reminder"]
    BY <1>2 DEF Remind, callVars
  <2>3. ASSUME NEW i \in 1..Len(pending'), kind'[pending'[i]] = "user"
        PROVE  \E k \in 1..Len(pending) : kind[pending[k]] = "user"
    <3> HIDE DEF NextMessage
    <3>1. i \in 1..Len(pending) \/ (i = Len(pending) + 1 /\ pending'[i] = NextMessage)
      BY <1>0, <2>1, <2>2
    <3>2. kind'[NextMessage] = "reminder" /\ \A m \in Messages \ {NextMessage} : kind'[m] = kind[m]
      BY <1>0, <2>1, <2>2
    <3>3. i \in 1..Len(pending) /\ pending'[i] = pending[i] /\ pending[i] \in Messages
      BY <1>0, <2>1, <2>2, <2>3, <3>1, <3>2
    <3> QED BY <2>3, <3>2, <3>3
  <2> QED BY <2>2, <2>3, ControlElse
<1>3. CASE \E c \in Calls : Decide(c, "allow") \/ Decide(c, "deny") \/ ApprovalSaved(c)
  BY <1>3, ControlCall
<1>4. CASE InterruptSaved
  BY <1>4 DEF InterruptSaved, Control, PlainSailing
<1>5. CASE \E s \in Steps : ModelTurn(s) \/ TurnSaved(s) \/ ToolsJoined(s) \/ RecordsSaved(s)
  BY <1>5, GoesOn, ControlGoes
<1>6. CASE \E s \in Steps : ResultsSaved(s) \/ InfoSaved(s)
  BY <1>6, ControlEnds
<1>7. CASE \E s \in Steps : Flushed(s)
  BY <1>7, ControlFlushed
<1>8. CASE \E s \in Steps : Finally(s)
  BY <1>8, ControlFinally
<1>9. CASE \E s \in Steps : ToolsRejected(s) \/ Catch(s)
  <2>1. \A s \in Steps : turn[s] \subseteq Calls
    BY DEF TypeOK
  <2> QED BY <1>9, <2>1 DEF ToolsRejected, Catch, At, Control, PlainSailing
<1>10. CASE Faults
  BY <1>10 DEF Faults, StepFails, RescueFails, CallThrows
<1>11. CASE Dispatch \/ \E c \in Calls : Release(c)
  <2>1. UNCHANGED <<loop, interrupting, pending, kind>> /\ RegisterStarted
    BY <1>11 DEF Dispatch, Release, loopVars
  <2>2. \A c \in Calls : call'[c] \in {call[c], "checking"}
    BY <2>1 DEF RegisterStarted
  <2> QED BY <2>1, <2>2, ControlElse
<1>12. CASE \E c \in Calls : Check(c) \/ Proceed(c) \/ Execute(c) \/ Settle(c)
  <2>1. UNCHANGED <<loop, interrupting, pending, kind>>
    BY <1>12 DEF Check, Proceed, Execute, Settle, CallGoes, loopVars
  <2>2. call' = call \/ \E c \in Calls, pc \in {"saveApproval", "executing", "returned"} : call' = [call EXCEPT ![c] = pc]
    BY <1>12 DEF Check, Proceed, Execute, Settle, CallGoes, callVars
  <2>3. \A c \in Calls : call'[c] \in {call[c], "saveApproval", "executing", "returned"}
    BY <1>0, <2>2
  <2> QED BY <2>1, <2>3, ControlElse
<1>13. CASE UNCHANGED vars
  <2>1. UNCHANGED <<loop, interrupting, pending, kind, call>>
    BY <1>13 DEF vars, loopVars, callVars
  <2> QED BY <2>1, ControlElse
<1> QED BY <1>1, <1>2, <1>3, <1>4, <1>5, <1>6, <1>7, <1>8, <1>9, <1>10, <1>11, <1>12, <1>13
        DEF Next, StepNext, CallNext
-----------------------------------------------------------------------------
\* A step that waits for its tools goes on waiting until they have joined.
LEMMA ToolsStay ==
    ASSUME TypeOK, Control, [Next]_vars, ~Interrupt, ~TimePasses, ~Fault,
           NEW s \in Steps, loop.pc[s] = "tools", ~ToolsJoined(s)
    PROVE  loop'.pc[s] = "tools" /\ turn'[s] = turn[s]
<1>0. loop \in Loops /\ turn \in [Steps -> SUBSET Calls]
  BY DEF TypeOK
<1>1. loop.promise = s /\ s # NoStep /\ InFlight(loop) /\ \A t \in Steps \ {s} : loop.pc[t] = "idle"
  BY DEF Control, OneInFlight, InFlight, Steps, NoStep
<1>2. CASE UNCHANGED turn /\ loop'.pc = loop.pc
  BY <1>2
<1>3. CASE Send
  <2>1. loop' = [loop EXCEPT !.next = TRUE]
    BY <1>0, <1>1, <1>3, EnsureFlies DEF Send
  <2> QED BY <1>0, <1>2, <1>3, <2>1 DEF Send, Loops
<1>4. CASE \E c \in Calls : Decide(c, "allow")
  <2> DEFINE L == [loop EXCEPT !.state = "WORKING"]
  <2>1. L \in Loops /\ InFlight(L) /\ L.pc = loop.pc
    BY <1>0, <1>1 DEF Loops, InFlight
  <2>2. loop' = EnsureProcessing(L, pending) /\ UNCHANGED turn
    BY <1>4 DEF Decide
  <2>3. loop' = [L EXCEPT !.next = TRUE]
    BY <2>1, <2>2, EnsureFlies
  <2> HIDE DEF L
  <2> QED BY <1>2, <2>1, <2>2, <2>3 DEF Loops
<1>5. CASE InterruptSaved \/ \E c \in Calls : Decide(c, "deny") \/ ApprovalSaved(c)
  BY <1>0, <1>2, <1>5 DEF InterruptSaved, Decide, ApprovalSaved, Loops
<1>6. CASE UNCHANGED <<turn, loop>>
  BY <1>2, <1>6
<1>7. \A t \in Steps : ~(Flushed(t) \/ ModelTurn(t) \/ TurnSaved(t) \/ RecordsSaved(t) \/ ResultsSaved(t)
                        \/ InfoSaved(t) \/ Finally(t) \/ Catch(t))
  BY <1>1 DEF Flushed, ModelTurn, TurnSaved, RecordsSaved, ResultsSaved, InfoSaved, Finally, Catch, At
<1>8. \A t \in Steps : ~ToolsRejected(t)
  <2>1. \A t \in Steps : turn[t] \subseteq Calls
    BY <1>0
  <2> QED BY <2>1 DEF ToolsRejected, Control, PlainSailing
<1>9. \A t \in Steps : ~ToolsJoined(t)
  BY <1>1 DEF ToolsJoined, At
<1>10. ~Faults
  BY DEF Faults, StepFails, RescueFails, CallThrows
<1> QED BY <1>3, <1>4, <1>5, <1>6, <1>7, <1>8, <1>9, <1>10 DEF Next, Remind, StepNext, Dispatch,
        CallNext, Check, CallGoes, Proceed, Execute, Settle, Release, vars, loopVars

\* Calls become busy when their step hands them out, and not otherwise.
LEMMA BusyGrows ==
    ASSUME TypeOK, Facts!IInv, [Next]_vars, ~Interrupt
    PROVE  Busy' \subseteq Busy \/ \E s \in Steps : TurnSaved(s) /\ loop'.pc[s] = "tools" /\ turn' = turn
                                                   /\ Busy' \subseteq Busy \cup turn[s]
<1>0. /\ call \in [Calls -> CallPcs] /\ dispatch \in Seq(Calls) /\ loop \in Loops /\ turn \in [Steps -> SUBSET Calls]
  BY DEF TypeOK
<1>1. /\ queue \in Seq(Calls) /\ slot \in [Calls -> Facts!Statuses]
      /\ \A i \in 1..Len(queue) : slot[queue[i]] = "queued"
  BY DEF Facts!IInv, Facts!RunnerTypeOK, Facts!QueueIsWaiting
<1>2. CASE UNCHANGED <<slot, dispatch>> /\ \A c \in Calls : InProgress(c)' => InProgress(c)
  BY <1>2 DEF Busy
<1>3. CASE Dispatch
  <2> DEFINE d == Head(dispatch)
  <2>1. d \in Calls /\ \E i \in 1..Len(dispatch) : dispatch[i] = d
    BY <1>0, <1>3 DEF Dispatch
  <2>2. d \in Busy
    BY <2>1 DEF Busy
  <2>3. dispatch # <<>> /\ dispatch' = Tail(dispatch) /\ RegisterStarted
    BY <1>3 DEF Dispatch
  <2>3a. \E st \in {"running", "queued"} : slot' = [slot EXCEPT ![d] = st]
    BY <1>3 DEF Dispatch, Runner!Run
  <2> HIDE DEF d
  <2>4. \A c \in Calls \ {d} : slot'[c] = slot[c]
    BY <1>1, <2>1, <2>3a
  <2>5. \A c \in Calls \ {d} : call'[c] = call[c]
    BY <2>3, <2>4 DEF RegisterStarted, Started
  <2>6. \A i \in 1..Len(dispatch') : \E k \in 1..Len(dispatch) : dispatch[k] = dispatch'[i]
    BY <1>0, <2>3
  <2>7. \A c \in Busy' : c = d \/ c \in Busy
    BY <2>4, <2>5, <2>6 DEF Busy, InProgress
  <2> QED BY <2>2, <2>7
<1>4. CASE \E c \in Calls : Release(c)
  <2> PICK c \in Calls : Release(c)
    BY <1>4
  <2>1. RegisterStarted /\ UNCHANGED dispatch /\ slot[c] = "releasing"
    BY DEF Release, Runner!Release, loopVars
  <2>2. CASE queue # <<>> /\ slot' = [slot EXCEPT ![c] = "done", ![Head(queue)] = "running"]
    <3>1. Head(queue) \in Calls /\ slot[Head(queue)] = "queued" /\ Head(queue) \in Busy
      BY <1>1, <2>2 DEF Busy
    <3>2. \A b \in Calls \ {c, Head(queue)} : slot'[b] = slot[b]
      BY <1>1, <2>2, <3>1
    <3>3. slot'[c] \in {"done", "running"} /\ c # Head(queue)
      BY <1>1, <2>1, <2>2, <3>1
    <3>4. slot'[c] = "done"
      BY <1>1, <2>2, <3>1, <3>3
    <3>5. \A b \in Calls \ {Head(queue)} : call'[b] = call[b]
      BY <2>1, <3>2, <3>4 DEF RegisterStarted, Started
    <3>6. \A b \in Busy' : b = Head(queue) \/ b \in Busy
      BY <2>1, <3>2, <3>4, <3>5 DEF Busy, InProgress
    <3> QED BY <3>1, <3>6
  <2>3. CASE slot' = [slot EXCEPT ![c] = "done"]
    <3>1. \A b \in Calls : slot'[b] \in {slot[b], "done"}
      BY <1>1, <2>3
    <3>2. call' = call
      <4>1. \A b \in Calls : call'[b] = call[b]
        BY <2>1, <3>1 DEF RegisterStarted, Started
      <4>2. call' \in [Calls -> CallPcs]
        BY <2>1, TypeStarted
      <4> QED BY <1>0, <4>1, <4>2
    <3> QED BY <2>1, <3>1, <3>2 DEF Busy, InProgress
  <2> QED BY <2>2, <2>3 DEF Release, Runner!Release
<1>5. CASE \E c \in Calls : Settle(c)
  <2>1. UNCHANGED <<call, dispatch>> /\ \E c \in Calls : slot' = [slot EXCEPT ![c] = "releasing"]
    BY <1>5 DEF Settle, Runner!Settle, loopVars, callVars
  <2>2. \A c \in Calls : slot'[c] \in {slot[c], "releasing"}
    BY <1>1, <2>1
  <2> QED BY <2>1, <2>2 DEF Busy, InProgress
<1>6. CASE \E c \in Calls : \/ Decide(c, "allow") \/ Decide(c, "deny") \/ Check(c) \/ ApprovalSaved(c)
                            \/ Proceed(c) \/ Execute(c) \/ CallThrows(c)
  <2>1. PICK c \in Calls : \/ Decide(c, "allow") \/ Decide(c, "deny") \/ Check(c) \/ ApprovalSaved(c)
                           \/ Proceed(c) \/ Execute(c) \/ CallThrows(c)
    BY <1>6
  <2>2. UNCHANGED <<slot, dispatch>> /\ InProgress(c) /\ \E pc \in CallPcs : call' = [call EXCEPT ![c] = pc]
    BY <2>1 DEF Decide, Check, ApprovalSaved, Proceed, Execute, CallThrows, CallGoes, InProgress, loopVars,
       runnerVars, CallPcs
  <2>3. \A b \in Calls \ {c} : call'[b] = call[b]
    BY <1>0, <2>2
  <2> QED BY <1>2, <2>2, <2>3 DEF InProgress
<1>7. CASE \E s \in Steps : TurnSaved(s)
  <2> PICK s \in Steps : TurnSaved(s)
    BY <1>7
  <2>1. UNCHANGED <<slot, call, turn>>
    BY DEF TurnSaved, runnerVars, callVars
  <2>2. CASE turn[s] = {} /\ UNCHANGED dispatch
    BY <1>2, <2>1, <2>2 DEF InProgress
  <2>3. CASE turn[s] # {}
    <3>1. loop'.pc[s] = "tools"
      BY <1>0, <2>3 DEF TurnSaved, Goto, Loops
    <3>2. dispatch' \in [1..Cardinality(turn[s]) -> turn[s]]
      BY <2>3 DEF TurnSaved
    <3>3. Cardinality(turn[s]) \in Nat
      BY <1>0, CallsAssumption, FS_Subset, FS_CardinalityType
    <3>4. \A i \in 1..Len(dispatch') : dispatch'[i] \in turn[s]
      BY <3>2, <3>3
    <3>5. Busy' \subseteq Busy \cup turn[s]
      BY <2>1, <3>4 DEF Busy, InProgress
    <3> QED BY <2>1, <3>1, <3>5
  <2> QED BY <2>2, <2>3 DEF TurnSaved
<1>8. CASE UNCHANGED <<slot, dispatch, call>>
  BY <1>2, <1>8 DEF InProgress
<1> QED BY <1>3, <1>4, <1>5, <1>6, <1>7, <1>8 DEF Next, Send, Remind, InterruptSaved, TimePasses, StepNext,
        Flushed, ModelTurn, ToolsJoined, RecordsSaved, ResultsSaved, InfoSaved, ToolsRejected, Finally, Catch,
        CallNext, Faults, StepFails, RescueFails, vars, loopVars, runnerVars, callVars

\* Busy calls have their step, in every step without trouble.
LEMMA BusyHolds ==
    ASSUME TypeOK, Control, BusyInTools, Facts!IInv, [Next]_vars, ~Interrupt, ~TimePasses, ~Fault
    PROVE  BusyInTools'
<1>0. turn \in [Steps -> SUBSET Calls]
  BY DEF TypeOK
<1>1. CASE \E s \in Steps : ToolsJoined(s)
  <2> PICK s \in Steps : ToolsJoined(s)
    BY <1>1
  <2>1. UNCHANGED <<call, slot, dispatch>> /\ dispatch = <<>> /\ loop.pc[s] = "tools"
    BY DEF ToolsJoined, At, Quiet, runnerVars, callVars
  <2>2. \A c \in turn[s] : call[c] = "returned" /\ slot[c] \in {"releasing", "done"}
    BY DEF ToolsJoined
  <2>3. \A t \in Steps : loop.pc[t] = "tools" => t = s
    BY <2>1 DEF Control, OneInFlight
  <2>4. Busy = {}
    <3> SUFFICES ASSUME NEW c \in Busy PROVE FALSE
      OBVIOUS
    <3>1. c \in turn[s] /\ c \in Calls
      BY <2>3 DEF BusyInTools, Busy
    <3>2. call[c] = "returned" /\ slot[c] # "queued"
      BY <2>2, <3>1
    <3>3. ~\E i \in 1..Len(dispatch) : dispatch[i] = c
      BY <2>1
    <3> QED BY <3>2, <3>3 DEF Busy, InProgress
  <2>5. Busy' = Busy
    BY <2>1 DEF Busy, InProgress
  <2> QED BY <2>4, <2>5 DEF BusyInTools
<1>2. CASE ~\E s \in Steps : ToolsJoined(s)
  <2>1. \A s \in Steps : loop.pc[s] = "tools" => loop'.pc[s] = "tools" /\ turn'[s] = turn[s]
    BY <1>2, ToolsStay
  <2>2. \A c \in Busy : \E s \in Steps : loop'.pc[s] = "tools" /\ c \in turn'[s]
    BY <2>1 DEF BusyInTools
  <2>3. \A c \in Busy' : \E s \in Steps : loop'.pc[s] = "tools" /\ c \in turn'[s]
    BY <2>2, BusyGrows
  <2> QED BY <2>3 DEF BusyInTools
<1> QED BY <1>1, <1>2
-----------------------------------------------------------------------------
\* A history that stays, while nobody starts or stops asking.
LEMMA ConversationStays ==
    ASSUME Conversation, loop'.history = loop.history,
           \A t \in Steps : \/ loop'.pc[t] = loop.pc[t] /\ turn'[t] = turn[t]
                            \/ loop.pc[t] \notin Asking /\ loop'.pc[t] \notin Asking
    PROVE  Conversation'
<1>1. \A t \in Steps : loop'.pc[t] \in Asking => loop'.pc[t] = loop.pc[t] /\ turn'[t] = turn[t]
  OBVIOUS
<1>2. \A t \in Steps : loop'.pc[t] \in Asking <=> loop.pc[t] \in Asking
  OBVIOUS
<1>3. {"tools", "saveRecords"} \subseteq Asking
  BY DEF Asking
<1> QED BY <1>1, <1>2, <1>3 DEF Conversation

\* Nobody asks, before and after.
LEMMA ConversationAtRest ==
    ASSUME TypeOK, Conversation, pending' \in Seq(Messages),
           loop'.history \in {loop.history, loop.history \o Entered(pending')},
           \A t \in Steps : loop.pc[t] \notin Asking /\ loop'.pc[t] \notin Asking
    PROVE  Conversation'
<1>1. WellFormed(loop.history) /\ loop.history \in Seq(Entries)
  BY DEF Conversation, TypeOK, Loops
<1>2. WellFormed(loop'.history)
  BY <1>1, QueueFits
<1>3. {"tools", "saveRecords"} \subseteq Asking
  BY DEF Asking
<1> QED BY <1>2, <1>3 DEF Conversation

\* The conversation over the actions of a turn.
LEMMA ConversationTurn ==
    ASSUME TypeOK, Control, Conversation, NEW s \in Steps,
           ModelTurn(s) \/ TurnSaved(s) \/ ToolsJoined(s) \/ RecordsSaved(s)
    PROVE  Conversation'
<1>0. loop \in Loops /\ loop.history \in Seq(Entries) /\ turn \in [Steps -> SUBSET Calls]
  BY DEF TypeOK, Loops
<1>1. loop.pc[s] \in {"model", "saveTurn", "tools", "saveRecords"}
  BY DEF ModelTurn, TurnSaved, ToolsJoined, RecordsSaved, At
<1>2. \A t \in Steps \ {s} : loop.pc[t] = "idle"
  BY <1>1 DEF Control, OneInFlight
<1>3. \A pc, h : /\ Goto(s, pc).pc[s] = pc /\ Goto(s, pc).history = loop.history
                 /\ \A t \in Steps \ {s} : Goto(s, pc).pc[t] = loop.pc[t]
                 /\ [Goto(s, pc) EXCEPT !.history = h].pc = Goto(s, pc).pc
                 /\ [Goto(s, pc) EXCEPT !.history = h].history = h
  BY <1>0 DEF Goto, Loops
<1>4. CASE ModelTurn(s)
  <2>1. PICK cs \in SUBSET Unasked :
           /\ loop' = [Goto(s, "saveTurn") EXCEPT !.history = Append(Goto(s, "saveTurn").history, Assistant(cs))]
           /\ turn' = [turn EXCEPT ![s] = cs]
    BY <1>4 DEF ModelTurn
  <2>2. /\ loop'.pc[s] = "saveTurn" /\ loop'.history = Append(loop.history, Assistant(cs)) /\ turn'[s] = cs
        /\ \A t \in Steps \ {s} : loop'.pc[t] = "idle"
    BY <1>0, <1>2, <1>3, <2>1
  <2>3. loop.pc[s] = "model"
    BY <1>4 DEF ModelTurn, At
  <2>4. WellFormed(loop.history)
    BY <1>2, <2>3 DEF Conversation, Asking
  <2>5. cs \in SUBSET Calls
    BY <2>1 DEF Unasked
  <2>6. EndsWith(loop'.history, cs)
    BY <1>0, <2>2, <2>4, <2>5, TurnOpens
  <2> QED BY <2>2, <2>6 DEF Conversation, Asking
<1>5. CASE TurnSaved(s)
  <2>1. loop.pc[s] = "saveTurn" /\ turn' = turn /\ EndsWith(loop.history, turn[s])
    BY <1>5 DEF TurnSaved, At, Conversation, Asking
  <2>2. CASE turn[s] = {} /\ loop' = Goto(s, "saveInfo")
    <3>1. /\ loop'.pc[s] = "saveInfo" /\ loop'.history = loop.history
          /\ \A t \in Steps \ {s} : loop'.pc[t] = "idle"
      BY <1>2, <1>3, <2>2
    <3>2. WellFormed(loop.history)
      BY <1>0, <2>1, <2>2, NothingOpen
    <3> QED BY <3>1, <3>2 DEF Conversation, Asking
  <2>3. CASE turn[s] # {} /\ loop' = Goto(s, "tools")
    <3>1. /\ loop'.pc[s] = "tools" /\ loop'.history = loop.history
          /\ \A t \in Steps \ {s} : loop'.pc[t] = "idle"
      BY <1>2, <1>3, <2>3
    <3> QED BY <2>1, <2>3, <3>1 DEF Conversation, Asking
  <2> QED BY <1>5, <2>2, <2>3 DEF TurnSaved, EmitDone
<1>6. CASE ToolsJoined(s)
  <2>1. loop.pc[s] = "tools" /\ turn' = turn /\ loop' = Goto(s, "saveRecords")
    BY <1>6 DEF ToolsJoined, At
  <2>2. /\ loop'.pc[s] = "saveRecords" /\ loop'.history = loop.history
        /\ \A t \in Steps \ {s} : loop'.pc[t] = "idle"
    BY <1>2, <1>3, <2>1
  <2> QED BY <2>1, <2>2 DEF Conversation, Asking
<1>7. CASE RecordsSaved(s)
  <2>1. /\ loop.pc[s] = "saveRecords" /\ turn' = turn
        /\ loop' = [Goto(s, "saveResults") EXCEPT !.history = Append(Goto(s, "saveResults").history, Results(turn[s]))]
    BY <1>7 DEF RecordsSaved, At
  <2>2. /\ loop'.pc[s] = "saveResults" /\ loop'.history = Append(loop.history, Results(turn[s]))
        /\ \A t \in Steps \ {s} : loop'.pc[t] = "idle"
    BY <1>2, <1>3, <2>1
  <2>3. EndsWith(loop.history, turn[s])
    BY <2>1 DEF Conversation, Asking
  <2>4. WellFormed(loop'.history)
    BY <1>0, <2>2, <2>3, ResultsClose
  <2> QED BY <2>2, <2>4 DEF Conversation, Asking
<1> QED BY <1>4, <1>5, <1>6, <1>7

\* The conversation over send().
LEMMA ConversationSend ==
    ASSUME TypeOK, TypeOK', Control, Conversation, Send
    PROVE  Conversation'
<1>0. loop \in Loops /\ pending' \in Seq(Messages)
  BY DEF TypeOK
<1>1. UNCHANGED turn /\ loop' = EnsureProcessing(loop, pending') /\ CanEnsure(loop)
  BY DEF Send
<1>2. CASE InFlight(loop)
  <2>1. loop' = [loop EXCEPT !.next = TRUE]
    BY <1>0, <1>1, <1>2, EnsureFlies
  <2>2. loop'.pc = loop.pc /\ loop'.history = loop.history
    BY <1>0, <2>1 DEF Loops
  <2> QED BY <1>1, <2>2, ConversationStays
<1>3. CASE ~InFlight(loop)
  <2>1. loop.promise = NoStep
    BY <1>3 DEF Control, OneInFlight, InFlight
  <2>2. loop.state = "READY" /\ ~loop.interrupted /\ \A t \in Steps : loop.pc[t] = "idle"
    BY <2>1 DEF Control, ReadyAtRest, OneInFlight, PlainSailing, Steps, NoStep
  <2>3. PICK s \in Steps : Begins(loop, loop', s, pending')
    BY <1>0, <1>1, <1>3, <2>2, EnsureBegins
  <2>4. \A t \in Steps : loop'.pc[t] \in {"idle", "model", "flush"}
    BY <1>0, <2>2, <2>3 DEF Begins, Loops
  <2>5. \A t \in Steps : loop.pc[t] \notin Asking /\ loop'.pc[t] \notin Asking
    BY <2>2, <2>4 DEF Asking
  <2>6. loop'.history \in {loop.history, loop.history \o Entered(pending')}
    BY <2>3 DEF Begins
  <2> QED BY <1>0, <2>5, <2>6, ConversationAtRest
<1> QED BY <1>2, <1>3

\* The conversation over finally.
LEMMA ConversationFinally ==
    ASSUME TypeOK, TypeOK', Control, Conversation, NEW s \in Steps, Finally(s)
    PROVE  Conversation'
<1>0. loop \in Loops /\ loop' \in Loops /\ pending' \in Seq(Messages)
  BY DEF TypeOK
<1> DEFINE L == [loop EXCEPT !.promise = NoStep, !.pc[s] = IF @ = "rejected" THEN "catching" ELSE "idle"]
           pc == [loop.pc EXCEPT ![s] = "idle"]
<1>1. loop.pc[s] = "returned" /\ UNCHANGED <<pending, turn>>
  BY DEF Finally, Control, PlainSailing
<1>2. loop.promise = s /\ s # NoStep /\ loop.state = "READY"
  BY <1>1 DEF Control, OneInFlight, ReadyAtRest, Steps, NoStep
<1>3. L = [loop EXCEPT !.promise = NoStep, !.pc = pc] /\ pc \in [Steps -> StepPcs]
  BY <1>0, <1>1 DEF Loops, StepPcs
<1>4. \/ loop.next /\ CanEnsure(L) /\ loop' = EnsureProcessing(L, pending)
      \/ ~loop.next /\ loop' = L
  BY DEF Finally
<1>5. \A t \in Steps : pc[t] = "idle" /\ loop.pc[t] \in {"idle", "returned"}
  BY <1>0, <1>1, <1>2 DEF Control, OneInFlight, Loops
<1> HIDE DEF L, pc
<1>6. /\ L \in Loops /\ L.promise = NoStep /\ L.pc = pc /\ L.state = "READY" /\ ~L.interrupted
      /\ L.history = loop.history
  BY <1>0, <1>2, <1>3 DEF Loops, Control, PlainSailing, OneInFlight
<1>7. /\ \A t \in Steps : loop'.pc[t] \in {"idle", "model", "flush"}
      /\ loop'.history \in {loop.history, loop.history \o Entered(pending')}
  <2>1. CASE loop.next
    <3>1. CanEnsure(L) /\ ~InFlight(L) /\ loop' = EnsureProcessing(L, pending) /\ pending' = pending
      BY <1>1, <1>4, <1>6, <2>1 DEF InFlight
    <3>2. PICK t \in Steps : Begins(L, loop', t, pending')
      BY <1>0, <1>6, <3>1, EnsureBegins
    <3> QED BY <1>0, <1>5, <1>6, <3>2 DEF Begins, Loops
  <2>2. CASE ~loop.next
    BY <1>4, <1>5, <1>6, <2>2
  <2> QED BY <2>1, <2>2
<1>8. \A t \in Steps : loop.pc[t] \notin Asking /\ loop'.pc[t] \notin Asking
  BY <1>5, <1>7 DEF Asking
<1> QED BY <1>0, <1>7, <1>8, ConversationAtRest

\* The conversation over the other saves.
LEMMA ConversationEnds ==
    ASSUME TypeOK, Control, Conversation, NEW s \in Steps, ResultsSaved(s) \/ InfoSaved(s) \/ Flushed(s)
    PROVE  Conversation'
<1>0. loop \in Loops /\ turn \in [Steps -> SUBSET Calls]
  BY DEF TypeOK
<1>1. loop.pc[s] \in {"saveResults", "saveInfo", "flush"}
  BY DEF ResultsSaved, InfoSaved, Flushed, At, Control, PlainSailing
<1>2. InFlight(loop)
  BY <1>1 DEF Control, OneInFlight, InFlight, Steps, NoStep
<1>3. \A t \in Steps \ {s} : turn'[t] = turn[t]
  BY <1>0 DEF ResultsSaved, InfoSaved, Flushed
<1>4. \E b \in {TRUE, loop.next}, st \in {"READY", loop.state}, f \in {{}, loop.flushing}, c \in {"returned", "model"} :
         loop' = [loop EXCEPT !.next = b, !.pc = [loop.pc EXCEPT ![s] = c], !.state = st, !.flushing = f]
  <2>1. CASE ResultsSaved(s)
    <3>1. EnsureProcessing(loop, pending) = [loop EXCEPT !.next = TRUE]
      BY <1>0, <1>2, EnsureFlies
    <3>2. loop' = [EnsureProcessing(loop, pending) EXCEPT !.pc[s] = "returned", !.state = "READY"]
      BY <2>1 DEF ResultsSaved
    <3>3. loop' = [loop EXCEPT !.next = TRUE, !.pc = [loop.pc EXCEPT ![s] = "returned"], !.state = "READY"]
      BY <1>0, <3>1, <3>2 DEF Loops
    <3>4. loop' = [loop EXCEPT !.next = TRUE, !.pc = [loop.pc EXCEPT ![s] = "returned"], !.state = "READY",
                               !.flushing = loop.flushing]
      BY <1>0, <3>3 DEF Loops
    <3> QED BY <3>4
  <2>2. CASE InfoSaved(s)
    <3>1. loop' = [Goto(s, "returned") EXCEPT !.state = "READY"]
      BY <2>2 DEF InfoSaved
    <3> QED BY <1>0, <3>1 DEF Goto, Loops
  <2>3. CASE Flushed(s)
    <3>1. loop' = [loop EXCEPT !.pc = [loop.pc EXCEPT ![s] = "model"],
                               !.flushing = IF s \in loop.flushing THEN {} ELSE loop.flushing]
      BY <1>0, <2>3 DEF Flushed, Goto, Loops
    <3> QED BY <1>0, <3>1 DEF Loops
  <2> QED BY <2>1, <2>2, <2>3
<1>5. \E c \in {"returned", "model"} : loop'.pc = [loop.pc EXCEPT ![s] = c] /\ loop'.history = loop.history
  BY <1>0, <1>4 DEF Loops
<1>6. loop'.pc[s] \in {"returned", "model"} /\ \A t \in Steps \ {s} : loop'.pc[t] = loop.pc[t]
  BY <1>0, <1>5 DEF Loops
<1>7. loop.pc[s] \notin Asking /\ loop'.pc[s] \notin Asking
  BY <1>1, <1>6 DEF Asking
<1> QED BY <1>3, <1>5, <1>6, <1>7, ConversationStays

\* The conversation is kept in every step without trouble.
LEMMA ConversationStep ==
    ASSUME TypeOK, TypeOK', Control, BusyInTools, Conversation, [Next]_vars, ~Interrupt, ~TimePasses, ~Fault
    PROVE  Conversation'
<1>0. loop \in Loops
  BY DEF TypeOK
<1>1. CASE Send
  BY <1>1, ConversationSend
<1>2. CASE \E s \in Steps : ModelTurn(s) \/ TurnSaved(s) \/ ToolsJoined(s) \/ RecordsSaved(s)
  BY <1>2, ConversationTurn
<1>3. CASE \E s \in Steps : ResultsSaved(s) \/ InfoSaved(s) \/ Flushed(s)
  BY <1>3, ConversationEnds
<1>4. CASE \E s \in Steps : Finally(s)
  BY <1>4, ConversationFinally
<1>5. CASE \E s \in Steps : ToolsRejected(s) \/ Catch(s)
  <2>1. \A s \in Steps : turn[s] \subseteq Calls
    BY DEF TypeOK
  <2> QED BY <1>5, <2>1 DEF ToolsRejected, Catch, At, Control, PlainSailing
<1>6. CASE Faults
  BY <1>6 DEF Faults, StepFails, RescueFails, CallThrows
<1>7. CASE \E c \in Calls : Decide(c, "allow")
  <2> PICK c \in Calls : Decide(c, "allow")
    BY <1>7
  <2> DEFINE L == [loop EXCEPT !.state = "WORKING"]
  <2>1. c \in Busy
    BY DEF Decide, Busy, InProgress
  <2>2. L \in Loops /\ InFlight(L) /\ L.pc = loop.pc /\ L.history = loop.history
    BY <1>0, <2>1, BusyStep DEF Loops, InFlight, Control, OneInFlight
  <2>3. loop' = EnsureProcessing(L, pending) /\ UNCHANGED turn
    BY DEF Decide
  <2>4. loop' = [L EXCEPT !.next = TRUE]
    BY <2>2, <2>3, EnsureFlies
  <2> HIDE DEF L
  <2>5. loop'.pc = loop.pc /\ loop'.history = loop.history
    BY <2>2, <2>4 DEF Loops
  <2> QED BY <2>3, <2>5, ConversationStays
<1>8. CASE InterruptSaved \/ \E c \in Calls : Decide(c, "deny") \/ ApprovalSaved(c)
  <2>1. loop'.pc = loop.pc /\ loop'.history = loop.history /\ UNCHANGED turn
    BY <1>0, <1>8 DEF InterruptSaved, Decide, ApprovalSaved, Loops
  <2> QED BY <2>1, ConversationStays
<1>9. CASE UNCHANGED <<loop, turn>>
  BY <1>9, ConversationStays
<1> QED BY <1>1, <1>2, <1>3, <1>4, <1>5, <1>6, <1>7, <1>8, <1>9 DEF Next, Remind, StepNext, Dispatch, CallNext,
        Check, CallGoes, Proceed, Execute, Settle, Release, vars, loopVars

-----------------------------------------------------------------------------
\* All of it holds at first.
LEMMA SmoothInit == Init => SmoothInv
<1> SUFFICES ASSUME Init PROVE Control /\ BusyInTools /\ Conversation
  BY DEF SmoothInv
<1>0. /\ loop.pc = [s \in Steps |-> "idle"] /\ loop.promise = NoStep /\ ~loop.overdue /\ ~loop.interrupted
      /\ loop.state = "READY" /\ loop.history = <<>> /\ pending = <<>> /\ dispatch = <<>>
  BY DEF Init
<1>1. OneInFlight /\ PlainSailing /\ ReadyAtRest /\ FlushHolds /\ Tended
  BY <1>0 DEF Init, OneInFlight, PlainSailing, ReadyAtRest, FlushHolds, Tended, Steps, NoStep
<1>2. Busy = {}
  BY <1>0 DEF Init, Busy, InProgress, Runner!RunnerInit
<1>3. WellFormed(loop.history)
  BY <1>0 DEF WellFormed
<1>4. Conversation
  BY <1>0, <1>3 DEF Conversation, Asking
<1> QED BY <1>1, <1>2, <1>4 DEF Control, BusyInTools

\* It is kept in every step, with the runner's invariant beside it.
LEMMA SmoothStep == TypeOK /\ Facts!IInv /\ SmoothInv /\ [Next]_vars => SmoothInv'
<1> SUFFICES ASSUME TypeOK, Facts!IInv, SmoothInv, [Next]_vars, Untroubled'
             PROVE  Control' /\ BusyInTools' /\ Conversation'
  BY DEF SmoothInv
<1>1. Untroubled /\ ~Interrupt /\ ~TimePasses /\ ~Fault
  BY StaysUntroubled
<1>2. Control /\ BusyInTools /\ Conversation
  BY <1>1 DEF SmoothInv
<1>3. TypeOK'
  BY TypeStep
<1> QED BY <1>1, <1>2, <1>3, ControlStep, BusyHolds, ConversationStep

\* It has what the model is sent answered, and nobody stranded.
LEMMA SmoothSafe == TypeOK /\ OrderInv /\ SmoothInv => NoStrandedMessage /\ ModelSeesAnsweredCalls
<1> SUFFICES ASSUME TypeOK, OrderInv, SmoothInv, Untroubled PROVE NoStrandedMessage /\ ModelSeesAnsweredCalls
  BY DEF NoStrandedMessage, ModelSeesAnsweredCalls
<1>1. Control /\ Conversation
  BY DEF SmoothInv
<1>2. ASSUME NEW s \in Steps, loop.pc[s] = "model" PROVE WellFormed(loop.history)
  <2>1. \A t \in Steps \ {s} : loop.pc[t] = "idle"
    BY <1>1, <1>2 DEF Control, OneInFlight
  <2> QED BY <1>1, <1>2, <2>1 DEF Conversation, Asking
<1>3. ASSUME \A s \in Steps : loop.pc[s] = "idle", NEW i \in 1..Len(pending) PROVE kind[pending[i]] = "reminder"
  <2>1. loop.promise = NoStep
    BY <1>1, <1>3 DEF TypeOK, Loops, Control, OneInFlight
  <2>2. kind[pending[i]] # "user"
    BY <1>1, <2>1 DEF Control, Tended
  <2>3. kind[pending[i]] # "unsent"
    BY DEF OrderInv, Orderly, QueuedInOrder
  <2>4. kind[pending[i]] \in {"unsent", "user", "reminder"}
    BY DEF TypeOK
  <2> QED BY <2>2, <2>3, <2>4
<1> QED BY <1>2, <1>3 DEF NoStrandedMessage, ModelSeesAnsweredCalls

\* What users and the application say gets through, however sends, decisions, tool
\* calls and late callbacks interleave: the history has their messages in the order
\* of sending, whatever else happens, and without troubles none is left in the queue.
THEOREM SentGetsThrough == Spec => []MessagesGetThrough
<1>1. TypeOK /\ OrderInv /\ SmoothInv => MessagesGetThrough
  BY OrderSafe, SmoothSafe DEF MessagesGetThrough
<1>2. Init => Runner!RunnerInit
  BY DEF Init
<1> QED BY <1>1, <1>2, OrderInit, OrderStep, SmoothInit, SmoothStep, RunnerInv, RunnerStepped, TypeInit, TypeStep,
           PTL DEF Spec

\* Every request to the model has each tool call of its history answered once, by
\* the message after it.
THEOREM CallsAreAnswered == Spec => []ModelSeesAnsweredCalls
<1>1. TypeOK /\ OrderInv /\ SmoothInv => ModelSeesAnsweredCalls
  BY SmoothSafe
<1>2. Init => Runner!RunnerInit
  BY DEF Init
<1> QED BY <1>1, <1>2, OrderInit, OrderStep, SmoothInit, SmoothStep, RunnerInv, RunnerStepped, TypeInit, TypeStep,
           PTL DEF Spec

=============================================================================
