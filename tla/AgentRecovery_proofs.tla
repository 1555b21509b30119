------------------------ MODULE AgentRecovery_proofs -------------------------
(***************************************************************************)
(* Theorems about AgentRecovery: what is stored stays a prefix of the      *)
(* conversation, and neither crashes nor resumes run a call again or run   *)
(* one that was not approved.                                              *)
(***************************************************************************)
EXTENDS AgentRecovery, AgentLoop_proofs

----------------------------------------------------------------------------
(* Histories only grow.                                                     *)

Grows(g, h) == Len(g) <= Len(h) /\ \A i \in 1..Len(g) : h[i] = g[i]

\* Growing twice is growing.
LEMMA GrowsTwice ==
    ASSUME NEW f \in Seq(Entries), NEW g \in Seq(Entries), NEW h \in Seq(Entries),
           Grows(f, g), Grows(g, h)
    PROVE  Grows(f, h)
BY DEF Grows

\* A history grows by an entry.
LEMMA GrowsByAppend ==
    ASSUME NEW h \in Seq(Entries), NEW e
    PROVE  Grows(h, Append(h, e))
<1>1. h \in Seq(Entries \cup {e})
  OBVIOUS
<1>2. /\ Len(Append(h, e)) = Len(h) + 1 /\ Len(h) \in Nat
      /\ \A i \in 1..Len(h) : Append(h, e)[i] = h[i]
  BY <1>1, AppendProperties
<1> QED BY <1>2 DEF Grows

\* A history grows by a queue.
LEMMA GrowsByQueue ==
    ASSUME NEW h \in Seq(Entries), NEW g \in Seq(Entries)
    PROVE  Grows(h, h \o g)
<1>1. /\ Len(h) \in Nat /\ Len(g) \in Nat /\ Len(h \o g) = Len(h) + Len(g)
      /\ \A i \in 1..Len(h) : (h \o g)[i] = h[i]
  BY ConcatProperties
<1> QED BY <1>1 DEF Grows

\* ensureProcessing() only adds to the history.
LEMMA EnsureGrows ==
    ASSUME NEW L \in Loops, NEW q \in Seq(Messages), CanEnsure(L)
    PROVE  Grows(L.history, EnsureProcessing(L, q).history)
<1>0. L.history \in Seq(Entries)
  BY DEF Loops
<1>1. CASE InFlight(L)
  <2>1. EnsureProcessing(L, q).history = L.history
    BY <1>1 DEF EnsureProcessing, Loops
  <2> QED BY <1>0, <2>1 DEF Grows
<1>2. CASE ~InFlight(L)
  <2> DEFINE s == CHOOSE x \in IdleSteps(L) : TRUE
             M == [L EXCEPT !.next = FALSE, !.overdue = FALSE]
             B == BeginStep(M, s, q)
             new == [i \in 1..Len(q) |-> UserEntry(q[i])]
  <2>1. M \in Loops /\ M.history = L.history
    BY DEF Loops
  <2>2. s \in Steps /\ B \in Loops
    BY <1>2, <2>1, NewStep, BeginStepType
  <2>3. EnsureProcessing(L, q).history = B.history
    <3>1. EnsureProcessing(L, q) = [B EXCEPT !.promise = s]
      BY <1>2 DEF EnsureProcessing
    <3> HIDE DEF B, s
    <3> QED BY <2>2, <3>1 DEF Loops
  <2> HIDE DEF s, M
  <2>4. B.history = L.history \/ B.history = L.history \o new
    <3> HIDE DEF new
    <3>1. CASE M.state # "READY" \/ M.interrupted \/ q = <<>>
      BY <2>1, <3>1 DEF BeginStep, Loops
    <3>2. CASE ~(M.state # "READY" \/ M.interrupted \/ q = <<>>)
      <4>1. B = [M EXCEPT !.pc[s] = "flush", !.state = "WORKING",
                          !.flushing = @ \cup {s}, !.history = @ \o new]
        BY <3>2 DEF BeginStep, new
      <4> HIDE DEF B
      <4> QED BY <2>1, <4>1 DEF Loops
    <3> QED BY <3>1, <3>2
  <2>5. Grows(L.history, L.history) /\ Grows(L.history, L.history \o new)
    BY <1>0, EntriesOfQueue, GrowsByQueue DEF Grows
  <2> HIDE DEF B, new
  <2> QED BY <2>3, <2>4, <2>5
<1> QED BY <1>1, <1>2

\* No step of the loop takes anything from the history.
LEMMA LoopGrows ==
    ASSUME TypeOK, [Next]_vars
    PROVE  Grows(loop.history, loop'.history)
<1>0. loop \in Loops /\ loop.history \in Seq(Entries) /\ pending \in Seq(Messages)
  BY DEF TypeOK, Loops
<1>1. Grows(loop.history, loop.history)
  BY <1>0 DEF Grows
<1>2. CASE Send
  <2>1. pending' \in Seq(Messages)
    BY <1>2, TypeSend DEF TypeOK
  <2> QED BY <1>0, <1>2, <2>1, EnsureGrows DEF Send
<1>3. CASE \E c \in Calls : Decide(c, "allow")
  <2> DEFINE L == [loop EXCEPT !.state = "WORKING"]
  <2>1. L \in Loops /\ L.history = loop.history
    BY <1>0 DEF Loops
  <2>2. CanEnsure(L) /\ loop' = EnsureProcessing(L, pending)
    BY <1>0, <1>3 DEF Decide, CanEnsure, InFlight, IdleSteps, Loops
  <2> HIDE DEF L
  <2> QED BY <1>0, <2>1, <2>2, EnsureGrows
<1>4. CASE \E s \in Steps : ResultsSaved(s)
  <2> DEFINE L == EnsureProcessing(loop, pending)
  <2>1. L \in Loops /\ Grows(loop.history, L.history)
    BY <1>0, <1>4, EnsureType, EnsureGrows DEF ResultsSaved
  <2>2. PICK s \in Steps : loop' = [L EXCEPT !.pc[s] = "returned", !.state = "READY"]
    BY <1>4 DEF ResultsSaved
  <2> HIDE DEF L
  <2>3. loop'.history = L.history
    BY <2>1, <2>2 DEF Loops
  <2> QED BY <2>1, <2>3
<1>5. CASE \E s \in Steps : Finally(s)
  <2>1. PICK s \in Steps : Finally(s)
    BY <1>5
  <2> DEFINE L == [loop EXCEPT !.promise = NoStep,
                               !.pc[s] = IF @ = "rejected" THEN "catching" ELSE "idle"]
  <2>2. L \in Loops /\ L.history = loop.history
    <3>1. [loop.pc EXCEPT ![s] = IF @ = "rejected" THEN "catching" ELSE "idle"] \in [Steps -> StepPcs]
      BY <1>0 DEF Loops, StepPcs
    <3> QED BY <1>0, <3>1 DEF Loops
  <2>3. loop' = L \/ (CanEnsure(L) /\ loop' = EnsureProcessing(L, pending))
    BY <2>1 DEF Finally
  <2> HIDE DEF L
  <2> QED BY <1>0, <1>1, <2>2, <2>3, EnsureGrows
<1>6. CASE Interrupt \/ \E s \in Steps : ModelTurn(s) \/ RecordsSaved(s)
  <2>1. ASSUME NEW e PROVE Grows(loop.history, Append(loop.history, e))
    BY <1>0, GrowsByAppend
  <2>2. CASE Interrupt
    <3>1. \/ loop'.history = loop.history
          \/ loop'.history = Append(loop.history, Results(Sealable(loop.history)))
      BY <1>0, <2>2 DEF Interrupt, Loops
    <3> QED BY <1>1, <2>1, <3>1
  <2>3. CASE \E s \in Steps : ModelTurn(s)
    <3>1. PICK s \in Steps, cs \in SUBSET Unasked :
              loop' = [Goto(s, "saveTurn") EXCEPT !.history = Append(@, Assistant(cs))]
      BY <2>3 DEF ModelTurn
    <3>2. Goto(s, "saveTurn") \in Loops /\ Goto(s, "saveTurn").history = loop.history
      BY <1>0, GotoType DEF StepPcs
    <3>3. loop'.history = Append(loop.history, Assistant(cs))
      BY <3>1, <3>2 DEF Loops
    <3> QED BY <2>1, <3>3
  <2>4. CASE \E s \in Steps : RecordsSaved(s)
    <3>1. PICK s \in Steps :
              loop' = [Goto(s, "saveResults") EXCEPT !.history = Append(@, Results(turn[s]))]
      BY <2>4 DEF RecordsSaved
    <3>2. Goto(s, "saveResults") \in Loops /\ Goto(s, "saveResults").history = loop.history
      BY <1>0, GotoType DEF StepPcs
    <3>3. loop'.history = Append(loop.history, Results(turn[s]))
      BY <3>1, <3>2 DEF Loops
    <3> QED BY <2>1, <3>3
  <2> QED BY <1>6, <2>2, <2>3, <2>4
<1>7. CASE \/ Remind \/ InterruptSaved \/ TimePasses \/ Dispatch
           \/ \E c \in Calls : Decide(c, "deny") \/ CallNext(c)
  <2>1. loop'.history = loop.history
    BY <1>0, <1>7 DEF Remind, InterruptSaved, TimePasses, Dispatch, Decide, CallNext, Check, CallGoes,
       ApprovalSaved, Proceed, Execute, Settle, Release, loopVars, Loops
  <2> QED BY <1>1, <2>1
<1>8. CASE \/ Faults
           \/ \E s \in Steps : \/ Flushed(s) \/ TurnSaved(s) \/ ToolsJoined(s) \/ InfoSaved(s)
                               \/ ToolsRejected(s) \/ Catch(s)
  <2>1. loop'.history = loop.history
    BY <1>0, <1>8 DEF Faults, StepFails, RescueFails, CallThrows, Flushed, TurnSaved, ToolsJoined,
       InfoSaved, ToolsRejected, Catch, EmitDone, Goto, loopVars, Loops
  <2> QED BY <1>1, <2>1
<1>9. CASE UNCHANGED vars
  BY <1>1, <1>9 DEF vars, loopVars
<1> QED BY <1>2, <1>3, <1>4, <1>5, <1>6, <1>7, <1>8, <1>9 DEF Next, StepNext

----------------------------------------------------------------------------
(* Type correctness, with the store.                                        *)

Stores == [history : Seq(Entries), rec : [Calls -> RecordStates]]

RecoveryTypeOK ==
    /\ TypeOK
    /\ stored \in Stores
    /\ boot \in {"up", "down", "sealMessages", "sealRecords"}
    /\ resumed \in SUBSET Calls

\* What is asked for is a call.
LEMMA AskedAreCalls ==
    ASSUME NEW h \in Seq(Entries)
    PROVE  AskedIn(h) \in SUBSET Calls
BY DEF AskedIn, Entries

\* Each step of a running process is a step of the loop.
LEMMA RunningIsNext ==
    ASSUME Running
    PROVE  Next /\ UNCHANGED <<boot, resumed>>
BY DEF Running, SavingMessages, SavedAndFailed, SavingRecords, SavingInterrupt, SavingNothing,
       Next, StepNext, CallNext, Faults

\* What a save stores: nothing new, the history or the records as they are.
LEMMA WhatIsSaved ==
    ASSUME RecoveryTypeOK, Running
    PROVE  /\ stored' \in Stores
           /\ stored'.history \in {stored.history, loop.history}
<1>1. loop.history \in Seq(Entries) /\ rec \in [Calls -> RecordStates] /\ stored \in Stores
  BY DEF RecoveryTypeOK, TypeOK, Loops
<1>2. \/ stored' = stored \/ SaveMessages \/ SaveRecords
      \/ stored' = [history |-> loop.history, rec |-> rec]
  BY DEF Running, SavingInterrupt
<1> QED BY <1>1, <1>2 DEF SaveMessages, SaveRecords, Stores

\* A new process is in an initial state of the loop, but for what it loaded.
LEMMA FreshProcess ==
    ASSUME NEW h \in Seq(Entries), NEW r \in [Calls -> RecordStates], TypeOK, Fresh(h, r)
    PROVE  /\ TypeOK' /\ Runner!RunnerInit'
           /\ loop'.history = h
           /\ \A c \in Calls : call'[c] = "unused" /\ slot'[c] = "new"
           /\ turn' = [s \in Steps |-> {}] /\ dispatch' = <<>>
<1>1. loop' \in Loops
  BY DEF Fresh, Loops, StepPcs, NoStep
<1>2. TypeOK'
  BY <1>1 DEF Fresh, TypeOK, CallPcs
<1> QED BY <1>2 DEF Fresh, Runner!RunnerInit

\* What either strategy of resume() starts with.
LEMMA ResumedHistory ==
    ASSUME RecoveryTypeOK, ResumeCrashed \/ ResumeManual
    PROVE  /\ \E h \in Seq(Entries), r \in [Calls -> RecordStates] : Fresh(h, r)
           /\ loop'.history \in Seq(Entries)
           /\ Grows(stored.history, loop'.history)
           /\ stored' = stored /\ resumed' = AskedIn(stored.history)
           /\ boot' \in {"up", "sealMessages", "sealRecords"}
<1>1. stored.history \in Seq(Entries) /\ stored.rec \in [Calls -> RecordStates]
  BY DEF RecoveryTypeOK, Stores
<1>2. ASSUME NEW h \in Seq(Entries), NEW r, Fresh(h, r) PROVE loop'.history = h
  BY <1>2 DEF Fresh
<1>3. Grows(stored.history, stored.history)
  BY <1>1 DEF Grows
<1>4. CASE ResumeManual
  BY <1>1, <1>2, <1>3, <1>4 DEF ResumeManual
<1>5. CASE ResumeCrashed
  <2> DEFINE h == Sealed(stored.history, stored.rec)
             cs == Open(stored.rec) \ Answered(stored.history)
             r == [c \in Calls |-> IF c \in Open(stored.rec) THEN "SEALED" ELSE stored.rec[c]]
  <2>1. cs \in SUBSET Calls
    BY DEF Open
  <2>2. h = stored.history \/ h = Append(stored.history, Results(cs))
    BY DEF Sealed
  <2>3. Results(cs) \in Entries
    BY <2>1, EntriesOfCalls
  <2> HIDE DEF cs
  <2>4. h \in Seq(Entries) /\ Grows(stored.history, h)
    <3>1. Append(stored.history, Results(cs)) \in Seq(Entries)
      BY <1>1, <2>3
    <3>2. Grows(stored.history, Append(stored.history, Results(cs)))
      BY <1>1, GrowsByAppend
    <3> QED BY <1>1, <1>3, <2>2, <3>1, <3>2
  <2>5. r \in [Calls -> RecordStates]
    BY <1>1 DEF RecordStates
  <2>6. Fresh(h, r)
    BY <1>5 DEF ResumeCrashed
  <2>7. loop'.history = h
    BY <2>4, <2>6, <1>2
  <2> HIDE DEF h, r
  <2> QED BY <1>5, <2>4, <2>5, <2>6, <2>7 DEF ResumeCrashed
<1> QED BY <1>4, <1>5

\* With autoRun a first step begins when the records are sealed.
LEMMA SealedStart ==
    ASSUME RecoveryTypeOK, SealRecordsSaved
    PROVE  /\ RecoveryTypeOK'
           /\ Grows(loop.history, loop'.history)
           /\ stored'.history = stored.history
           /\ UNCHANGED <<turn, dispatch, runnerVars, callVars, resumed>>
<1>1. loop \in Loops /\ pending \in Seq(Messages) /\ loop.history \in Seq(Entries)
  BY DEF RecoveryTypeOK, TypeOK, Loops
<1>2. loop' = loop \/ loop' = EnsureProcessing(loop, pending)
  BY DEF SealRecordsSaved
<1>3. loop' \in Loops /\ Grows(loop.history, loop'.history)
  BY <1>1, <1>2, EnsureType, EnsureGrows DEF SealRecordsSaved, Grows
<1>4. stored' \in Stores /\ stored'.history = stored.history
  BY DEF SealRecordsSaved, SaveRecords, RecoveryTypeOK, TypeOK, Stores
<1>5. UNCHANGED <<pending, kind, waiters, turn, dispatch, runnerVars, callVars, interrupting, env, resumed>>
  BY DEF SealRecordsSaved
<1>6. TypeOK'
  BY <1>3, <1>5 DEF RecoveryTypeOK, TypeOK, callVars
<1> QED BY <1>3, <1>4, <1>5, <1>6 DEF SealRecordsSaved, RecoveryTypeOK

----------------------------------------------------------------------------
(* A call of the history that resume() found is out of the loop's reach: it *)
(* was asked for, so the model does not ask for it again; then no turn, no  *)
(* dispatch and no slot of the runner ever has it.                          *)

OutOfReach(c) ==
    /\ call[c] = "unused" /\ slot[c] = "new"
    /\ \A s \in Steps : c \notin turn[s]
    /\ \A i \in 1..Len(dispatch) : dispatch[i] # c
    /\ c \in AskedIn(loop.history)

Untouched == \A c \in resumed : OutOfReach(c)

\* A call is asked for by an assistant message.
LEMMA AskedAt ==
    ASSUME NEW h, NEW c
    PROVE  c \in AskedIn(h) <=> \E i \in 1..Len(h) : h[i].role = "assistant" /\ c \in h[i].uses
BY DEF AskedIn

\* What was asked for stays asked for.
LEMMA AskedGrows ==
    ASSUME NEW g \in Seq(Entries), NEW h \in Seq(Entries), Grows(g, h)
    PROVE  AskedIn(g) \subseteq AskedIn(h)
<1>1. \A i \in 1..Len(g) : i \in 1..Len(h) /\ h[i] = g[i]
  BY DEF Grows
<1> QED BY <1>1, AskedAt

\* A call that the loop has not heard of: nobody has dispatched it.
Unheard(c) ==
    /\ call[c] = "unused" /\ slot[c] = "new"
    /\ \A i \in 1..Len(dispatch) : dispatch[i] # c

\* The loop hears of a call when the message that asks for it is saved.
LEMMA UnheardStep ==
    ASSUME TypeOK, TypeOK', Facts!IInv, [Next]_vars, NEW c \in Calls, Unheard(c),
           \A s \in Steps : TurnSaved(s) => c \notin turn[s]
    PROVE  Unheard(c)'
<1>1. /\ turn \in [Steps -> SUBSET Calls] /\ dispatch \in Seq(Calls)
      /\ call \in [Calls -> CallPcs]
  BY DEF TypeOK
<1>2. queue # <<>> => Head(queue) # c
  <2>1. Facts!RunnerTypeOK /\ Facts!QueueIsWaiting
    BY DEF Facts!IInv
  <2>2. queue \in Seq(Calls)
    BY <2>1 DEF Facts!RunnerTypeOK
  <2>3. queue # <<>> => 1 \in 1..Len(queue) /\ queue[1] = Head(queue) /\ Head(queue) \in Calls
    BY <2>2
  <2>4. queue # <<>> => slot[Head(queue)] = "queued"
    BY <2>1, <2>3 DEF Facts!QueueIsWaiting
  <2> QED BY <2>4 DEF Unheard
<1>3. slot \in [Calls -> Facts!Statuses]
  BY DEF Facts!IInv, Facts!RunnerTypeOK
<1>4. \A i \in 1..Len(dispatch') : dispatch'[i] # c
  <2>1. CASE \E s \in Steps : TurnSaved(s) /\ turn[s] # {}
    <3>1. PICK s \in Steps : TurnSaved(s) /\ \E q \in [1..Cardinality(turn[s]) -> turn[s]] : dispatch' = q
      BY <2>1 DEF TurnSaved
    <3>2. dispatch' \in Seq(Calls)
      BY DEF TypeOK
    <3>3. \A i \in 1..Len(dispatch') : dispatch'[i] \in turn[s]
      <4>1. IsFiniteSet(turn[s])
        BY <1>1, CallsAssumption, FS_Subset
      <4>2. Cardinality(turn[s]) \in Nat
        BY <4>1, FS_CardinalityType
      <4> QED BY <3>1, <4>2
    <3> QED BY <3>1, <3>3
  <2>2. CASE Dispatch
    <3>1. /\ dispatch' = Tail(dispatch) /\ Len(dispatch') = Len(dispatch) - 1
          /\ \A i \in 1..Len(dispatch') : dispatch'[i] = dispatch[i + 1]
      BY <1>1, <2>2, HeadTailProperties DEF Dispatch
    <3> QED BY <1>1, <3>1 DEF Unheard
  <2>3. CASE UNCHANGED dispatch
    BY <2>3 DEF Unheard
  <2> QED BY <2>1, <2>2, <2>3 DEF Next, Send, Remind, Decide, Interrupt, InterruptSaved, TimePasses,
       StepNext, Flushed, ModelTurn, TurnSaved, ToolsJoined, RecordsSaved, ResultsSaved, InfoSaved,
       ToolsRejected, Finally, Catch, CallNext, Check, CallGoes, ApprovalSaved, Proceed, Execute,
       Settle, Release, Faults, StepFails, RescueFails, CallThrows, vars, loopVars
<1>5. slot'[c] = "new"
  <2>1. CASE Dispatch
    <3>1. Head(dispatch) # c /\ Head(dispatch) \in Calls
      <4>1. dispatch # <<>>
        BY <2>1 DEF Dispatch
      <4>2. 1 \in 1..Len(dispatch) /\ Head(dispatch) = dispatch[1] /\ Head(dispatch) \in Calls
        BY <1>1, <4>1
      <4> QED BY <4>2 DEF Unheard
    <3> QED BY <1>3, <2>1, <3>1 DEF Dispatch, Runner!Run, Unheard
  <2>2. CASE \E b \in Calls : Settle(b)
    BY <1>3, <2>2 DEF Settle, Runner!Settle, Unheard
  <2>3. CASE \E b \in Calls : Release(b)
    <3>1. PICK b \in Calls : Runner!Release(b)
      BY <2>3 DEF Release
    <3>2. b # c
      BY <3>1 DEF Runner!Release, Unheard
    <3> QED BY <1>2, <1>3, <3>1, <3>2 DEF Runner!Release, Unheard
  <2>4. CASE Interrupt
    BY <2>4 DEF Interrupt, Runner!Clear, Unheard
  <2>5. CASE UNCHANGED slot
    BY <2>5 DEF Unheard
  <2> QED BY <2>1, <2>2, <2>3, <2>4, <2>5 DEF Next, Send, Remind, Decide, InterruptSaved, TimePasses,
       StepNext, Flushed, ModelTurn, TurnSaved, ToolsJoined, RecordsSaved, ResultsSaved, InfoSaved,
       ToolsRejected, Finally, Catch, CallNext, Check, CallGoes, ApprovalSaved, Proceed, Execute,
       Faults, StepFails, RescueFails, CallThrows, vars, runnerVars
<1>6. call'[c] = "unused"
  <2>1. CASE RegisterStarted
    BY <1>5, <2>1 DEF RegisterStarted, Started, Unheard
  <2>2. CASE \E b \in Calls : \/ Decide(b, "allow") \/ Decide(b, "deny") \/ Check(b) \/ ApprovalSaved(b)
                             \/ Proceed(b) \/ Execute(b) \/ CallThrows(b)
    <3>1. PICK b \in Calls : \/ Decide(b, "allow") \/ Decide(b, "deny") \/ Check(b) \/ ApprovalSaved(b)
                             \/ Proceed(b) \/ Execute(b) \/ CallThrows(b)
      BY <2>2
    <3>2. call[b] # "unused"
      BY <3>1 DEF Decide, Check, ApprovalSaved, Proceed, Execute, CallThrows
    <3>3. \E pc : call' = [call EXCEPT ![b] = pc]
      BY <3>1 DEF Decide, Check, ApprovalSaved, Proceed, Execute, CallThrows, CallGoes
    <3> QED BY <1>1, <3>2, <3>3 DEF Unheard
  <2>3. CASE UNCHANGED call
    BY <2>3 DEF Unheard
  <2> QED BY <2>1, <2>2, <2>3 DEF Next, Send, Remind, Interrupt, InterruptSaved, TimePasses,
       StepNext, Flushed, ModelTurn, TurnSaved, ToolsJoined, RecordsSaved, ResultsSaved, InfoSaved,
       ToolsRejected, Finally, Catch, CallNext, Dispatch, Settle, Release,
       Faults, StepFails, RescueFails, vars, callVars
<1> QED BY <1>4, <1>5, <1>6 DEF Unheard

\* A call out of the loop's reach stays there.
LEMMA OutOfReachStep ==
    ASSUME TypeOK, TypeOK', Facts!IInv, [Next]_vars, NEW c \in Calls, OutOfReach(c)
    PROVE  OutOfReach(c)'
<1>1. c \in AskedIn(loop'.history)
  <2>1. loop.history \in Seq(Entries) /\ loop'.history \in Seq(Entries)
    BY DEF TypeOK, Loops
  <2> QED BY <2>1, LoopGrows, AskedGrows DEF OutOfReach
<1>2. c \notin Unasked
  BY AskedAt DEF OutOfReach, Unasked
<1>3. /\ turn \in [Steps -> SUBSET Calls] /\ dispatch \in Seq(Calls)
      /\ call \in [Calls -> CallPcs]
  BY DEF TypeOK
<1>4. \A s \in Steps : c \notin turn'[s]
  <2>1. CASE \E s \in Steps : ModelTurn(s)
    BY <1>2, <1>3, <2>1 DEF ModelTurn, OutOfReach
  <2>2. CASE \E s \in Steps : ResultsSaved(s) \/ InfoSaved(s) \/ RescueFails(s)
    <3>1. PICK s \in Steps : turn' = [turn EXCEPT ![s] = {}]
      BY <2>2 DEF ResultsSaved, InfoSaved, RescueFails
    <3> QED BY <1>3, <3>1 DEF OutOfReach
  <2>3. CASE UNCHANGED turn
    BY <2>3 DEF OutOfReach
  <2> QED BY <2>1, <2>2, <2>3 DEF Next, Send, Remind, Decide, Interrupt, InterruptSaved, TimePasses,
       StepNext, Flushed, TurnSaved, ToolsJoined, RecordsSaved, ToolsRejected, Finally, Catch, Dispatch,
       CallNext, Check, CallGoes, ApprovalSaved, Proceed, Execute, Settle, Release, Faults, StepFails,
       CallThrows, vars, loopVars
<1>5. Unheard(c)'
  BY UnheardStep DEF OutOfReach, Unheard
<1> QED BY <1>1, <1>4, <1>5 DEF OutOfReach, Unheard

----------------------------------------------------------------------------
(* The inductive invariant.                                                 *)

PrefixInv == boot # "down" => Grows(stored.history, loop.history)

RecoveryInv ==
    /\ RecoveryTypeOK /\ ConsentInv /\ Facts!IInv
    /\ PrefixInv /\ Untouched

\* The invariant holds of a new agent.
LEMMA RecoveryInit_Inv == RecoveryInit => RecoveryInv
<1> SUFFICES ASSUME RecoveryInit PROVE RecoveryInv
  OBVIOUS
<1>1. Init
  BY DEF RecoveryInit
<1>2. TypeOK /\ Facts!IInv
  BY <1>1, TypeInit, RunnerInv DEF Init
<1>3. ConsentInv
  BY <1>1 DEF Init, ConsentInv, ConsentBeforeExecution
<1>4. RecoveryTypeOK /\ PrefixInv /\ Untouched
  BY <1>1, <1>2 DEF RecoveryInit, Init, RecoveryTypeOK, Stores, RecordStates, PrefixInv, Grows, Untouched
<1> QED BY <1>2, <1>3, <1>4 DEF RecoveryInv

\* A step that leaves the loop where it was.
LEMMA LoopAtRest ==
    ASSUME RecoveryInv, UNCHANGED <<loopVars, runnerVars, callVars, resumed>>
    PROVE  ConsentInv' /\ Facts!IInv' /\ Untouched'
<1>1. ConsentInv'
  BY DEF RecoveryInv, ConsentInv, ConsentBeforeExecution, callVars
<1>2. Facts!IInv'
  BY RunnerInv DEF RecoveryInv, runnerVars, Runner!runnerVars
<1>3. Untouched'
  BY DEF RecoveryInv, Untouched, OutOfReach, loopVars, runnerVars, callVars
<1> QED BY <1>1, <1>2, <1>3

\* It is kept while the process runs.
LEMMA RunningInv ==
    ASSUME RecoveryInv, Running
    PROVE  RecoveryInv'
<1>0. Next /\ UNCHANGED <<boot, resumed>> /\ TypeOK /\ RecoveryTypeOK
  BY RunningIsNext DEF RecoveryInv, RecoveryTypeOK
<1>1. RecoveryTypeOK'
  BY <1>0, TypeStep, WhatIsSaved DEF RecoveryTypeOK
<1>2. ConsentInv'
  BY <1>0, ConsentStep DEF RecoveryInv
<1>3. Facts!IInv'
  BY <1>0, RunnerStepped, RunnerInv DEF RecoveryInv
<1>4. PrefixInv'
  <2>1. Grows(loop.history, loop'.history) /\ Grows(stored.history, loop.history)
    BY <1>0, LoopGrows DEF Running, RecoveryInv, PrefixInv
  <2>2. /\ loop.history \in Seq(Entries) /\ loop'.history \in Seq(Entries)
        /\ stored.history \in Seq(Entries)
    BY <1>0, <1>1 DEF RecoveryTypeOK, TypeOK, Loops, Stores
  <2>3. Grows(stored.history, loop'.history)
    BY <2>1, <2>2, GrowsTwice
  <2> QED BY <1>0, <2>1, <2>3, WhatIsSaved DEF PrefixInv
<1>5. Untouched'
  <2>1. TypeOK'
    BY <1>1 DEF RecoveryTypeOK
  <2> QED BY <1>0, <2>1, OutOfReachStep DEF RecoveryInv, RecoveryTypeOK, Untouched
<1> QED BY <1>1, <1>2, <1>3, <1>4, <1>5 DEF RecoveryInv

\* It is kept by a crash.
LEMMA CrashInv ==
    ASSUME RecoveryInv, Crash
    PROVE  RecoveryInv'
<1>1. UNCHANGED <<loopVars, runnerVars, callVars, interrupting, resumed>> /\ boot' = "down"
  BY DEF Crash
<1>2. stored' \in Stores
  BY DEF Crash, CrashBetweenSaves, SaveMessages, RecoveryInv, RecoveryTypeOK, TypeOK, Loops, Stores
<1>3. env' \in [interrupts : Nat, timeouts : Nat, faults : Nat, crashes : Nat]
  <2>1. env' = [env EXCEPT !.crashes = @ + 1]
    BY DEF Crash
  <2>2. env \in [interrupts : Nat, timeouts : Nat, faults : Nat, crashes : Nat]
    BY DEF RecoveryInv, RecoveryTypeOK, TypeOK
  <2> QED BY <2>1, <2>2
<1>4. RecoveryTypeOK'
  BY <1>1, <1>2, <1>3 DEF RecoveryInv, RecoveryTypeOK, TypeOK, loopVars, callVars
<1>5. PrefixInv'
  BY <1>1 DEF PrefixInv
<1> QED BY <1>1, <1>4, <1>5, LoopAtRest DEF RecoveryInv

\* It is kept by either strategy of resume().
LEMMA ResumeInv ==
    ASSUME RecoveryInv, ResumeCrashed \/ ResumeManual
    PROVE  RecoveryInv'
<1>0. RecoveryTypeOK /\ TypeOK /\ stored.history \in Seq(Entries)
  BY DEF RecoveryInv, RecoveryTypeOK, Stores
<1>1. PICK h \in Seq(Entries), r \in [Calls -> RecordStates] : Fresh(h, r)
  BY <1>0, ResumedHistory
<1>2. /\ TypeOK' /\ Runner!RunnerInit' /\ loop'.history = h
      /\ \A c \in Calls : call'[c] = "unused" /\ slot'[c] = "new"
      /\ turn' = [s \in Steps |-> {}] /\ dispatch' = <<>>
  BY <1>0, <1>1, FreshProcess
<1>3. /\ Grows(stored.history, loop'.history)
      /\ stored' = stored /\ resumed' = AskedIn(stored.history)
      /\ boot' \in {"up", "sealMessages", "sealRecords"}
  BY <1>0, ResumedHistory
<1>4. RecoveryTypeOK'
  BY <1>0, <1>2, <1>3, AskedAreCalls DEF RecoveryTypeOK
<1>5. ConsentInv'
  BY <1>2 DEF ConsentInv, ConsentBeforeExecution
<1>6. Facts!IInv'
  <2>1. (Runner!RunnerInit => Facts!IInv)'
    BY RunnerInv, PTL
  <2> QED BY <1>2, <2>1
<1>7. PrefixInv'
  BY <1>3 DEF PrefixInv
<1>8. Untouched'
  <2>1. AskedIn(stored.history) \subseteq AskedIn(loop'.history)
    BY <1>0, <1>2, <1>3, AskedGrows
  <2> QED BY <1>0, <1>2, <1>3, <2>1, AskedAreCalls DEF Untouched, OutOfReach
<1> QED BY <1>4, <1>5, <1>6, <1>7, <1>8 DEF RecoveryInv

\* It is kept by the two saves of a sealing.
LEMMA SealInv ==
    ASSUME RecoveryInv, SealMessagesSaved \/ SealRecordsSaved
    PROVE  RecoveryInv'
<1>0. /\ RecoveryTypeOK /\ TypeOK /\ loop.history \in Seq(Entries)
      /\ stored.history \in Seq(Entries)
  BY DEF RecoveryInv, RecoveryTypeOK, TypeOK, Loops, Stores
<1>1. CASE SealMessagesSaved
  <2>1. UNCHANGED <<vars, resumed>> /\ boot' = "sealRecords"
    BY <1>1 DEF SealMessagesSaved
  <2>2. stored' \in Stores /\ stored'.history = loop.history
    BY <1>0, <1>1 DEF SealMessagesSaved, SaveMessages, RecoveryTypeOK, Stores
  <2>3. UNCHANGED <<loopVars, runnerVars, callVars, interrupting, env>>
    BY <2>1 DEF vars
  <2>4. RecoveryTypeOK'
    BY <1>0, <2>1, <2>2, <2>3 DEF RecoveryTypeOK, TypeOK, loopVars, callVars
  <2>5. PrefixInv'
    BY <1>0, <2>2, <2>3 DEF PrefixInv, Grows, loopVars
  <2> QED BY <2>1, <2>3, <2>4, <2>5, LoopAtRest DEF RecoveryInv
<1>2. CASE SealRecordsSaved
  <2>1. /\ RecoveryTypeOK' /\ Grows(loop.history, loop'.history)
        /\ stored'.history = stored.history
        /\ UNCHANGED <<turn, dispatch, runnerVars, callVars, resumed>>
    BY <1>0, <1>2, SealedStart
  <2>2. loop'.history \in Seq(Entries)
    BY <2>1 DEF RecoveryTypeOK, TypeOK, Loops
  <2>3. ConsentInv'
    BY <2>1 DEF RecoveryInv, ConsentInv, ConsentBeforeExecution, callVars
  <2>4. Facts!IInv'
    BY <2>1, RunnerInv DEF RecoveryInv, runnerVars, Runner!runnerVars
  <2>5. PrefixInv'
    <3>1. Grows(stored.history, loop.history)
      BY <1>2 DEF RecoveryInv, PrefixInv, SealRecordsSaved
    <3>2. Grows(stored.history, loop'.history)
      BY <1>0, <2>1, <2>2, <3>1, GrowsTwice
    <3> QED BY <2>1, <3>2 DEF PrefixInv
  <2>6. Untouched'
    <3>1. AskedIn(loop.history) \subseteq AskedIn(loop'.history)
      BY <1>0, <2>1, <2>2, AskedGrows
    <3> QED BY <2>1, <3>1 DEF RecoveryInv, Untouched, OutOfReach, runnerVars, callVars
  <2> QED BY <2>1, <2>3, <2>4, <2>5, <2>6 DEF RecoveryInv
<1> QED BY <1>1, <1>2

\* It is kept in every step.
LEMMA RecoveryStep == RecoveryInv /\ [RecoveryNext]_allVars => RecoveryInv'
<1> SUFFICES ASSUME RecoveryInv, [RecoveryNext]_allVars PROVE RecoveryInv'
  OBVIOUS
<1>1. CASE UNCHANGED allVars
  <2>1. UNCHANGED <<loopVars, runnerVars, callVars, interrupting, env, stored, boot, resumed>>
    BY <1>1 DEF allVars, vars, recoveryVars
  <2>2. RecoveryTypeOK' /\ PrefixInv'
    BY <2>1 DEF RecoveryInv, RecoveryTypeOK, TypeOK, PrefixInv, loopVars, callVars
  <2> QED BY <2>1, <2>2, LoopAtRest DEF RecoveryInv
<1> QED BY <1>1, RunningInv, CrashInv, ResumeInv, SealInv DEF RecoveryNext

\* So it always holds.
LEMMA RecoveryInvariant == RecoverySpec => []RecoveryInv
BY RecoveryInit_Inv, RecoveryStep, PTL DEF RecoverySpec

\* At any await at which the process may die the store has a prefix of the
\* conversation: no save of whatever actor, sealing included, leaves a gap.
THEOREM StoredPrefix == RecoverySpec => []StoredIsPrefix
<1>1. RecoveryInv => StoredIsPrefix
  <2> SUFFICES ASSUME RecoveryInv, boot # "down"
               PROVE  IsPrefixOf(stored.history, loop.history)
    BY DEF StoredIsPrefix
  <2> DEFINE g == stored.history
             h == loop.history
  <2>1. g \in Seq(Entries) /\ h \in Seq(Entries) /\ Grows(g, h)
    BY DEF RecoveryInv, RecoveryTypeOK, TypeOK, Loops, Stores, PrefixInv
  <2> HIDE DEF g, h
  <2>2. Len(g) \in Nat /\ Len(h) \in Nat /\ Len(g) <= Len(h) /\ \A i \in 1..Len(g) : h[i] = g[i]
    BY <2>1 DEF Grows
  <2>3. \A i \in 1..Len(g) : h[i] \in Entries
    BY <2>1, <2>2
  <2>4. /\ SubSeq(h, 1, Len(g)) \in Seq(Entries)
        /\ Len(SubSeq(h, 1, Len(g))) = Len(g)
        /\ \A i \in 1..Len(g) : SubSeq(h, 1, Len(g))[i] = h[i]
    BY <2>2, <2>3, SubSeqProperties
  <2>5. SubSeq(h, 1, Len(g)) = g
    BY <2>1, <2>2, <2>4, SeqEqual
  <2> QED BY <2>2, <2>5 DEF IsPrefixOf, g, h
<1> QED BY <1>1, RecoveryInvariant, PTL

\* No call that a resume found in the conversation is ever executed, whatever its
\* record says, however often the process crashes and resumes.
THEOREM NoReexecution == RecoverySpec => []NeverReexecuted
<1>1. RecoveryInv => NeverReexecuted
  BY DEF RecoveryInv, Untouched, OutOfReach, NeverReexecuted
<1> QED BY <1>1, RecoveryInvariant, PTL

\* Consent survives crashes: a resumed process executes nothing that an earlier one
\* was still waiting to have approved.
THEOREM ConsentAcrossCrashes == RecoverySpec => []ConsentBeforeExecution
<1>1. RecoveryInv => ConsentBeforeExecution
  BY DEF RecoveryInv, ConsentInv
<1> QED BY <1>1, RecoveryInvariant, PTL

----------------------------------------------------------------------------
(* Questions and answers.  A record needs a question that is stored: a call *)
(* gets one only when the message that asks for it has been saved.  A call  *)
(* is answered once because turns are apart, and a call of a turn that is   *)
(* in progress has no answer yet.                                           *)

\* A call the loop has heard of.
Known(c) ==
    \/ rec[c] # "none" \/ stored.rec[c] # "none" \/ call[c] # "unused" \/ slot[c] # "new"
    \/ \E i \in 1..Len(dispatch) : dispatch[i] = c

QuestionsStored == \A c \in Calls : Known(c) => c \in AskedIn(stored.history)
TurnsAsked == \A s \in Steps : turn[s] \subseteq AskedIn(loop.history)
TurnsApart == \A s, t \in Steps : s # t => turn[s] \cap turn[t] = {}
TurnsOpen == \A s \in Steps : loop.pc[s] \in Asking => turn[s] \cap Answered(loop.history) = {}

\* Every answer has its question, and is the only one.
Tidy(h) ==
    /\ Answered(h) \subseteq AskedIn(h)
    /\ \A i, j \in 1..Len(h) : \A c \in Calls :
          h[i].role = "results" /\ h[j].role = "results" /\ c \in h[i].uses /\ c \in h[j].uses => i = j

SealsAnswered ==
    \A c \in Calls :
        /\ stored.rec[c] = "SEALED" => c \in Answered(stored.history)
        /\ rec[c] = "SEALED" => /\ boot # "down" => c \in Answered(loop.history)
                                /\ boot \in {"up", "sealRecords"} => c \in Answered(stored.history)

QuestionsInv == QuestionsStored /\ TurnsAsked /\ TurnsApart
AnswersInv ==
    env.interrupts = 0 => Tidy(loop.history) /\ Tidy(stored.history) /\ TurnsOpen /\ SealsAnswered

\* What is asked and answered, over the ways in which a history grows.
LEMMA AnsweredAt ==
    ASSUME NEW h, NEW c
    PROVE  c \in Answered(h) <=> \E i \in 1..Len(h) : h[i].role = "results" /\ c \in h[i].uses
BY DEF Answered

\* An assistant message asks, results answer.
LEMMA EntryAppended ==
    ASSUME NEW h \in Seq(Entries), NEW cs \in SUBSET Calls
    PROVE  /\ AskedIn(Append(h, Assistant(cs))) = AskedIn(h) \cup cs
           /\ Answered(Append(h, Assistant(cs))) = Answered(h)
           /\ AskedIn(Append(h, Results(cs))) = AskedIn(h)
           /\ Answered(Append(h, Results(cs))) = Answered(h) \cup cs
<1>1. ASSUME NEW e \in Entries
      PROVE  /\ Len(Append(h, e)) = Len(h) + 1 /\ Len(h) \in Nat /\ Append(h, e)[Len(h) + 1] = e
             /\ \A i \in 1..Len(h) : Append(h, e)[i] = h[i]
             /\ \A i \in 1..Len(Append(h, e)) : i \in 1..Len(h) \/ i = Len(h) + 1
  BY AppendProperties
<1>2. ASSUME NEW e \in Entries, NEW c
      PROVE  /\ c \in AskedIn(Append(h, e)) <=> c \in AskedIn(h) \/ (e.role = "assistant" /\ c \in e.uses)
             /\ c \in Answered(Append(h, e)) <=> c \in Answered(h) \/ (e.role = "results" /\ c \in e.uses)
  <2> PICK g : g = Append(h, e)
    OBVIOUS
  <2>1. /\ Len(g) = Len(h) + 1 /\ Len(h) \in Nat /\ g[Len(h) + 1] = e /\ \A i \in 1..Len(h) : g[i] = h[i]
        /\ \A i \in 1..Len(g) : i \in 1..Len(h) \/ i = Len(h) + 1
        /\ Len(h) + 1 \in 1..Len(g) /\ \A i \in 1..Len(h) : i \in 1..Len(g)
    BY <1>1
  <2>2. c \in AskedIn(g) <=> c \in AskedIn(h) \/ (e.role = "assistant" /\ c \in e.uses)
    <3>1. c \in AskedIn(g) <=> \E i \in 1..Len(g) : g[i].role = "assistant" /\ c \in g[i].uses
      BY AskedAt
    <3>2. c \in AskedIn(h) <=> \E i \in 1..Len(h) : h[i].role = "assistant" /\ c \in h[i].uses
      BY AskedAt
    <3> QED BY <2>1, <3>1, <3>2
  <2>3. c \in Answered(g) <=> c \in Answered(h) \/ (e.role = "results" /\ c \in e.uses)
    <3>1. c \in Answered(g) <=> \E i \in 1..Len(g) : g[i].role = "results" /\ c \in g[i].uses
      BY AnsweredAt
    <3>2. c \in Answered(h) <=> \E i \in 1..Len(h) : h[i].role = "results" /\ c \in h[i].uses
      BY AnsweredAt
    <3> QED BY <2>1, <3>1, <3>2
  <2> QED BY <2>2, <2>3
<1>3. Assistant(cs) \in Entries /\ Assistant(cs).role = "assistant" /\ Assistant(cs).uses = cs
  BY EntriesOfCalls DEF Assistant
<1>4. Results(cs) \in Entries /\ Results(cs).role = "results" /\ Results(cs).uses = cs
  BY EntriesOfCalls DEF Results
<1> QED BY <1>2, <1>3, <1>4

\* A queue neither asks nor answers.
LEMMA QueueEntered ==
    ASSUME NEW h \in Seq(Entries), NEW q \in Seq(Messages)
    PROVE  /\ AskedIn(h \o Entered(q)) = AskedIn(h) /\ Answered(h \o Entered(q)) = Answered(h)
           /\ Tidy(h) => Tidy(h \o Entered(q))
<1> PICK g : g = h \o Entered(q)
  OBVIOUS
<1>1. /\ Len(h) \in Nat /\ Len(q) \in Nat /\ Len(g) = Len(h) + Len(q)
      /\ \A i \in 1..Len(h) : g[i] = h[i]
      /\ \A i \in 1..Len(g) : i > Len(h) => g[i].role = "user"
  <2>1. /\ Entered(q) \in Seq(Entries) /\ Len(Entered(q)) = Len(q)
        /\ \A i \in 1..Len(q) : Entered(q)[i] = UserEntry(q[i])
    BY EnteredType
  <2>2. Len(h) \in Nat /\ Len(q) \in Nat
    OBVIOUS
  <2>3. /\ Len(g) = Len(h) + Len(q) /\ \A i \in 1..Len(h) : g[i] = h[i]
        /\ \A i \in 1..Len(q) : g[i + Len(h)] = Entered(q)[i]
    <3>1. PICK e \in Seq(Entries) : e = Entered(q) /\ Len(e) = Len(q)
      BY <2>1
    <3>2. /\ Len(h \o e) = Len(h) + Len(e)
          /\ \A i \in 1..(Len(h) + Len(e)) :
                (h \o e)[i] = IF i <= Len(h) THEN h[i] ELSE e[i - Len(h)]
      BY ConcatProperties
    <3>3. \A i \in 1..Len(h) : i \in 1..(Len(h) + Len(e)) /\ i <= Len(h)
      BY <2>2, <3>1
    <3>4. ASSUME NEW i \in 1..Len(q)
          PROVE  i + Len(h) \in 1..(Len(h) + Len(e)) /\ ~(i + Len(h) <= Len(h)) /\ (i + Len(h)) - Len(h) = i
      BY <2>2, <3>1, <3>4
    <3> QED BY <3>1, <3>2, <3>3, <3>4
  <2>4. ASSUME NEW i \in 1..Len(g), i > Len(h) PROVE g[i].role = "user"
    <3>1. PICK k \in 1..Len(q) : i = k + Len(h)
      <4>1. i - Len(h) \in 1..Len(q) /\ i = (i - Len(h)) + Len(h)
        BY <2>2, <2>3, <2>4
      <4> QED BY <4>1
    <3>2. g[i] = UserEntry(q[k])
      BY <2>1, <2>3, <3>1
    <3> QED BY <3>2 DEF UserEntry
  <2> QED BY <2>2, <2>3, <2>4
<1>2. /\ \A i \in 1..Len(g) : g[i].role # "user" => i \in 1..Len(h) /\ g[i] = h[i]
      /\ \A i \in 1..Len(h) : i \in 1..Len(g) /\ g[i] = h[i]
  BY <1>1
<1>3. AskedIn(g) = AskedIn(h) /\ Answered(g) = Answered(h)
  <2>1. ASSUME NEW c PROVE c \in AskedIn(g) <=> c \in AskedIn(h)
    <3>1. c \in AskedIn(g) <=> \E i \in 1..Len(g) : g[i].role = "assistant" /\ c \in g[i].uses
      BY AskedAt
    <3>2. c \in AskedIn(h) <=> \E i \in 1..Len(h) : h[i].role = "assistant" /\ c \in h[i].uses
      BY AskedAt
    <3> QED BY <1>2, <3>1, <3>2
  <2>2. ASSUME NEW c PROVE c \in Answered(g) <=> c \in Answered(h)
    <3>1. c \in Answered(g) <=> \E i \in 1..Len(g) : g[i].role = "results" /\ c \in g[i].uses
      BY AnsweredAt
    <3>2. c \in Answered(h) <=> \E i \in 1..Len(h) : h[i].role = "results" /\ c \in h[i].uses
      BY AnsweredAt
    <3> QED BY <1>2, <3>1, <3>2
  <2> QED BY <2>1, <2>2
<1>4. Tidy(h) => Tidy(g)
  BY <1>2, <1>3 DEF Tidy
<1> QED BY <1>3, <1>4

\* Questions are always in order; answers are, to what is asked and open.
LEMMA TidyAppended ==
    ASSUME NEW h \in Seq(Entries), NEW cs \in SUBSET Calls, Tidy(h)
    PROVE  /\ Tidy(Append(h, Assistant(cs)))
           /\ cs \subseteq AskedIn(h) /\ cs \cap Answered(h) = {} => Tidy(Append(h, Results(cs)))
<1>1. ASSUME NEW e \in Entries
      PROVE  /\ Len(Append(h, e)) = Len(h) + 1 /\ Len(h) \in Nat /\ Append(h, e)[Len(h) + 1] = e
             /\ \A i \in 1..Len(h) : Append(h, e)[i] = h[i]
             /\ \A i \in 1..Len(Append(h, e)) : i \in 1..Len(h) \/ i = Len(h) + 1
  BY AppendProperties
<1>2. Tidy(Append(h, Assistant(cs)))
  <2> PICK g : g = Append(h, Assistant(cs))
    OBVIOUS
  <2>1. Assistant(cs).role = "assistant" /\ Assistant(cs) \in Entries
    BY EntriesOfCalls DEF Assistant
  <2>2. \A i \in 1..Len(g) : g[i].role = "results" => i \in 1..Len(h) /\ g[i] = h[i]
    BY <1>1, <2>1
  <2>3. Answered(g) \subseteq AskedIn(g)
    BY EntryAppended DEF Tidy
  <2> QED BY <2>2, <2>3 DEF Tidy
<1>3. ASSUME cs \subseteq AskedIn(h), cs \cap Answered(h) = {} PROVE Tidy(Append(h, Results(cs)))
  <2> PICK g : g = Append(h, Results(cs))
    OBVIOUS
  <2>1. Results(cs).uses = cs /\ Results(cs) \in Entries
    BY EntriesOfCalls DEF Results
  <2>2. \A i \in 1..Len(g) : (i \in 1..Len(h) /\ g[i] = h[i]) \/ (i = Len(h) + 1 /\ g[i].uses = cs)
    BY <1>1, <2>1
  <2>3. Answered(g) \subseteq AskedIn(g)
    BY <1>3, EntryAppended DEF Tidy
  <2>4. \A i \in 1..Len(h), c \in Calls : h[i].role = "results" /\ c \in h[i].uses => c \notin cs
    BY <1>3, AnsweredAt
  <2> QED BY <2>2, <2>3, <2>4 DEF Tidy
<1> QED BY <1>2, <1>3

-----------------------------------------------------------------------------
\* ensureProcessing() takes no step to where its turn has a message.
LEMMA EnsurePc ==
    ASSUME NEW L \in Loops, NEW q \in Seq(Messages), CanEnsure(L), NEW t \in Steps
    PROVE  EnsureProcessing(L, q).pc[t] \in {L.pc[t], "returned", "model", "flush"}
<1>1. CASE InFlight(L)
  BY <1>1 DEF EnsureProcessing, Loops
<1>2. CASE ~InFlight(L)
  <2> DEFINE s == CHOOSE x \in IdleSteps(L) : TRUE
             M == [L EXCEPT !.next = FALSE, !.overdue = FALSE]
             B == BeginStep(M, s, q)
  <2>1. M \in Loops /\ M.pc = L.pc
    BY DEF Loops
  <2>2. s \in Steps /\ B \in Loops
    BY <1>2, <2>1, NewStep, BeginStepType
  <2>3. EnsureProcessing(L, q) = [B EXCEPT !.promise = s]
    BY <1>2 DEF EnsureProcessing
  <2> HIDE DEF s, M
  <2>4. \E pc \in {"returned", "model", "flush"} : B.pc = [M.pc EXCEPT ![s] = pc]
    BY <2>1, <2>2 DEF BeginStep, Loops
  <2> HIDE DEF B
  <2>5. EnsureProcessing(L, q).pc = B.pc
    BY <2>2, <2>3 DEF Loops
  <2>6. M.pc \in [Steps -> StepPcs]
    BY <2>1 DEF Loops
  <2> QED BY <2>1, <2>2, <2>4, <2>5, <2>6
<1> QED BY <1>1, <1>2

\* A step whose turn has a message, and no results yet, has come there by the
\* model's turn, and not by the results.
LEMMA AskingMoves ==
    ASSUME TypeOK, [Next]_vars, NEW t \in Steps, loop'.pc[t] \in Asking, ~ModelTurn(t)
    PROVE  loop.pc[t] \in Asking /\ ~RecordsSaved(t)
<1>0. loop \in Loops /\ loop.pc \in [Steps -> StepPcs] /\ pending \in Seq(Messages)
  BY DEF TypeOK, Loops
<1>11. ~RecordsSaved(t)
  <2> SUFFICES ASSUME RecordsSaved(t) PROVE FALSE
    OBVIOUS
  <2>1. loop'.pc = [loop.pc EXCEPT ![t] = "saveResults"]
    BY <1>0 DEF RecordsSaved, Goto, Loops
  <2> QED BY <1>0, <2>1 DEF Asking
<1> SUFFICES loop.pc[t] \in Asking
  BY <1>11
<1>1. pending' \in Seq(Messages)
  BY TypeStep DEF TypeOK
<1>2. ASSUME NEW L \in Loops, L.pc = loop.pc, CanEnsure(L), NEW q \in Seq(Messages),
             loop'.pc = EnsureProcessing(L, q).pc
      PROVE  loop.pc[t] \in Asking
  BY <1>2, EnsurePc DEF Asking
<1>3. CASE Send
  BY <1>0, <1>1, <1>2, <1>3 DEF Send
<1>4. CASE \E c \in Calls : Decide(c, "allow")
  <2> DEFINE L == [loop EXCEPT !.state = "WORKING"]
  <2>1. L \in Loops /\ L.pc = loop.pc
    BY <1>0 DEF Loops
  <2>2. CanEnsure(L) /\ loop' = EnsureProcessing(L, pending)
    BY <1>0, <1>4 DEF Decide, CanEnsure, InFlight, IdleSteps, Loops
  <2> HIDE DEF L
  <2> QED BY <1>0, <1>2, <2>1, <2>2
<1>5. CASE \E s \in Steps : ResultsSaved(s)
  <2> DEFINE L == EnsureProcessing(loop, pending)
  <2>1. PICK s \in Steps : CanEnsure(loop) /\ loop' = [L EXCEPT !.pc[s] = "returned", !.state = "READY"]
    BY <1>5 DEF ResultsSaved
  <2>2. L \in Loops /\ (L.pc[t] \in Asking => loop.pc[t] \in Asking)
    BY <1>0, <2>1, EnsureType, EnsurePc DEF Asking
  <2> HIDE DEF L
  <2>3. loop'.pc = [L.pc EXCEPT ![s] = "returned"] /\ L.pc \in [Steps -> StepPcs]
    BY <2>1, <2>2 DEF Loops
  <2>4. L.pc[t] \in Asking
    BY <2>3 DEF Asking
  <2> QED BY <2>2, <2>4
<1>6. CASE \E s \in Steps : Finally(s)
  <2>1. PICK s \in Steps : Finally(s)
    BY <1>6
  <2> DEFINE pc == [loop.pc EXCEPT ![s] = IF @ = "rejected" THEN "catching" ELSE "idle"]
             L == [loop EXCEPT !.promise = NoStep, !.pc[s] = IF @ = "rejected" THEN "catching" ELSE "idle"]
  <2>2. pc \in [Steps -> StepPcs]
    BY <1>0 DEF StepPcs
  <2>3. L = [loop EXCEPT !.promise = NoStep, !.pc = pc]
    OBVIOUS
  <2>4. L \in Loops /\ L.pc = pc
    <3> HIDE DEF pc, L
    <3> QED BY <1>0, <2>2, <2>3 DEF Loops
  <2>5. loop' = L \/ (CanEnsure(L) /\ loop' = EnsureProcessing(L, pending))
    BY <2>1 DEF Finally
  <2> HIDE DEF L
  <2>6. pc[t] \in Asking
    <3> HIDE DEF pc
    <3> QED BY <1>0, <2>4, <2>5, EnsurePc DEF Asking
  <2> QED BY <1>0, <2>6 DEF Asking
<1>7. CASE \E s \in Steps : ModelTurn(s) \/ TurnSaved(s) \/ ToolsJoined(s) \/ RecordsSaved(s)
  <2>1. PICK s \in Steps, pc \in StepPcs : Goes(s, pc) /\ (ModelTurn(s) \/ TurnSaved(s) \/ ToolsJoined(s) \/ RecordsSaved(s))
    BY <1>7, GoesOn
  <2>2. CASE s = t
    BY <2>1, <2>2 DEF TurnSaved, ToolsJoined, RecordsSaved, At, Asking
  <2>3. CASE s # t
    BY <1>0, <2>1, <2>3 DEF Goes
  <2> QED BY <2>2, <2>3
<1>8. CASE \E s \in Steps : \/ Flushed(s) \/ InfoSaved(s) \/ ToolsRejected(s) \/ Catch(s) \/ StepFails(s)
                           \/ RescueFails(s)
  <2>1. PICK s \in Steps, pc \in {"model", "returned", "saveInfoAfterError", "idle", "rejected"} :
          loop'.pc = [loop.pc EXCEPT ![s] = pc]
    BY <1>0, <1>8 DEF Flushed, InfoSaved, ToolsRejected, EmitDone, Catch, StepFails, RescueFails, Goto, Loops
  <2> QED BY <1>0, <2>1 DEF Asking
<1>9. CASE \/ Interrupt \/ InterruptSaved \/ TimePasses
           \/ \E c \in Calls : Decide(c, "deny") \/ ApprovalSaved(c)
  <2>1. loop'.pc = loop.pc
    BY <1>0, <1>9 DEF Interrupt, InterruptSaved, TimePasses, Decide, ApprovalSaved, Loops
  <2> QED BY <2>1
<1>10. CASE UNCHANGED loop
  BY <1>10
<1> QED BY <1>3, <1>4, <1>5, <1>6, <1>7, <1>8, <1>9, <1>10 DEF Next, Remind, StepNext, Dispatch,
        CallNext, Check, CallGoes, Proceed, Execute, Settle, Release, Faults, CallThrows, vars, loopVars

\* A turn stays as it is, or is over, but for the step that has a new one.
LEMMA TurnMoves ==
    ASSUME TypeOK, [Next]_vars, NEW t \in Steps, ~ModelTurn(t)
    PROVE  /\ turn'[t] \subseteq turn[t]
           /\ loop'.pc[t] \in Asking => turn'[t] = turn[t]
<1>0. loop \in Loops /\ loop.pc \in [Steps -> StepPcs] /\ turn \in [Steps -> SUBSET Calls]
  BY DEF TypeOK, Loops
<1>1. CASE \E s \in Steps : ModelTurn(s)
  BY <1>0, <1>1 DEF ModelTurn
<1>2. CASE \E s \in Steps : ResultsSaved(s) \/ InfoSaved(s) \/ RescueFails(s)
  <2>1. PICK s \in Steps : turn' = [turn EXCEPT ![s] = {}] /\ loop.pc[s] \notin Asking
                          /\ (ResultsSaved(s) \/ InfoSaved(s) \/ RescueFails(s))
    BY <1>2 DEF ResultsSaved, InfoSaved, RescueFails, At, Asking
  <2>2. loop'.pc[t] \in Asking => t # s
    BY <2>1, AskingMoves
  <2> QED BY <1>0, <2>1, <2>2
<1>3. CASE UNCHANGED turn
  BY <1>3
<1> QED BY <1>1, <1>2, <1>3 DEF Next, Send, Remind, Decide, Interrupt, InterruptSaved, TimePasses, StepNext, Flushed,
        TurnSaved, ToolsJoined, RecordsSaved, ToolsRejected, Finally, Catch, Dispatch, CallNext, Check, CallGoes,
        ApprovalSaved, Proceed, Execute, Settle, Release, Faults, StepFails, CallThrows, vars, loopVars

\* A record is made for a call that starts; after that, only what its call does,
\* a decision or an interrupt() changes it.
LEMMA RecordStays ==
    ASSUME TypeOK, [Next]_vars, NEW c \in Calls, call[c] = "unused", slot'[c] = "new", rec[c] = "none"
    PROVE  rec'[c] = "none"
<1>0. rec \in [Calls -> RecordStates]
  BY DEF TypeOK
<1>1. CASE RegisterStarted
  BY <1>1 DEF RegisterStarted, Started
<1>2. CASE Interrupt
  BY <1>2 DEF Interrupt
<1>3. CASE \E b \in Calls : \/ Decide(b, "allow") \/ Decide(b, "deny") \/ Check(b) \/ Proceed(b) \/ Execute(b)
  <2>1. PICK b \in Calls : \/ Decide(b, "allow") \/ Decide(b, "deny") \/ Check(b) \/ Proceed(b) \/ Execute(b)
    BY <1>3
  <2>2. b # c
    BY <2>1 DEF Decide, Check, Proceed, Execute
  <2>3. \E r : rec' = [rec EXCEPT ![b] = r]
    BY <2>1 DEF Decide, Check, Proceed, Execute, CallGoes
  <2> QED BY <1>0, <2>2, <2>3
<1>4. CASE UNCHANGED rec
  BY <1>4
<1> QED BY <1>1, <1>2, <1>3, <1>4 DEF Next, Send, Remind, InterruptSaved, TimePasses, StepNext, Flushed, ModelTurn,
        TurnSaved, ToolsJoined, RecordsSaved, ResultsSaved, InfoSaved, ToolsRejected, Finally, Catch, CallNext,
        Dispatch, Settle, Release, ApprovalSaved, Faults, StepFails, RescueFails, CallThrows, vars, callVars

\* Only an interrupt() seals.
LEMMA SealStays ==
    ASSUME TypeOK, [Next]_vars, ~Interrupt, NEW c \in Calls, rec'[c] = "SEALED"
    PROVE  rec[c] = "SEALED"
<1>0. rec \in [Calls -> RecordStates]
  BY DEF TypeOK
<1>1. CASE RegisterStarted
  BY <1>1 DEF RegisterStarted
<1>2. CASE \E b \in Calls : \/ Decide(b, "allow") \/ Decide(b, "deny") \/ Check(b) \/ Proceed(b) \/ Execute(b)
  <2>1. PICK b \in Calls, r \in RecordStates \ {"SEALED"} : rec' = [rec EXCEPT ![b] = r]
    BY <1>2 DEF Decide, Check, Proceed, Execute, CallGoes, RecordStates
  <2> QED BY <1>0, <2>1
<1>3. CASE UNCHANGED rec
  BY <1>3
<1> QED BY <1>1, <1>2, <1>3 DEF Next, Send, Remind, InterruptSaved, TimePasses, StepNext, Flushed, ModelTurn,
        TurnSaved, ToolsJoined, RecordsSaved, ResultsSaved, InfoSaved, ToolsRejected, Finally, Catch, CallNext,
        Dispatch, Settle, Release, ApprovalSaved, Faults, StepFails, RescueFails, CallThrows, vars, callVars

\* Interrupts are counted.
LEMMA NeverInterrupted ==
    ASSUME TypeOK, [Next]_vars, env'.interrupts = 0
    PROVE  env.interrupts = 0 /\ ~Interrupt
<1>0. env \in [interrupts : Nat, timeouts : Nat, faults : Nat, crashes : Nat]
  BY DEF TypeOK
<1>1. CASE Interrupt
  <2>1. env'.interrupts = env.interrupts + 1 /\ env.interrupts \in Nat
    BY <1>0, <1>1 DEF Interrupt
  <2> QED BY <2>1
<1>2. CASE TimePasses \/ Fault
  <2>1. env'.interrupts = env.interrupts
    BY <1>0, <1>2 DEF TimePasses, Fault
  <2> QED BY <1>1, <2>1
<1>3. CASE UNCHANGED env
  BY <1>1, <1>3
<1> QED BY <1>1, <1>2, <1>3 DEF Next, Send, Remind, Decide, InterruptSaved, StepNext, Flushed, ModelTurn,
        TurnSaved, ToolsJoined, RecordsSaved, ResultsSaved, InfoSaved, ToolsRejected, Finally, Catch, CallNext,
        Dispatch, Settle, Release, Check, CallGoes, Proceed, Execute, ApprovalSaved, Faults, StepFails,
        RescueFails, CallThrows, vars

-----------------------------------------------------------------------------
\* Questions, over the steps of a running process.
LEMMA QuestionsRun ==
    ASSUME RecoveryInv, RecoveryInv', QuestionsInv, Running
    PROVE  QuestionsInv'
<1>0. /\ Next /\ TypeOK /\ TypeOK' /\ Facts!IInv /\ UNCHANGED <<boot, resumed>>
      /\ stored.history \in Seq(Entries) /\ loop.history \in Seq(Entries) /\ stored'.history \in Seq(Entries)
      /\ loop'.history \in Seq(Entries)
  BY RunningIsNext DEF RecoveryInv, RecoveryTypeOK, Stores, TypeOK, Loops
<1>1. AskedIn(stored.history) \subseteq AskedIn(loop.history)
      /\ AskedIn(loop.history) \subseteq AskedIn(loop'.history)
  <2>1. Grows(stored.history, loop.history)
    BY DEF RecoveryInv, PrefixInv, Running
  <2> QED BY <1>0, <2>1, LoopGrows, AskedGrows
<1>2. AskedIn(stored.history) \subseteq AskedIn(stored'.history)
  BY <1>1, WhatIsSaved DEF RecoveryInv
<1>3. TurnsAsked' /\ TurnsApart'
  <2>1. CASE \E s \in Steps : ModelTurn(s)
    <3>1. PICK s \in Steps, cs \in SUBSET Unasked : /\ turn' = [turn EXCEPT ![s] = cs]
             /\ loop' = [Goto(s, "saveTurn") EXCEPT !.history = Append(@, Assistant(cs))]
      BY <2>1 DEF ModelTurn
    <3>2. cs \in SUBSET Calls /\ cs \cap AskedIn(loop.history) = {}
      BY AskedAt DEF Unasked
    <3>3. loop'.history = Append(loop.history, Assistant(cs))
      BY <1>0, <3>1 DEF Goto, TypeOK, Loops
    <3>4. cs \subseteq AskedIn(loop'.history)
      BY <1>0, <3>2, <3>3, EntryAppended
    <3>5. turn \in [Steps -> SUBSET Calls]
      BY <1>0 DEF TypeOK
    <3> QED BY <1>1, <3>1, <3>2, <3>4, <3>5 DEF QuestionsInv, TurnsAsked, TurnsApart
  <2>2. CASE ~\E s \in Steps : ModelTurn(s)
    <3>1. \A t \in Steps : turn'[t] \subseteq turn[t]
      BY <1>0, <2>2, TurnMoves
    <3> QED BY <1>1, <3>1 DEF QuestionsInv, TurnsAsked, TurnsApart
  <2> QED BY <2>1, <2>2
<1>4. QuestionsStored'
  <2> SUFFICES ASSUME NEW c \in Calls, c \notin AskedIn(stored'.history) PROVE ~Known(c)'
    BY DEF QuestionsStored
  <2>1. ~Known(c)
    BY <1>2 DEF QuestionsInv, QuestionsStored
  <2>2. Unheard(c) /\ rec[c] = "none" /\ stored.rec[c] = "none"
    BY <2>1 DEF Known, Unheard
  <2>3. ASSUME NEW s \in Steps, TurnSaved(s) PROVE c \notin turn[s]
    <3> SUFFICES ASSUME c \in turn[s] PROVE FALSE
      OBVIOUS
    <3>1. dispatch = <<>> /\ dispatch' # <<>>
      <4>1. PICK q \in [1..Cardinality(turn[s]) -> turn[s]] : dispatch' = q
        BY <2>3 DEF TurnSaved
      <4>2. Cardinality(turn[s]) \in Nat /\ Cardinality(turn[s]) # 0
        <5>1. IsFiniteSet(turn[s])
          BY <1>0, CallsAssumption, FS_Subset DEF TypeOK
        <5> QED BY <5>1, FS_CardinalityType, FS_EmptySet
      <4>3. dispatch' \in Seq(Calls) /\ DOMAIN dispatch' = 1..Cardinality(turn[s])
        BY <1>0, <4>1 DEF TypeOK
      <4>4. 1 \in DOMAIN dispatch'
        BY <4>2, <4>3
      <4> QED BY <2>3, <4>4 DEF TurnSaved, At, Quiet
    <3>2. SaveMessages
      <4>1. ~SavingRecords
        BY <3>1 DEF SavingRecords, RecordsSaved, ApprovalSaved
      <4>2. ~SavingInterrupt
        BY <3>1 DEF SavingInterrupt, InterruptSaved
      <4>3. ~SavingNothing
        BY <3>1 DEF SavingNothing, Send, Remind, Decide, Interrupt, TimePasses, ModelTurn, ToolsJoined, InfoSaved,
           ToolsRejected, Finally, Catch, Dispatch, Check, CallGoes, Proceed, Execute, Settle, Release, Faults,
           StepFails, RescueFails, CallThrows, loopVars
      <4> QED BY <4>1, <4>2, <4>3 DEF Running
    <3>3. stored'.history = loop.history
      BY <1>0, <3>2 DEF SaveMessages, RecoveryInv, RecoveryTypeOK, Stores
    <3> QED BY <3>3 DEF QuestionsInv, TurnsAsked
  <2>4. Unheard(c)'
    BY <1>0, <2>2, <2>3, UnheardStep
  <2>5. rec'[c] = "none"
    BY <1>0, <2>2, <2>4, RecordStays DEF Unheard
  <2>6. stored'.rec[c] = "none"
    <3>1. stored'.rec \in {stored.rec, rec}
      BY <1>0 DEF Running, SavingInterrupt, SaveMessages, SaveRecords, RecoveryInv, RecoveryTypeOK, Stores
    <3> QED BY <2>2, <3>1
  <2> QED BY <2>4, <2>5, <2>6 DEF Known, Unheard
<1> QED BY <1>3, <1>4 DEF QuestionsInv

\* Questions, over crashes and resumes.
LEMMA QuestionsBoot ==
    ASSUME RecoveryInv, RecoveryInv', QuestionsInv,
           Crash \/ ResumeCrashed \/ ResumeManual \/ SealMessagesSaved \/ SealRecordsSaved
    PROVE  QuestionsInv'
<1>0. /\ TypeOK /\ TypeOK' /\ stored.history \in Seq(Entries) /\ loop.history \in Seq(Entries)
      /\ stored'.history \in Seq(Entries) /\ loop'.history \in Seq(Entries)
      /\ stored \in Stores
  BY DEF RecoveryInv, RecoveryTypeOK, Stores, TypeOK, Loops
<1>1. CASE Crash
  <2>1. UNCHANGED <<loopVars, runnerVars, callVars>>
    BY <1>1 DEF Crash
  <2>2. stored'.history \in {stored.history, loop.history} /\ stored'.rec = stored.rec
    BY <1>0, <1>1 DEF Crash, CrashBetweenSaves, SaveMessages, Stores
  <2>3. AskedIn(stored.history) \subseteq AskedIn(loop.history)
    BY <1>0, <1>1, AskedGrows DEF RecoveryInv, PrefixInv, Crash
  <2> QED BY <2>1, <2>2, <2>3 DEF QuestionsInv, QuestionsStored, Known, TurnsAsked, TurnsApart, loopVars, runnerVars,
             callVars
<1>2. CASE ResumeCrashed \/ ResumeManual
  <2>1. stored' = stored
    BY <1>2 DEF ResumeCrashed, ResumeManual
  <2>2. /\ turn' = [s \in Steps |-> {}] /\ dispatch' = <<>> /\ slot' = [c \in Calls |-> "new"]
        /\ call' = [c \in Calls |-> "unused"]
        /\ \A c \in Calls : rec'[c] # "none" => stored.rec[c] # "none"
    BY <1>2 DEF ResumeCrashed, ResumeManual, Fresh, Open
  <2> QED BY <2>1, <2>2 DEF QuestionsInv, QuestionsStored, Known, TurnsAsked, TurnsApart
<1>3. CASE SealMessagesSaved
  <2>1. UNCHANGED <<loopVars, runnerVars, callVars>>
    BY <1>3 DEF SealMessagesSaved, vars
  <2>2. stored'.history = loop.history /\ stored'.rec = stored.rec
    BY <1>0, <1>3 DEF SealMessagesSaved, SaveMessages, Stores
  <2>3. AskedIn(stored.history) \subseteq AskedIn(loop.history)
    BY <1>0, <1>3, AskedGrows DEF RecoveryInv, PrefixInv, SealMessagesSaved
  <2> QED BY <2>1, <2>2, <2>3 DEF QuestionsInv, QuestionsStored, Known, TurnsAsked, TurnsApart, loopVars, runnerVars,
             callVars
<1>4. CASE SealRecordsSaved
  <2>1. /\ Grows(loop.history, loop'.history) /\ stored'.history = stored.history
        /\ UNCHANGED <<turn, dispatch, runnerVars, callVars>>
    BY <1>4, SealedStart DEF RecoveryInv
  <2>2. stored'.rec = rec
    BY <1>0, <1>4 DEF SealRecordsSaved, SaveRecords, Stores
  <2>3. AskedIn(loop.history) \subseteq AskedIn(loop'.history)
    BY <1>0, <2>1, AskedGrows
  <2> QED BY <2>1, <2>2, <2>3 DEF QuestionsInv, QuestionsStored, Known, TurnsAsked, TurnsApart, runnerVars, callVars
<1> QED BY <1>1, <1>2, <1>3, <1>4

\* Answers, over the steps of a running process without interrupt().
LEMMA AnswersRun ==
    ASSUME RecoveryInv, RecoveryInv', QuestionsInv, AnswersInv, Running
    PROVE  AnswersInv'
<1>0. /\ Next /\ TypeOK /\ TypeOK' /\ UNCHANGED <<boot, resumed>> /\ boot = "up"
      /\ stored.history \in Seq(Entries) /\ loop.history \in Seq(Entries) /\ pending' \in Seq(Messages)
      /\ stored \in Stores /\ turn \in [Steps -> SUBSET Calls] /\ loop.pc \in [Steps -> StepPcs] /\ loop \in Loops
  BY RunningIsNext DEF RecoveryInv, RecoveryTypeOK, Stores, TypeOK, Loops, Running
<1> SUFFICES ASSUME env'.interrupts = 0
             PROVE  Tidy(loop'.history) /\ Tidy(stored'.history) /\ TurnsOpen' /\ SealsAnswered'
  BY DEF AnswersInv
<1>1. env.interrupts = 0 /\ ~Interrupt
  BY <1>0, NeverInterrupted
<1>2. Tidy(loop.history) /\ Tidy(stored.history) /\ TurnsOpen /\ SealsAnswered
  BY <1>1 DEF AnswersInv
<1>3. stored'.history \in {stored.history, loop.history} /\ Tidy(stored'.history)
  BY <1>2, WhatIsSaved DEF RecoveryInv
<1>4. /\ Tidy(loop'.history) /\ TurnsOpen' /\ Answered(loop.history) \subseteq Answered(loop'.history)
  <2>1. CASE \E s \in Steps : ModelTurn(s)
    <3>1. PICK s \in Steps, cs \in SUBSET Unasked : /\ turn' = [turn EXCEPT ![s] = cs]
             /\ loop' = [Goto(s, "saveTurn") EXCEPT !.history = Append(@, Assistant(cs))]
      BY <2>1 DEF ModelTurn
    <3>2. cs \in SUBSET Calls /\ cs \cap AskedIn(loop.history) = {}
      BY AskedAt DEF Unasked
    <3>3. loop'.history = Append(loop.history, Assistant(cs)) /\ loop'.pc = [loop.pc EXCEPT ![s] = "saveTurn"]
      BY <1>0, <3>1 DEF Goto, Loops
    <3>4. Tidy(loop'.history) /\ Answered(loop'.history) = Answered(loop.history)
      BY <1>0, <1>2, <3>2, <3>3, EntryAppended, TidyAppended
    <3>5. cs \cap Answered(loop.history) = {}
      BY <1>2, <3>2 DEF Tidy
    <3> QED BY <1>0, <1>2, <3>1, <3>3, <3>4, <3>5 DEF TurnsOpen
  <2>2. CASE \E s \in Steps : RecordsSaved(s) /\ ~\E t \in Steps : ModelTurn(t)
    <3>1. PICK s \in Steps : RecordsSaved(s)
      BY <2>2
    <3>2. loop'.history = Append(loop.history, Results(turn[s])) /\ turn' = turn /\ loop.pc[s] = "saveRecords"
      BY <1>0, <3>1 DEF RecordsSaved, Goto, At, Loops
    <3>3. turn[s] \in SUBSET Calls /\ turn[s] \subseteq AskedIn(loop.history) /\ turn[s] \cap Answered(loop.history) = {}
      BY <1>0, <1>2, <3>2 DEF QuestionsInv, TurnsAsked, TurnsOpen, Asking
    <3>4. Tidy(loop'.history) /\ Answered(loop'.history) = Answered(loop.history) \cup turn[s]
      <4>1. Tidy(Append(loop.history, Results(turn[s])))
        BY <1>0, <1>2, <3>3, TidyAppended
      <4>2. Answered(Append(loop.history, Results(turn[s]))) = Answered(loop.history) \cup turn[s]
        BY <1>0, <3>3, EntryAppended
      <4> QED BY <3>2, <4>1, <4>2
    <3>5. ASSUME NEW t \in Steps, loop'.pc[t] \in Asking PROVE turn'[t] \cap Answered(loop'.history) = {}
      <4>1. loop.pc[t] \in Asking /\ t # s
        BY <1>0, <2>2, <3>1, <3>5, AskingMoves
      <4>2. turn[t] \cap turn[s] = {} /\ turn[t] \cap Answered(loop.history) = {}
        BY <1>2, <4>1 DEF QuestionsInv, TurnsApart, TurnsOpen
      <4> QED BY <3>2, <3>4, <4>2
    <3> QED BY <3>4, <3>5 DEF TurnsOpen
  <2>3. CASE ~\E s \in Steps : ModelTurn(s) \/ RecordsSaved(s)
    <3>1. loop'.history = loop.history \/ loop'.history = loop.history \o Entered(pending')
      BY <1>0, <1>1, <2>3, HistoryMoved DEF HistoryMoves
    <3>2. Tidy(loop'.history) /\ Answered(loop'.history) = Answered(loop.history)
      BY <1>0, <1>2, <3>1, QueueEntered
    <3>3. ASSUME NEW t \in Steps, loop'.pc[t] \in Asking PROVE turn'[t] \cap Answered(loop'.history) = {}
      <4>1. loop.pc[t] \in Asking /\ turn'[t] = turn[t]
        BY <1>0, <2>3, <3>3, AskingMoves, TurnMoves
      <4> QED BY <1>2, <3>2, <4>1 DEF TurnsOpen
    <3> QED BY <3>2, <3>3 DEF TurnsOpen
  <2> QED BY <2>1, <2>2, <2>3
<1>5. SealsAnswered'
  <2>1. Answered(stored.history) \subseteq Answered(stored'.history)
    <3>1. Grows(stored.history, loop.history)
      BY <1>0 DEF RecoveryInv, PrefixInv
    <3>2. \A i \in 1..Len(stored.history) : i \in 1..Len(loop.history) /\ loop.history[i] = stored.history[i]
      BY <1>0, <3>1 DEF Grows
    <3>3. Answered(stored.history) \subseteq Answered(loop.history)
      BY <3>2, AnsweredAt
    <3> QED BY <1>3, <3>3
  <2>2. stored'.rec \in {stored.rec, rec}
    BY <1>0 DEF Running, SavingInterrupt, SaveMessages, SaveRecords, Stores
  <2>3. \A c \in Calls : rec'[c] = "SEALED" => rec[c] = "SEALED"
    BY <1>0, <1>1, SealStays
  <2> QED BY <1>0, <1>2, <1>4, <2>1, <2>2, <2>3 DEF SealsAnswered
<1> QED BY <1>3, <1>4, <1>5

\* Answers, over crashes and resumes.
LEMMA AnswersBoot ==
    ASSUME RecoveryInv, RecoveryInv', QuestionsInv, AnswersInv,
           Crash \/ ResumeCrashed \/ ResumeManual \/ SealMessagesSaved \/ SealRecordsSaved
    PROVE  AnswersInv'
<1>0. /\ TypeOK /\ TypeOK' /\ stored.history \in Seq(Entries) /\ loop.history \in Seq(Entries)
      /\ stored'.history \in Seq(Entries) /\ loop'.history \in Seq(Entries)
      /\ stored \in Stores /\ pending \in Seq(Messages) /\ loop \in Loops
      /\ env \in [interrupts : Nat, timeouts : Nat, faults : Nat, crashes : Nat]
  BY DEF RecoveryInv, RecoveryTypeOK, Stores, TypeOK, Loops
<1> SUFFICES ASSUME env'.interrupts = 0
             PROVE  Tidy(loop'.history) /\ Tidy(stored'.history) /\ TurnsOpen' /\ SealsAnswered'
  BY DEF AnswersInv
<1>1. env.interrupts = 0
  <2>1. CASE Crash
    BY <1>0, <2>1 DEF Crash
  <2>2. CASE UNCHANGED env
    BY <2>2
  <2> QED BY <2>1, <2>2 DEF ResumeCrashed, ResumeManual, Fresh, SealMessagesSaved, SealRecordsSaved, vars
<1>2. Tidy(loop.history) /\ Tidy(stored.history) /\ TurnsOpen /\ SealsAnswered
  BY <1>1 DEF AnswersInv
<1>3. boot # "down" => Answered(stored.history) \subseteq Answered(loop.history)
  <2> SUFFICES ASSUME boot # "down" PROVE Answered(stored.history) \subseteq Answered(loop.history)
    OBVIOUS
  <2>1. \A i \in 1..Len(stored.history) : i \in 1..Len(loop.history) /\ loop.history[i] = stored.history[i]
    BY <1>0 DEF RecoveryInv, PrefixInv, Grows
  <2> QED BY <2>1, AnsweredAt
<1>4. CASE Crash
  <2>1. UNCHANGED <<loop, turn, rec>> /\ boot' = "down" /\ boot # "down"
    BY <1>4 DEF Crash, loopVars, callVars
  <2>2. stored'.history \in {stored.history, loop.history} /\ stored'.rec = stored.rec
    BY <1>0, <1>4 DEF Crash, CrashBetweenSaves, SaveMessages, Stores
  <2>3. SealsAnswered'
    BY <1>2, <1>3, <2>1, <2>2 DEF SealsAnswered
  <2> QED BY <1>2, <2>1, <2>2, <2>3 DEF TurnsOpen
<1>5. CASE ResumeManual
  <2>1. /\ stored' = stored /\ turn' = [s \in Steps |-> {}] /\ rec' = stored.rec /\ boot' = "up"
        /\ loop'.history = stored.history
    BY <1>5 DEF ResumeManual, Fresh
  <2> QED BY <1>2, <2>1 DEF TurnsOpen, SealsAnswered
<1>6. CASE ResumeCrashed
  <2> PICK h \in Seq(Entries), r \in [Calls -> RecordStates] : h = stored.history /\ r = stored.rec
    BY <1>0 DEF Stores
  <2> PICK cs : cs = Open(r) \ Answered(h)
    OBVIOUS
  <2>1. /\ stored' = stored /\ turn' = [s \in Steps |-> {}] /\ loop'.history = Sealed(h, r)
        /\ rec' = [c \in Calls |-> IF c \in Open(r) THEN "SEALED" ELSE r[c]]
        /\ boot' = IF Open(r) \subseteq Answered(h) THEN "sealRecords" ELSE "sealMessages"
    BY <1>6 DEF ResumeCrashed, Fresh
  <2>2. cs \in SUBSET Calls /\ cs \subseteq AskedIn(h) /\ cs \cap Answered(h) = {}
    BY DEF Open, QuestionsInv, QuestionsStored, Known
  <2>3. Tidy(loop'.history) /\ Answered(loop'.history) = Answered(h) \cup cs
    <3>1. CASE cs = {}
      BY <1>2, <2>1, <3>1 DEF Sealed
    <3>2. CASE cs # {}
      <4>1. loop'.history = Append(h, Results(cs))
        BY <2>1, <3>2 DEF Sealed
      <4>2. Tidy(Append(h, Results(cs)))
        BY <1>2, <2>2, TidyAppended
      <4>3. Answered(Append(h, Results(cs))) = Answered(h) \cup cs
        BY <2>2, EntryAppended
      <4> QED BY <4>1, <4>2, <4>3
    <3> QED BY <3>1, <3>2
  <2>4. Open(r) \subseteq Answered(h) \cup cs
    OBVIOUS
  <2>5. \A c \in Calls : r[c] = "SEALED" => c \in Answered(h)
    BY <1>2 DEF SealsAnswered
  <2>6. \A c \in Calls : rec'[c] = "SEALED" => c \in Open(r) \/ r[c] = "SEALED"
    BY <2>1
  <2>7. SealsAnswered'
    BY <2>1, <2>3, <2>4, <2>5, <2>6 DEF SealsAnswered
  <2>8. TurnsOpen'
    BY <2>1 DEF TurnsOpen
  <2> QED BY <1>2, <2>1, <2>3, <2>7, <2>8
<1>7. CASE SealMessagesSaved
  <2>1. UNCHANGED <<loop, turn, rec>> /\ boot = "sealMessages" /\ boot' = "sealRecords"
    BY <1>7 DEF SealMessagesSaved, vars, loopVars, callVars
  <2>2. stored'.history = loop.history /\ stored'.rec = stored.rec
    BY <1>0, <1>7 DEF SealMessagesSaved, SaveMessages, Stores
  <2>3. SealsAnswered'
    BY <1>2, <1>3, <2>1, <2>2 DEF SealsAnswered
  <2> QED BY <1>2, <2>1, <2>2, <2>3 DEF TurnsOpen
<1>8. CASE SealRecordsSaved
  <2>1. /\ UNCHANGED <<turn, rec, pending>> /\ boot = "sealRecords" /\ boot' = "up" /\ CanEnsure(loop)
        /\ loop' \in {loop, EnsureProcessing(loop, pending)}
    BY <1>8 DEF SealRecordsSaved, callVars
  <2>2. stored'.history = stored.history /\ stored'.rec = rec
    BY <1>0, <1>8 DEF SealRecordsSaved, SaveRecords, Stores
  <2>3. loop'.history \in {loop.history, loop.history \o Entered(pending)}
    BY <1>0, <2>1, EnsureHistory
  <2>4. Tidy(loop'.history) /\ Answered(loop'.history) = Answered(loop.history)
    BY <1>0, <1>2, <2>3, QueueEntered
  <2>5. ASSUME NEW t \in Steps, loop'.pc[t] \in Asking PROVE loop.pc[t] \in Asking
    BY <1>0, <2>1, <2>5, EnsurePc DEF Asking
  <2>6. TurnsOpen'
    BY <1>2, <2>1, <2>4, <2>5 DEF TurnsOpen
  <2>7. SealsAnswered'
    BY <1>2, <2>1, <2>2, <2>4 DEF SealsAnswered
  <2> QED BY <1>2, <2>2, <2>4, <2>6, <2>7
<1> QED BY <1>4, <1>5, <1>6, <1>7, <1>8

\* Nothing has been asked at first.
LEMMA QuestionsInit == RecoveryInit => QuestionsInv /\ AnswersInv
<1> SUFFICES ASSUME RecoveryInit PROVE QuestionsInv /\ AnswersInv
  OBVIOUS
<1>1. /\ loop.history = <<>> /\ stored.history = <<>> /\ dispatch = <<>> /\ turn = [s \in Steps |-> {}]
      /\ call = [c \in Calls |-> "unused"] /\ rec = [c \in Calls |-> "none"] /\ slot = [c \in Calls |-> "new"]
      /\ stored.rec = [c \in Calls |-> "none"]
  BY DEF RecoveryInit, Init, Runner!RunnerInit
<1>2. Answered(<<>>) = {}
  BY AnsweredAt
<1>3. QuestionsInv
  BY <1>1 DEF QuestionsInv, QuestionsStored, Known, TurnsAsked, TurnsApart
<1>4. AnswersInv
  BY <1>1, <1>2 DEF AnswersInv, Tidy, TurnsOpen, SealsAnswered
<1> QED BY <1>3, <1>4

\* Questions and answers are kept in every step.
LEMMA QuestionsStep ==
    RecoveryInv /\ RecoveryInv' /\ QuestionsInv /\ AnswersInv /\ [RecoveryNext]_allVars => QuestionsInv' /\ AnswersInv'
<1> SUFFICES ASSUME RecoveryInv, RecoveryInv', QuestionsInv, AnswersInv, [RecoveryNext]_allVars
             PROVE  QuestionsInv' /\ AnswersInv'
  OBVIOUS
<1>1. CASE UNCHANGED allVars
  <2>1. UNCHANGED <<loopVars, runnerVars, callVars, env, stored, boot>>
    BY <1>1 DEF allVars, vars, recoveryVars
  <2>2. QuestionsInv'
    BY <2>1 DEF QuestionsInv, QuestionsStored, Known, TurnsAsked, TurnsApart, loopVars, runnerVars, callVars
  <2>3. AnswersInv'
    BY <2>1 DEF AnswersInv, Tidy, TurnsOpen, SealsAnswered, loopVars, callVars
  <2> QED BY <2>2, <2>3
<1> QED BY <1>1, QuestionsRun, QuestionsBoot, AnswersRun, AnswersBoot DEF RecoveryNext

\* A history in which every answer is the only one answers a call once.
LEMMA TidyAnswersOnce ==
    ASSUME NEW h \in Seq(Entries), Tidy(h), NEW c \in Calls
    PROVE  Cardinality(Answers(h, c)) <= 1
<1>1. \A i, j \in Answers(h, c) : i = j
  BY DEF Tidy, Answers
<1>2. CASE Answers(h, c) = {}
  BY <1>2, FS_EmptySet
<1>3. CASE Answers(h, c) # {}
  <2> PICK i : i \in Answers(h, c)
    BY <1>3
  <2>1. Answers(h, c) = {i}
    BY <1>1
  <2>2. Cardinality({i}) = 1
    BY FS_Singleton
  <2> QED BY <2>1, <2>2
<1> QED BY <1>2, <1>3

\* Each stored record has its question in the stored conversation, and without an
\* interrupt() no call is answered twice or sealed without its answer: through
\* crashes at any await, those of a recovery included, and resumes of either kind.
THEOREM RecordsHold == RecoverySpec => []RecordsAgree
<1>1. RecoveryInv /\ QuestionsInv /\ AnswersInv => RecordsAgree
  <2> SUFFICES ASSUME RecoveryInv, QuestionsInv, AnswersInv PROVE RecordsAgree
    OBVIOUS
  <2>1. RecordsHaveTurn
    BY DEF QuestionsInv, QuestionsStored, Known, RecordsHaveTurn
  <2>2. AnsweredOnce
    BY TidyAnswersOnce DEF AnswersInv, AnsweredOnce, RecoveryInv, RecoveryTypeOK, TypeOK, Loops
  <2>3. SealedIsAnswered
    BY DEF AnswersInv, SealsAnswered, SealedIsAnswered
  <2> QED BY <2>1, <2>2, <2>3 DEF RecordsAgree
<1>2. RecoverySpec => [](QuestionsInv /\ AnswersInv)
  BY RecoveryInvariant, QuestionsInit, QuestionsStep, PTL DEF RecoverySpec
<1> QED BY <1>1, <1>2, RecoveryInvariant, PTL

=============================================================================
