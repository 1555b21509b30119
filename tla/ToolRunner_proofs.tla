-------------------------- MODULE ToolRunner_proofs -------------------------
(***************************************************************************)
(* Theorems about ToolRunner for every finite set of tasks and every limit.*)
(***************************************************************************)
EXTENDS ToolRunner, FiniteSetTheorems, TLAPS

\* What is inductive: the exactness of the counter needs to know which tasks
\* the queue holds, and that a task is in it at most once.
IInv == RunnerTypeOK /\ WithinLimit /\ NoIdleSlot /\ QueueIsWaiting

\* Occupied slots form a finite set; taking or freeing one changes their number
\* by one.
LEMMA OccupiedFinite ==
    ASSUME NEW S \in SUBSET Tasks
    PROVE  IsFiniteSet(S) /\ Cardinality(S) \in Nat
BY TasksAssumption, FS_Subset, FS_CardinalityType

LEMMA OneMore ==
    ASSUME NEW S \in SUBSET Tasks, NEW t \in Tasks, t \notin S
    PROVE  Cardinality(S \cup {t}) = Cardinality(S) + 1
BY OccupiedFinite, FS_AddElement

LEMMA OneLess ==
    ASSUME NEW S \in SUBSET Tasks, NEW t \in S
    PROVE  Cardinality(S \ {t}) = Cardinality(S) - 1
BY OccupiedFinite, FS_RemoveElement

\* The head of a queue that holds the waiting tasks once each is waiting, and
\* is not in the tail.
LEMMA HeadOfQueue ==
    ASSUME RunnerTypeOK, QueueIsWaiting, queue # <<>>
    PROVE  /\ Head(queue) \in Tasks
           /\ status[Head(queue)] = "queued"
           /\ Tail(queue) \in Seq(Tasks)
           /\ Len(Tail(queue)) = Len(queue) - 1
           /\ \A i \in 1..Len(Tail(queue)) : Tail(queue)[i] = queue[i + 1]
           /\ \A i \in 1..Len(Tail(queue)) : Tail(queue)[i] # Head(queue)
           /\ \A i \in 1..Len(queue) : i = 1 \/ (i - 1) \in 1..Len(Tail(queue))
<1>1. queue \in Seq(Tasks) /\ Len(queue) \in Nat /\ Len(queue) > 0 /\ Head(queue) = queue[1]
  BY DEF RunnerTypeOK
<1>2. Head(queue) \in Tasks /\ status[Head(queue)] = "queued"
  BY <1>1 DEF QueueIsWaiting
<1>3. /\ Tail(queue) \in Seq(Tasks)
      /\ Len(Tail(queue)) = Len(queue) - 1
      /\ \A i \in 1..Len(Tail(queue)) : Tail(queue)[i] = queue[i + 1]
  BY <1>1
<1>4. \A i \in 1..Len(Tail(queue)) : Tail(queue)[i] # Head(queue)
  <2> TAKE i \in 1..Len(Tail(queue))
  <2>1. i + 1 \in 1..Len(queue) /\ 1 \in 1..Len(queue) /\ i + 1 # 1
    BY <1>1, <1>3
  <2> QED BY <2>1, <1>1, <1>3 DEF QueueIsWaiting
<1>5. \A i \in 1..Len(queue) : i = 1 \/ (i - 1) \in 1..Len(Tail(queue))
  BY <1>1, <1>3
<1> QED BY <1>2, <1>3, <1>4, <1>5

LEMMA InitIInv == RunnerInit => IInv
<1> SUFFICES ASSUME RunnerInit PROVE IInv
  OBVIOUS
<1>1. RunnerTypeOK
  BY DEF RunnerInit, RunnerTypeOK, Statuses
<1>2. Occupied = {}
  BY DEF RunnerInit, Occupied
<1>3. WithinLimit
  BY <1>2, FS_EmptySet, ConcurrencyAssumption DEF RunnerInit, WithinLimit
<1>4. NoIdleSlot /\ QueueIsWaiting
  BY DEF RunnerInit, NoIdleSlot, QueueIsWaiting
<1> QED BY <1>1, <1>3, <1>4 DEF IInv

LEMMA RunIInv ==
    ASSUME IInv, NEW t \in Tasks, Run(t)
    PROVE  IInv'
<1> USE DEF IInv
<1>1. t \notin Occupied
  BY DEF Run, Occupied
<1>2. CASE active < Concurrency /\ queue' = queue
  <2>1. queue = <<>> /\ active' = active + 1 /\ status' = [status EXCEPT ![t] = "running"]
    BY <1>2, ConcurrencyAssumption DEF NoIdleSlot, Run, RunnerTypeOK
  <2>2. RunnerTypeOK'
    BY <1>2, <2>1 DEF RunnerTypeOK, Statuses
  <2>3. Occupied' = Occupied \cup {t}
    BY <2>1 DEF Occupied, RunnerTypeOK
  <2>4. Cardinality(Occupied \cup {t}) = Cardinality(Occupied) + 1
    BY <1>1, OneMore DEF Occupied
  <2>5. WithinLimit'
    BY <1>2, <2>1, <2>3, <2>4, ConcurrencyAssumption DEF WithinLimit, RunnerTypeOK
  <2>6. NoIdleSlot' /\ QueueIsWaiting'
    BY <1>2, <2>1 DEF NoIdleSlot, QueueIsWaiting, Run, RunnerTypeOK
  <2> QED BY <2>2, <2>5, <2>6
<1>3. CASE active >= Concurrency /\ queue' = Append(queue, t)
  <2>1. active' = active /\ status' = [status EXCEPT ![t] = "queued"] /\ status[t] = "new"
    BY <1>3, ConcurrencyAssumption DEF Run, RunnerTypeOK
  <2>2. RunnerTypeOK'
    BY <1>3, <2>1 DEF RunnerTypeOK, Statuses
  <2>3. Occupied' = Occupied
    BY <2>1 DEF Occupied, RunnerTypeOK
  <2>4. WithinLimit' /\ NoIdleSlot'
    BY <1>3, <2>1, <2>3, ConcurrencyAssumption DEF WithinLimit, NoIdleSlot, RunnerTypeOK
  <2>5. /\ Len(queue') = Len(queue) + 1 /\ queue'[Len(queue) + 1] = t
        /\ \A i \in 1..Len(queue) : queue'[i] = queue[i]
        /\ Len(queue) \in Nat
        /\ \A i \in 1..Len(queue') : i \in 1..Len(queue) \/ i = Len(queue) + 1
    BY <1>3 DEF RunnerTypeOK
  <2>6. \A i \in 1..Len(queue) : queue[i] # t
    BY <2>1 DEF QueueIsWaiting
  <2>7. ASSUME NEW u \in Tasks
        PROVE  status'[u] = "queued" <=> \E i \in 1..Len(queue') : queue'[i] = u
    <3>1. CASE u = t
      <4>1. Len(queue) + 1 \in 1..Len(queue')
        BY <2>5
      <4> QED BY <3>1, <4>1, <2>1, <2>5 DEF RunnerTypeOK
    <3>2. CASE u # t
      <4>1. status'[u] = status[u]
        BY <3>2, <2>1 DEF RunnerTypeOK
      <4>2. (\E i \in 1..Len(queue') : queue'[i] = u) <=> (\E i \in 1..Len(queue) : queue[i] = u)
        BY <3>2, <2>5
      <4> QED BY <4>1, <4>2 DEF QueueIsWaiting
    <3> QED BY <3>1, <3>2
  <2>8. \A i, j \in 1..Len(queue') : queue'[i] = queue'[j] => i = j
    BY <2>5, <2>6 DEF QueueIsWaiting
  <2> QED BY <2>2, <2>4, <2>7, <2>8 DEF QueueIsWaiting
<1> QED BY <1>2, <1>3, ConcurrencyAssumption DEF Run, RunnerTypeOK

LEMMA SettleIInv ==
    ASSUME IInv, NEW t \in Tasks, Settle(t)
    PROVE  IInv'
<1> USE DEF IInv
<1>1. RunnerTypeOK'
  BY DEF RunnerTypeOK, Settle, Statuses
<1>2. Occupied' = Occupied
  BY DEF Settle, RunnerTypeOK, Occupied
<1>3. WithinLimit' /\ NoIdleSlot'
  BY <1>2 DEF Settle, WithinLimit, NoIdleSlot
<1>4. \A u \in Tasks : (status'[u] = "queued") <=> (status[u] = "queued")
  BY DEF Settle, RunnerTypeOK
<1>5. QueueIsWaiting'
  BY <1>4 DEF QueueIsWaiting, Settle
<1> QED BY <1>1, <1>3, <1>5

LEMMA ReleaseIInv ==
    ASSUME IInv, NEW t \in Tasks, Release(t)
    PROVE  IInv'
<1> USE DEF IInv
<1>1. t \in Occupied /\ active \in Nat /\ active = Cardinality(Occupied)
  BY DEF Release, Occupied, WithinLimit, RunnerTypeOK
<1>2. CASE queue # <<>>
  <2> DEFINE h == Head(queue)
  <2>1. /\ h \in Tasks /\ status[h] = "queued" /\ h # t
        /\ Tail(queue) \in Seq(Tasks)
    BY <1>2, HeadOfQueue DEF Release
  <2>2. /\ active' = active /\ queue' = Tail(queue)
        /\ status' = [status EXCEPT ![t] = "done", ![h] = "running"]
    BY <1>1, <1>2, ConcurrencyAssumption DEF Release, WithinLimit, RunnerTypeOK
  <2>3. RunnerTypeOK'
    BY <2>1, <2>2 DEF RunnerTypeOK, Statuses
  <2>4. Occupied' = (Occupied \ {t}) \cup {h} /\ h \notin Occupied
    BY <2>1, <2>2 DEF Occupied, RunnerTypeOK
  <2>5. Cardinality(Occupied') = Cardinality(Occupied)
    <3>1. Cardinality(Occupied \ {t}) = Cardinality(Occupied) - 1
      BY <1>1, OneLess DEF Occupied
    <3>2. Cardinality((Occupied \ {t}) \cup {h}) = Cardinality(Occupied \ {t}) + 1
      BY <2>1, <2>4, OneMore DEF Occupied
    <3> QED BY <1>1, <2>4, <3>1, <3>2
  <2>6. WithinLimit' /\ NoIdleSlot'
    BY <1>2, <2>2, <2>5 DEF WithinLimit, NoIdleSlot
  <2>7. /\ Len(queue') = Len(queue) - 1 /\ Len(queue) \in Nat
        /\ \A i \in 1..Len(queue') : queue'[i] = queue[i + 1] /\ queue'[i] # h
                                     /\ i + 1 \in 1..Len(queue)
        /\ \A i \in 1..Len(queue) : (i = 1 /\ queue[i] = h) \/ (i - 1) \in 1..Len(queue')
    BY <1>2, <2>2, HeadOfQueue DEF RunnerTypeOK
  <2>8. ASSUME NEW u \in Tasks
        PROVE  status'[u] = "queued" <=> \E i \in 1..Len(queue') : queue'[i] = u
    <3>1. CASE u = h \/ u = t
      <4>1. status'[u] # "queued"
        BY <3>1, <2>1, <2>2 DEF RunnerTypeOK
      <4>2. \A i \in 1..Len(queue') : queue'[i] # u
        BY <3>1, <2>7 DEF QueueIsWaiting, Release
      <4> QED BY <4>1, <4>2
    <3>2. CASE u # h /\ u # t
      <4>1. status'[u] = status[u]
        BY <3>2, <2>2 DEF RunnerTypeOK
      <4>2. ASSUME NEW i \in 1..Len(queue), queue[i] = u
            PROVE  \E j \in 1..Len(queue') : queue'[j] = u
        <5>1. (i - 1) \in 1..Len(queue')
          BY <2>7, <3>2, <4>2
        <5>2. queue'[i - 1] = queue[i]
          BY <5>1, <2>7
        <5> QED BY <5>1, <5>2, <4>2
      <4>3. (\E i \in 1..Len(queue') : queue'[i] = u) <=> (\E i \in 1..Len(queue) : queue[i] = u)
        BY <4>2, <2>7
      <4> QED BY <4>1, <4>3 DEF QueueIsWaiting
    <3> QED BY <3>1, <3>2
  <2>9. ASSUME NEW i \in 1..Len(queue'), NEW j \in 1..Len(queue'), queue'[i] = queue'[j]
        PROVE  i = j
    <3>1. queue[i + 1] = queue[j + 1] /\ i + 1 \in 1..Len(queue) /\ j + 1 \in 1..Len(queue)
      BY <2>7, <2>9
    <3>2. i + 1 = j + 1
      BY <3>1 DEF QueueIsWaiting
    <3> QED BY <3>2
  <2> QED BY <2>3, <2>6, <2>8, <2>9 DEF QueueIsWaiting
<1>3. CASE queue = <<>>
  <2>1. active' = active - 1 /\ queue' = queue /\ status' = [status EXCEPT ![t] = "done"]
    BY <1>3 DEF Release
  <2>2. Occupied' = Occupied \ {t}
    BY <2>1 DEF Occupied, RunnerTypeOK
  <2>3. Cardinality(Occupied') = active - 1 /\ Cardinality(Occupied') \in Nat
    BY <1>1, <2>2, OneLess, OccupiedFinite DEF Occupied
  <2>4. RunnerTypeOK'
    BY <2>1, <2>3 DEF RunnerTypeOK, Statuses
  <2>5. WithinLimit' /\ NoIdleSlot'
    BY <1>1, <1>3, <2>1, <2>3, ConcurrencyAssumption DEF WithinLimit, NoIdleSlot
  <2>6. \A u \in Tasks : (status'[u] = "queued") <=> (status[u] = "queued")
    BY <2>1 DEF Release, RunnerTypeOK
  <2>7. QueueIsWaiting'
    BY <2>1, <2>6 DEF QueueIsWaiting
  <2> QED BY <2>4, <2>5, <2>7
<1> QED BY <1>2, <1>3

LEMMA ClearIInv ==
    ASSUME IInv, Clear
    PROVE  IInv'
<1> USE DEF IInv
<1>1. RunnerTypeOK'
  BY DEF RunnerTypeOK, Clear, Statuses
<1>2. Occupied' = Occupied
  BY DEF Clear, RunnerTypeOK, Occupied
<1>3. WithinLimit' /\ NoIdleSlot'
  BY <1>2 DEF Clear, WithinLimit, NoIdleSlot
<1>4. \A u \in Tasks : status'[u] # "queued"
  BY DEF Clear, RunnerTypeOK
<1>5. QueueIsWaiting'
  BY <1>4 DEF QueueIsWaiting, Clear
<1> QED BY <1>1, <1>3, <1>5

LEMMA NextIInv == IInv /\ [RunnerNext]_runnerVars => IInv'
<1> SUFFICES ASSUME IInv, [RunnerNext]_runnerVars PROVE IInv'
  OBVIOUS
<1>1. CASE RunnerStep
  BY <1>1, RunIInv, SettleIInv, ReleaseIInv DEF RunnerStep
<1>2. CASE Clear
  BY <1>2, ClearIInv
<1>3. CASE UNCHANGED runnerVars
  BY <1>3 DEF runnerVars, IInv, RunnerTypeOK, WithinLimit, Occupied, NoIdleSlot, QueueIsWaiting
<1> QED BY <1>1, <1>2, <1>3 DEF RunnerNext

\* The runner's variables keep their types; `active` never becomes negative.
THEOREM TypeCorrect == RunnerSpec => []RunnerTypeOK
<1>1. IInv => RunnerTypeOK
  BY DEF IInv
<1> QED BY <1>1, InitIInv, NextIInv, PTL DEF RunnerSpec

\* At most Concurrency tool calls are at work, whatever the order of run(),
\* clear(), settlements and finally callbacks, and the counter is exact.
THEOREM LimitHolds == RunnerSpec => []WithinLimit
<1>1. IInv => WithinLimit
  BY DEF IInv
<1> QED BY <1>1, InitIInv, NextIInv, PTL DEF RunnerSpec

\* A task waits only while every slot is taken.
THEOREM NoSlotIdles == RunnerSpec => []NoIdleSlot
<1>1. IInv => NoIdleSlot
  BY DEF IInv
<1> QED BY <1>1, InitIInv, NextIInv, PTL DEF RunnerSpec

\* The queue holds exactly the waiting tasks, each once.
THEOREM QueueExact == RunnerSpec => []QueueIsWaiting
<1>1. IInv => QueueIsWaiting
  BY DEF IInv
<1> QED BY <1>1, InitIInv, NextIInv, PTL DEF RunnerSpec

\* What the runner promises its caller, together: the limit, no idle slot, an
\* exact queue.
THEOREM RunnerIsExact == RunnerSpec => []RunnerExact
<1>1. IInv => RunnerExact
  BY DEF IInv, RunnerExact
<1> QED BY <1>1, InitIInv, NextIInv, PTL DEF RunnerSpec

----------------------------------------------------------------------------

\* The pool's Cardinality is ours.
LEMMA SameCardinality == \A S : Pool!Cardinality(S) = Cardinality(S)
BY DEF Pool!Cardinality, Cardinality

\* The tasks the pool sees in service are among the occupied slots.
LEMMA PoolRoom ==
    ASSUME IInv, NEW S \in SUBSET Occupied, Cardinality(S) < Concurrency,
           \A t \in Tasks : status[t] = "running" => t \in S
    PROVE  Pool!HasRoom
<1> DEFINE R == Pool!In("running")
<1>1. R = {t \in Tasks : status[t] = "running"}
  BY DEF Pool!In, PhaseOf, IInv, RunnerTypeOK, Statuses
<1>2. R \subseteq S /\ S \in SUBSET Tasks
  BY <1>1 DEF Occupied
<1>3. Cardinality(R) <= Cardinality(S) /\ Cardinality(R) \in Nat /\ Cardinality(S) \in Nat
  BY <1>2, OccupiedFinite, FS_Subset
<1>4. Pool!Cardinality(R) < Concurrency
  BY <1>3, SameCardinality, ConcurrencyAssumption
<1> QED BY <1>4 DEF Pool!HasRoom

\* Every step of the runner is a step of the bounded pool, or is invisible: the
\* slot a settled task still holds is what makes room for the next one.
LEMMA StepRefines == IInv /\ [RunnerNext]_runnerVars => [Pool!Next]_[t \in Tasks |-> PhaseOf(status[t])]
<1> DEFINE phase == [t \in Tasks |-> PhaseOf(status[t])]
<1> SUFFICES ASSUME IInv, [RunnerNext]_runnerVars PROVE Pool!Next \/ phase' = phase
  OBVIOUS
<1> USE DEF IInv
<1>0. status \in [Tasks -> Statuses] /\ active \in Nat /\ active = Cardinality(Occupied)
  BY DEF RunnerTypeOK, WithinLimit
<1>1. ASSUME NEW t \in Tasks, Run(t) PROVE Pool!Next
  <2>1. CASE active < Concurrency /\ status' = [status EXCEPT ![t] = "running"]
    <3>1. Pool!HasRoom
      BY <1>0, <2>1, PoolRoom DEF Occupied
    <3>2. phase' = [phase EXCEPT ![t] = "running"] /\ phase[t] = "new"
      BY <1>0, <1>1, <2>1 DEF Run, PhaseOf, Statuses
    <3> QED BY <3>1, <3>2 DEF Pool!Next, Pool!Submit
  <2>2. CASE status' = [status EXCEPT ![t] = "queued"]
    <3>1. phase' = [phase EXCEPT ![t] = "waiting"] /\ phase[t] = "new"
      BY <1>0, <1>1, <2>2 DEF Run, PhaseOf, Statuses
    <3> QED BY <3>1 DEF Pool!Next, Pool!Submit
  <2> QED BY <1>1, <2>1, <2>2 DEF Run
<1>2. ASSUME NEW t \in Tasks, Settle(t) PROVE Pool!Next
  <2>1. phase' = [phase EXCEPT ![t] = "settled"] /\ phase[t] = "running"
    BY <1>0, <1>2 DEF Settle, PhaseOf, Statuses
  <2> QED BY <2>1 DEF Pool!Next, Pool!Settle
<1>3. ASSUME NEW t \in Tasks, Release(t) PROVE Pool!Next \/ phase' = phase
  <2>1. CASE queue = <<>>
    <3>1. status' = [status EXCEPT ![t] = "done"] /\ status[t] = "releasing"
      BY <1>3, <2>1 DEF Release
    <3> QED BY <1>0, <3>1 DEF PhaseOf
  <2>2. CASE queue # <<>>
    <3> DEFINE h == Head(queue)
    <3>1. h \in Tasks /\ status[h] = "queued" /\ status[t] = "releasing" /\ h # t
      BY <1>3, <2>2, HeadOfQueue DEF Release
    <3>2. status' = [status EXCEPT ![t] = "done", ![h] = "running"]
      BY <1>0, <1>3, <2>2, ConcurrencyAssumption DEF Release, WithinLimit
    <3>3. t \in Occupied
      BY <3>1 DEF Occupied
    <3>4. Cardinality(Occupied \ {t}) < Concurrency
      BY <1>0, <3>3, OneLess, ConcurrencyAssumption DEF Occupied, WithinLimit
    <3>5. Pool!HasRoom
      BY <3>1, <3>4, PoolRoom DEF Occupied
    <3>6. phase' = [phase EXCEPT ![h] = "running"] /\ phase[h] = "waiting"
      BY <1>0, <3>1, <3>2 DEF PhaseOf, Statuses
    <3> QED BY <3>1, <3>5, <3>6 DEF Pool!Next, Pool!Start
  <2> QED BY <2>1, <2>2
<1>4. ASSUME Clear PROVE Pool!Next
  <2>1. phase' = [t \in Tasks |-> IF phase[t] = "waiting" THEN "dropped" ELSE phase[t]]
    BY <1>0, <1>4 DEF Clear, PhaseOf, Statuses
  <2> QED BY <2>1 DEF Pool!Next, Pool!DropWaiting
<1>5. ASSUME UNCHANGED runnerVars PROVE phase' = phase
  BY <1>5 DEF runnerVars
<1> QED BY <1>1, <1>2, <1>3, <1>4, <1>5 DEF RunnerNext, RunnerStep

\* The runner implements the bounded pool a caller thinks of.
THEOREM RunnerImplementsPool == RunnerSpec => ImplementsPool
<1>1. RunnerInit => Pool!Init
  BY DEF RunnerInit, Pool!Init, PhaseOf
<1> QED BY <1>1, InitIInv, NextIInv, StepRefines, PTL DEF RunnerSpec, ImplementsPool, Pool!Spec

=============================================================================
