-------------------------- MODULE AgentPool_proofs --------------------------
(***************************************************************************)
(* Theorems about AgentPool for every number of ids, callers and agents,   *)
(* and for any number of calls, failures and restarts; about AgentLineage  *)
(* for every number of forks under way, sub-agents and levels; and about   *)
(* SkillLibrary for every number of skills, operations and loads.          *)
(***************************************************************************)
EXTENDS AgentPool, AgentLineage, SkillLibrary, FiniteSetTheorems, SequenceTheorems, TLAPS

IInv == TypeOK /\ CapacityKept

----------------------------------------------------------------------------
\* The map of agents.

\* A sequence without one of its entries.
LEMMA Shrunk ==
    ASSUME NEW s \in Seq(Ids), NEW i \in 1..Len(s)
    PROVE  /\ RemoveAt(s, i) \in Seq(Ids)
           /\ Len(RemoveAt(s, i)) = Len(s) - 1
           /\ \A j \in 1..(Len(s) - 1) : RemoveAt(s, i)[j] = s[IF j < i THEN j ELSE j + 1]
<1> DEFINE l == SubSeq(s, 1, i - 1)
           r == SubSeq(s, i + 1, Len(s))
<1>1. Len(s) \in Nat /\ i \in Nat /\ i >= 1 /\ i <= Len(s)
  OBVIOUS
<1>2. l \in Seq(Ids) /\ Len(l) = i - 1 /\ \A j \in 1..(i - 1) : l[j] = s[j]
  <2>1. \A j \in 1..(i - 1) : s[j] \in Ids
    BY <1>1
  <2>2. /\ l \in Seq(Ids)
        /\ Len(l) = IF 1 <= i - 1 THEN (i - 1) - 1 + 1 ELSE 0
        /\ \A j \in 1..((i - 1) - 1 + 1) : l[j] = s[1 + j - 1]
    BY <1>1, <2>1, SubSeqProperties
  <2> QED BY <1>1, <2>2
<1>3. r \in Seq(Ids) /\ Len(r) = Len(s) - i /\ \A j \in 1..(Len(s) - i) : r[j] = s[i + j]
  <2>1. \A j \in (i + 1)..Len(s) : s[j] \in Ids
    BY <1>1
  <2>2. /\ r \in Seq(Ids)
        /\ Len(r) = IF i + 1 <= Len(s) THEN Len(s) - (i + 1) + 1 ELSE 0
        /\ \A j \in 1..(Len(s) - (i + 1) + 1) : r[j] = s[(i + 1) + j - 1]
    BY <1>1, <2>1, SubSeqProperties
  <2> QED BY <1>1, <2>2
<1> HIDE DEF l, r
<1>4. /\ l \o r \in Seq(Ids)
      /\ Len(l \o r) = Len(l) + Len(r)
      /\ \A j \in 1..(Len(l) + Len(r)) : (l \o r)[j] = IF j <= Len(l) THEN l[j] ELSE r[j - Len(l)]
  BY <1>2, <1>3, ConcatProperties
<1>5. \A j \in 1..(Len(s) - 1) : (l \o r)[j] = s[IF j < i THEN j ELSE j + 1]
  <2> TAKE j \in 1..(Len(s) - 1)
  <2>1. CASE j < i
    BY <1>1, <1>2, <1>3, <1>4, <2>1
  <2>2. CASE ~(j < i)
    <3>1. (l \o r)[j] = r[j - (i - 1)] /\ j - (i - 1) \in 1..(Len(s) - i)
      BY <1>1, <1>2, <1>3, <1>4, <2>2
    <3> QED BY <1>1, <1>3, <2>2, <3>1
  <2> QED BY <2>1, <2>2
<1>6. RemoveAt(s, i) = l \o r
  BY DEF RemoveAt, l, r
<1>7. Len(l \o r) = Len(s) - 1
  BY <1>1, <1>2, <1>3, <1>4
<1> QED BY <1>4, <1>5, <1>6, <1>7

\* No id is in the map twice.
LEMMA KeysDiffer ==
    ASSUME TypeOK
    PROVE  agents \in Seq(Ids) /\ \A j, k \in 1..Len(agents) : agents[j] = agents[k] => j = k
<1>1. agents \in Seq(Ids) /\ IsInjective(agents)
  BY DEF TypeOK
<1> QED BY <1>1 DEF IsInjective

\* Removing an entry, or adding a key that is not there, leaves no key twice.
LEMMA RemovedOnce ==
    ASSUME TypeOK, NEW i \in 1..Len(agents), agents' = RemoveAt(agents, i)
    PROVE  agents' \in Seq(Ids) /\ IsInjective(agents') /\ Len(agents') = Len(agents) - 1
<1>1. agents \in Seq(Ids) /\ \A j, k \in 1..Len(agents) : agents[j] = agents[k] => j = k
  BY KeysDiffer
<1>2. /\ agents' \in Seq(Ids) /\ Len(agents') = Len(agents) - 1
      /\ \A j \in 1..(Len(agents) - 1) : agents'[j] = agents[IF j < i THEN j ELSE j + 1]
  BY <1>1, Shrunk
<1>3. ASSUME NEW j \in DOMAIN agents', NEW k \in DOMAIN agents', agents'[j] = agents'[k]
      PROVE  j = k
  <2> DEFINE Old(n) == IF n < i THEN n ELSE n + 1
  <2>1. j \in 1..(Len(agents) - 1) /\ k \in 1..(Len(agents) - 1)
    BY <1>2, <1>3
  <2>2. Old(j) \in 1..Len(agents) /\ Old(k) \in 1..Len(agents)
    BY <1>1, <2>1
  <2>3. agents'[j] = agents[Old(j)] /\ agents'[k] = agents[Old(k)]
    BY <1>2, <2>1
  <2>4. Old(j) = Old(k)
    BY <1>1, <1>3, <2>2, <2>3
  <2> QED BY <2>1, <2>4
<1> QED BY <1>2, <1>3 DEF IsInjective

\* this.agents.set() keeps each key once, and adds one at most.
LEMMA PutOnce ==
    ASSUME TypeOK, NEW id \in Ids, agents' = Put(id)
    PROVE  /\ agents' \in Seq(Ids) /\ IsInjective(agents')
           /\ Len(agents) <= Len(agents') /\ Len(agents') <= Len(agents) + 1
<1>1. agents \in Seq(Ids) /\ \A j, k \in 1..Len(agents) : agents[j] = agents[k] => j = k
  BY KeysDiffer
<1>2. CASE id \in Pooled
  <2>1. agents' = agents
    BY <1>2 DEF Put
  <2>2. IsInjective(agents)
    BY DEF TypeOK
  <2>3. IsInjective(agents')
    BY <2>1, <2>2
  <2> QED BY <1>1, <2>1, <2>3
<1>3. CASE id \notin Pooled
  <2>1. agents' = Append(agents, id)
    BY <1>3 DEF Put
  <2>2. \A j \in 1..Len(agents) : agents[j] # id
    BY <1>1, <1>3 DEF Pooled, ToSet
  <2>3. /\ agents' \in Seq(Ids) /\ Len(agents') = Len(agents) + 1
        /\ \A j \in 1..Len(agents) : agents'[j] = agents[j]
        /\ agents'[Len(agents) + 1] = id
    BY <1>1, <2>1, AppendProperties
  <2>4. ASSUME NEW j \in DOMAIN agents', NEW k \in DOMAIN agents', agents'[j] = agents'[k]
        PROVE  j = k
    BY <1>1, <2>2, <2>3, <2>4
  <2> QED BY <1>1, <2>3, <2>4 DEF IsInjective
<1> QED BY <1>2, <1>3
----------------------------------------------------------------------------
\* Type correctness, by parts: the map, the calls, the shutdown, the rest.

MapOK == agents \in Seq(Ids) /\ IsInjective(agents)
CallOK == /\ call \in [Callers -> Calls]
          /\ \A w \in Callers : call[w].pc \in Building \cup {"remove"} => call[w].id \in Ids
Downs == [pc : {"up", "visiting", "waiting", "done"}, ids : SUBSET Ids,
          kept : SUBSET Ids, pos : Nat, seen : Seq(Sighting)]
DownOK == down \in Downs /\ down.pos <= Len(agents)
PastOK == past \in [owed : SUBSET Ids, excused : BOOLEAN]
EnvOK == env \in [calls : Nat, restarts : Nat, faults : Nat]
StoreOK == stored \subseteq Ids /\ list \subseteq Ids

\* Type correctness is that of its parts.
LEMMA Parts == TypeOK <=> MapOK /\ CallOK /\ DownOK /\ StoreOK /\ PastOK /\ EnvOK
BY DEF TypeOK, MapOK, CallOK, DownOK, Downs, StoreOK, PastOK, EnvOK

\* The same of the state behind a step.
LEMMA PartsNext == MapOK' /\ CallOK' /\ DownOK' /\ StoreOK' /\ PastOK' /\ EnvOK' => TypeOK'
BY DEF TypeOK, MapOK, CallOK, DownOK, Downs, StoreOK, PastOK, EnvOK

\* What the map holds are ids.
LEMMA Grown == MapOK => Len(agents) \in Nat /\ Pooled \subseteq Ids
BY DEF MapOK, Pooled, ToSet

\* What a step writes into the calls keeps their types.
LEMMA NewCall ==
    ASSUME CallOK, NEW w \in Callers, NEW c \in Calls,
           c.pc \in Building \cup {"remove"} => c.id \in Ids,
           call' = [call EXCEPT ![w] = c]
    PROVE  CallOK'
BY DEF CallOK

\* The record of an idle caller.
LEMMA NoCallType == NoCall \in Calls /\ NoCall.pc = "idle"
BY DEF NoCall, Calls, CallPcs, Batches

\* A call goes on to its next await.
LEMMA GotoType ==
    ASSUME CallOK, NEW w \in Callers, NEW pc \in CallPcs, Goto(w, pc),
           pc \in Building \cup {"remove"} => call[w].id \in Ids
    PROVE  CallOK'
<1> DEFINE c == [call[w] EXCEPT !.pc = pc]
<1>1. call[w] \in Calls /\ call \in [Callers -> Calls]
  BY DEF CallOK
<1>2. c \in Calls /\ c.pc = pc /\ c.id = call[w].id
  BY <1>1 DEF Calls
<1>3. call' = [call EXCEPT ![w] = c]
  BY <1>1 DEF Goto
<1> QED BY <1>2, <1>3, NewCall

\* A call for one agent comes to its end.
LEMMA ReturnType ==
    ASSUME CallOK, NEW w \in Callers, Return(w)
    PROVE  CallOK'
<1>1. call[w] \in Calls /\ call \in [Callers -> Calls]
  BY DEF CallOK
<1>2. CASE call[w].batch = "one"
  <2>1. call' = [call EXCEPT ![w] = NoCall]
    BY <1>1, <1>2 DEF Return
  <2> QED BY <2>1, NoCallType, NewCall DEF Building
<1>3. CASE call[w].batch # "one"
  <2> DEFINE c == [call[w] EXCEPT !.pc = "next", !.id = NoId]
  <2>1. c \in Calls /\ c.pc = "next"
    BY <1>1 DEF Calls, CallPcs
  <2>2. call' = [call EXCEPT ![w] = c]
    BY <1>1, <1>3 DEF Return
  <2> QED BY <2>1, <2>2, NewCall DEF Building
<1> QED BY <1>2, <1>3

\* The history of the list keeps its type.
LEMMA DealtWithType ==
    ASSUME PastOK, NEW w, NEW id, DealtWith(w, id)
    PROVE  PastOK'
BY DEF PastOK, DealtWith

\* The bounds that a failure uses up.
LEMMA FaultType == EnvOK /\ Fault => EnvOK'
BY DEF EnvOK, Fault

\* The bounds that a call uses up.
LEMMA StartCallType == EnvOK /\ StartCall => EnvOK'
BY DEF EnvOK, StartCall

\* A call that throws.
LEMMA ThrowsType ==
    ASSUME MapOK, CallOK, DownOK, StoreOK, PastOK, NEW w \in Callers, Throws(w)
    PROVE  MapOK' /\ CallOK' /\ DownOK' /\ StoreOK' /\ PastOK'
<1>1. CallOK' /\ PastOK'
  BY ReturnType, DealtWithType DEF Throws
<1>2. UNCHANGED <<agents, down, stored, list>>
  BY DEF Throws
<1> QED BY <1>1, <1>2 DEF MapOK, DownOK, StoreOK

\* The first state.
LEMMA InitTypes == Init => TypeOK
<1> SUFFICES ASSUME Init PROVE TypeOK
  OBVIOUS
<1>1. MapOK /\ StoreOK /\ PastOK /\ EnvOK
  BY DEF Init, MapOK, StoreOK, PastOK, EnvOK, IsInjective
<1>2. CallOK
  BY NoCallType DEF Init, CallOK, Building
<1>3. DownOK
  BY DEF Init, DownOK, Downs, Up
<1> QED BY <1>1, <1>2, <1>3, Parts

\* The start of a call for one agent, and of a batch.
LEMMA BeginsType ==
    ASSUME TypeOK, NEW w \in Callers, NEW id \in Ids, Create(w, id) \/ Resume(w, id)
    PROVE  TypeOK'
<1>0. MapOK /\ CallOK /\ DownOK /\ StoreOK /\ PastOK /\ EnvOK
  BY Parts
<1>1. EnvOK' /\ UNCHANGED <<agents, down, stored, list, past>>
  BY <1>0, StartCallType DEF Create, Resume
<1>2. CallOK'
  <2>1. PICK pc \in Building : call' = [call EXCEPT ![w] = [NoCall EXCEPT !.pc = pc, !.id = id]]
    BY DEF Create, Resume, Building
  <2>2. [NoCall EXCEPT !.pc = pc, !.id = id] \in Calls /\ [NoCall EXCEPT !.pc = pc, !.id = id].id = id
    BY DEF NoCall, Calls, CallPcs, Batches
  <2> QED BY <1>0, <2>1, <2>2, NewCall
<1>3. MapOK' /\ DownOK' /\ StoreOK' /\ PastOK'
  BY <1>0, <1>1 DEF MapOK, DownOK, StoreOK, PastOK
<1> QED BY <1>1, <1>2, <1>3, PartsNext

\* A batch begins with the ids of the store or of the list.
LEMMA BatchType ==
    ASSUME TypeOK, NEW w \in Callers, ResumeAll(w) \/ ResumeFromShutdown(w)
    PROVE  TypeOK'
<1>0. MapOK /\ CallOK /\ DownOK /\ StoreOK /\ PastOK /\ EnvOK
  BY Parts
<1>1. EnvOK' /\ UNCHANGED <<agents, down, stored, list, past>>
  BY <1>0, StartCallType DEF ResumeAll, ResumeFromShutdown
<1>2. CallOK'
  <2>1. PICK b \in Batches, r \in SUBSET Ids :
            call' = [call EXCEPT ![w] = [pc |-> "next", batch |-> b, id |-> NoId, rest |-> r]]
    BY <1>0 DEF ResumeAll, ResumeFromShutdown, Batches, StoreOK
  <2>2. [pc |-> "next", batch |-> b, id |-> NoId, rest |-> r] \in Calls
    BY DEF Calls, CallPcs
  <2> QED BY <1>0, <2>1, <2>2, NewCall DEF Building
<1>3. MapOK' /\ DownOK' /\ StoreOK' /\ PastOK'
  BY <1>0, <1>1 DEF MapOK, DownOK, StoreOK, PastOK
<1> QED BY <1>1, <1>2, <1>3, PartsNext

\* The head of the loop of a batch.
LEMMA NextOfBatchType ==
    ASSUME TypeOK, NEW w \in Callers, NextOfBatch(w)
    PROVE  TypeOK'
<1>0. MapOK /\ CallOK /\ DownOK /\ StoreOK /\ PastOK /\ EnvOK
  BY Parts
<1>1. UNCHANGED <<agents, down, stored, list, env>>
  BY DEF NextOfBatch
<1>2. call[w] \in Calls /\ call \in [Callers -> Calls]
  BY <1>0 DEF CallOK
<1>3. PastOK'
  <2>1. CASE past' = [past EXCEPT !.excused = @ \/ (call[w].batch = "listed" /\ call[w].rest # {})]
    BY <1>0, <2>1 DEF PastOK
  <2>2. CASE UNCHANGED past \/ \E id \in call[w].rest : DealtWith(w, id)
    BY <1>0, <2>2, DealtWithType DEF PastOK
  <2> QED BY <2>1, <2>2 DEF NextOfBatch
<1>4. CallOK'
  <2>1. CASE Goto(w, "clear")
    BY <1>0, <2>1, GotoType DEF CallPcs, Building
  <2>2. CASE call' = [call EXCEPT ![w] = NoCall]
    BY <1>0, <2>2, NoCallType, NewCall DEF Building
  <2>3. ASSUME NEW id \in call[w].rest, call' = [call EXCEPT ![w].rest = @ \ {id}],
               call[w].pc = "next"
        PROVE  CallOK'
    <3> DEFINE c == [call[w] EXCEPT !.rest = call[w].rest \ {id}]
    <3>1. c \in Calls /\ c.pc = "next"
      BY <1>2, <2>3 DEF Calls
    <3>2. call' = [call EXCEPT ![w] = c]
      BY <1>2, <2>3
    <3> QED BY <1>0, <3>1, <3>2, NewCall DEF Building
  <2>4. ASSUME NEW id \in call[w].rest, call' = [call EXCEPT ![w] = Attempt(call[w], id)]
        PROVE  CallOK'
    <3>1. Attempt(call[w], id) \in Calls /\ Attempt(call[w], id).id \in Ids
      BY <1>2 DEF Attempt, Calls, CallPcs, Building
    <3> QED BY <1>0, <2>4, <3>1, NewCall
  <2> QED BY <2>1, <2>2, <2>3, <2>4 DEF NextOfBatch
<1>5. MapOK' /\ DownOK' /\ StoreOK' /\ EnvOK'
  BY <1>0, <1>1 DEF MapOK, DownOK, StoreOK, EnvOK
<1> QED BY <1>3, <1>4, <1>5, PartsNext

\* A call goes on when the store or the agent has answered, or throws.
LEMMA ProceedsType ==
    ASSUME TypeOK, NEW w \in Callers,
           Exists(w) \/ Loaded(w) \/ Persisted(w) \/ BuildFails(w)
    PROVE  TypeOK'
<1>0. MapOK /\ CallOK /\ DownOK /\ StoreOK /\ PastOK /\ EnvOK
  BY Parts
<1>1. CASE Throws(w)
  <2>1. EnvOK'
    BY <1>0, FaultType DEF Exists, Loaded, Persisted, BuildFails, EnvOK
  <2> QED BY <1>0, <1>1, <2>1, ThrowsType, PartsNext
<1>2. CASE ~Throws(w)
  <2>1. call[w].id \in Ids
    BY <1>0, <1>2 DEF Exists, Loaded, Persisted, BuildFails, CallOK, Building
  <2>2. CallOK'
    BY <1>0, <1>2, <2>1, GotoType DEF Exists, Loaded, Persisted, BuildFails, CallPcs, Building
  <2>3. StoreOK' /\ UNCHANGED <<agents, down, past, env>>
    BY <1>0, <1>2, <2>1 DEF Exists, Loaded, Persisted, BuildFails, StoreOK
  <2> QED BY <1>0, <2>2, <2>3, PartsNext DEF MapOK, DownOK, PastOK, EnvOK
<1> QED BY <1>1, <1>2

\* An agent enters the map.
LEMMA RegisteredType ==
    ASSUME TypeOK, NEW w \in Callers, Registered(w)
    PROVE  TypeOK' /\ Len(agents') <= Len(agents) + 1
<1>0. MapOK /\ CallOK /\ DownOK /\ StoreOK /\ PastOK /\ EnvOK
  BY Parts
<1>1. call[w].id \in Ids
  BY <1>0 DEF Registered, CallOK, Building
<1>2. MapOK' /\ Len(agents) <= Len(agents') /\ Len(agents') <= Len(agents) + 1
  BY <1>1, PutOnce DEF Registered, MapOK
<1>3. CallOK' /\ PastOK' /\ UNCHANGED <<down, stored, list, env>>
  BY <1>0, ReturnType, DealtWithType DEF Registered
<1>4. DownOK'
  <2>1. down.pos \in Nat /\ Len(agents) \in Nat /\ Len(agents') \in Nat
    BY <1>0, <1>2 DEF MapOK, DownOK, Downs
  <2> QED BY <1>0, <1>2, <1>3, <2>1 DEF DownOK
<1> QED BY <1>0, <1>2, <1>3, <1>4, PartsNext DEF StoreOK, EnvOK

\* An agent leaves the map, and the loop of the shutdown moves with it.
LEMMA DeleteType ==
    ASSUME TypeOK, NEW w \in Callers, NEW id \in Ids, Delete(w, id)
    PROVE  TypeOK' /\ Len(agents') <= Len(agents)
<1>0. MapOK /\ CallOK /\ DownOK /\ StoreOK /\ PastOK /\ EnvOK
  BY Parts
<1>1. EnvOK' /\ UNCHANGED <<stored, list, past>>
  BY <1>0, StartCallType DEF Delete
<1>2. CallOK'
  <2>1. [NoCall EXCEPT !.pc = "remove", !.id = id] \in Calls
        /\ [NoCall EXCEPT !.pc = "remove", !.id = id].id = id
    BY DEF NoCall, Calls, CallPcs, Batches
  <2> QED BY <1>0, <2>1, NewCall DEF Delete
<1>3. MapOK' /\ DownOK' /\ Len(agents') <= Len(agents)
  <2>1. CASE UNCHANGED <<agents, down>>
    BY <1>0, <2>1 DEF MapOK, DownOK
  <2>2. ASSUME NEW i \in 1..Len(agents), agents' = RemoveAt(agents, i),
               down' = [down EXCEPT !.pos = ShiftedPosition(i), !.kept = @ \ {id}]
        PROVE  MapOK' /\ DownOK' /\ Len(agents') <= Len(agents)
    <3>1. MapOK' /\ Len(agents') = Len(agents) - 1
      BY <2>2, RemovedOnce DEF MapOK
    <3>2. down \in Downs /\ down.pos \in Nat /\ Len(agents) \in Nat /\ down.pos <= Len(agents)
      BY <1>0 DEF DownOK, Downs, MapOK
    <3>3. ShiftedPosition(i) \in Nat /\ ShiftedPosition(i) <= Len(agents) - 1
      BY <3>2 DEF ShiftedPosition
    <3>4. down' \in Downs /\ down'.pos = ShiftedPosition(i)
      BY <2>2, <3>2, <3>3 DEF Downs
    <3> QED BY <3>1, <3>2, <3>3, <3>4 DEF DownOK
  <2> QED BY <2>1, <2>2 DEF Delete
<1> QED BY <1>0, <1>1, <1>2, <1>3, PartsNext DEF StoreOK, PastOK

\* The store has answered a deletion.
LEMMA EndsType ==
    ASSUME TypeOK, NEW w \in Callers, Removed(w) \/ Cleared(w)
    PROVE  TypeOK'
<1>0. MapOK /\ CallOK /\ DownOK /\ StoreOK /\ PastOK /\ EnvOK
  BY Parts
<1>1. CallOK'
  BY <1>0, NoCallType, NewCall DEF Removed, Cleared, Building
<1>2. StoreOK' /\ UNCHANGED <<agents, down, past>>
  BY <1>0 DEF Removed, Cleared, StoreOK
<1>3. EnvOK'
  BY <1>0, FaultType DEF Removed, Cleared, EnvOK
<1> QED BY <1>0, <1>1, <1>2, <1>3, PartsNext DEF MapOK, DownOK, PastOK

\* A turn of the loop of the shutdown.
LEMMA DownMoves ==
    ASSUME down \in Downs, NEW p \in Nat, NEW q \in Seq(Sighting),
           down' = [down EXCEPT !.pos = p, !.seen = q]
    PROVE  down' \in Downs /\ down'.pos = p
BY DEF Downs

\* The start of the shutdown.
LEMMA DownStarts ==
    ASSUME NEW I \in SUBSET Ids,
           down' = [pc |-> "visiting", ids |-> I, kept |-> I, pos |-> 0, seen |-> <<>>]
    PROVE  down' \in Downs /\ down'.pos = 0
<1>1. <<>> \in Seq(Sighting)
  OBVIOUS
<1> QED BY <1>1 DEF Downs

\* The shutdown, and the end of the process.
LEMMA ShutdownType ==
    ASSUME TypeOK, ShutdownStep
    PROVE  TypeOK' /\ UNCHANGED <<agents, call>>
<1>0. MapOK /\ CallOK /\ DownOK /\ StoreOK /\ PastOK /\ EnvOK
  BY Parts
<1>1. UNCHANGED <<agents, call, stored>>
  BY DEF ShutdownStep, BeginShutdown, Visit, VisitedAll, ListSaved, ListNotSaved,
         AgentReady, TimesOut, InterruptFails
<1>2. EnvOK'
  BY <1>0, FaultType DEF ShutdownStep, BeginShutdown, Visit, VisitedAll, ListSaved, ListNotSaved,
         AgentReady, TimesOut, InterruptFails, EnvOK
<1>3. down \in Downs /\ down.pos \in Nat /\ Len(agents) \in Nat /\ down.pos <= Len(agents)
      /\ down.seen \in Seq(Sighting)
  BY <1>0 DEF DownOK, Downs, MapOK
<1>4. DownOK'
  <2>1. CASE BeginShutdown
    <3>1. down' = [Up EXCEPT !.pc = "visiting", !.ids = Pooled, !.kept = Pooled] /\ Pooled \subseteq Ids
      BY <1>0, <2>1, Grown DEF BeginShutdown
    <3>2. down' = [pc |-> "visiting", ids |-> Pooled, kept |-> Pooled, pos |-> 0, seen |-> <<>>]
      BY <3>1 DEF Up
    <3>3. down' \in Downs /\ down'.pos = 0
      BY <3>1, <3>2, DownStarts
    <3> QED BY <1>1, <1>3, <3>3 DEF DownOK
  <2>2. CASE Visit
    <3> DEFINE Seen(state) == Append(down.seen, [id |-> agents[down.pos + 1], state |-> state])
    <3>1. PICK state \in {"ready", "working"} :
             down' = [down EXCEPT !.pos = down.pos + 1, !.seen = Seen(state)]
      BY <2>2 DEF Visit
    <3>2. down.pos + 1 \in 1..Len(agents) /\ agents[down.pos + 1] \in Ids
      BY <1>0, <1>3, <2>2 DEF Visit, MapOK
    <3>3. [id |-> agents[down.pos + 1], state |-> state] \in Sighting
      BY <3>2 DEF Sighting
    <3>4. Seen(state) \in Seq(Sighting)
      BY <1>3, <3>3, AppendProperties
    <3> HIDE DEF Seen
    <3>5. PICK q \in Seq(Sighting) : down' = [down EXCEPT !.pos = down.pos + 1, !.seen = q]
      BY <3>1, <3>4
    <3>6. down.pos + 1 \in Nat
      BY <1>3
    <3>7. down' \in Downs /\ down'.pos = down.pos + 1
      BY <1>3, <3>5, <3>6, DownMoves
    <3> QED BY <1>1, <3>2, <3>7 DEF DownOK
  <2>3. CASE VisitedAll
    <3> DEFINE seen == [i \in DOMAIN down.seen |-> IF down.seen[i].state = "ready"
                           THEN [down.seen[i] EXCEPT !.state = "completed"] ELSE down.seen[i]]
    <3>1. \A i \in DOMAIN down.seen : seen[i] \in Sighting
      <4> TAKE i \in DOMAIN down.seen
      <4>1. down.seen[i] \in Sighting
        BY <1>3
      <4> QED BY <4>1 DEF Sighting, Outcomes
    <3>2. DOMAIN seen = 1..Len(down.seen) /\ Len(down.seen) \in Nat
      BY <1>3
    <3>3. seen \in Seq(Sighting)
      <4>1. seen \in [1..Len(down.seen) -> Sighting]
        BY <3>1, <3>2
      <4> HIDE DEF seen
      <4> QED BY <3>2, <4>1
    <3>4. down' = [down EXCEPT !.pc = "waiting", !.pos = 0, !.seen = seen]
      BY <2>3 DEF VisitedAll
    <3> HIDE DEF seen
    <3>5. down' \in Downs /\ down'.pos = 0
      BY <1>3, <3>3, <3>4 DEF Downs
    <3> QED BY <1>1, <1>3, <3>5 DEF DownOK
  <2>4. CASE ListSaved \/ ListNotSaved
    <3>1. down' = [down EXCEPT !.pc = "done"]
      BY <2>4 DEF ListSaved, ListNotSaved
    <3> QED BY <1>1, <1>3, <3>1 DEF DownOK, Downs
  <2>5. ASSUME NEW i \in DOMAIN down.seen, AgentReady(i) \/ TimesOut(i) \/ InterruptFails(i)
        PROVE  DownOK'
    <3>1. PICK o \in Outcomes : Resolve(i, o)
      BY <2>5 DEF AgentReady, TimesOut, InterruptFails, Outcomes
    <3>2. down.seen[i] \in Sighting
      BY <1>3
    <3>3. [down.seen[i] EXCEPT !.state = o] \in Sighting
      BY <3>2 DEF Sighting
    <3>4. [down.seen EXCEPT ![i] = [down.seen[i] EXCEPT !.state = o]] \in Seq(Sighting)
      BY <1>3, <3>3
    <3>5. down' = [down EXCEPT !.seen = [down.seen EXCEPT ![i] = [down.seen[i] EXCEPT !.state = o]]]
      BY <3>1 DEF Resolve
    <3> QED BY <1>1, <1>3, <3>4, <3>5 DEF DownOK, Downs
  <2> QED BY <2>1, <2>2, <2>3, <2>4, <2>5 DEF ShutdownStep
<1>5. StoreOK' /\ PastOK'
  <2>1. CASE ListSaved
    <3>1. down.ids \in SUBSET Ids
      BY <1>3 DEF Downs
    <3> QED BY <1>0, <1>1, <2>1, <3>1 DEF ListSaved, StoreOK, PastOK
  <2>2. CASE ~ListSaved
    <3>1. UNCHANGED <<list, past>>
      BY <2>2 DEF ShutdownStep, BeginShutdown, Visit, VisitedAll, ListNotSaved,
             AgentReady, TimesOut, InterruptFails
    <3> QED BY <1>0, <1>1, <3>1 DEF StoreOK, PastOK
  <2> QED BY <2>1, <2>2
<1>6. MapOK' /\ CallOK'
  BY <1>0, <1>1 DEF MapOK, CallOK
<1> QED BY <1>1, <1>2, <1>4, <1>5, <1>6, PartsNext

\* The next process.
LEMMA RestartType ==
    ASSUME TypeOK, Restart
    PROVE  TypeOK' /\ agents' = <<>>
<1>0. StoreOK /\ PastOK /\ EnvOK
  BY Parts
<1>1. StoreOK' /\ PastOK' /\ EnvOK'
  BY <1>0 DEF Restart, StoreOK, PastOK, EnvOK
<1>2. MapOK' /\ DownOK'
  BY DEF Restart, MapOK, IsInjective, DownOK, Downs, Up
<1>3. CallOK'
  BY NoCallType DEF Restart, CallOK, Building
<1> QED BY <1>1, <1>2, <1>3, PartsNext DEF Restart

----------------------------------------------------------------------------
\* The capacity.  A step either keeps the number of agents, those under
\* construction included, or begins a construction while the pool is not full.

\* Callers are finitely many, and so are those that build an agent.
LEMMA BuiltFinite ==
    ASSUME NEW B \in SUBSET Callers
    PROVE  /\ IsFiniteSet(B) /\ Cardinality(B) \in Nat
           /\ Cardinality(B) <= Cardinality(Callers) /\ Cardinality(Callers) \in Nat
BY CallersAssumption, FS_Subset, FS_CardinalityType

\* Fewer callers that build, a smaller count.
LEMMA FewerBuilt ==
    ASSUME NEW A \in SUBSET Callers, NEW B \in SUBSET A
    PROVE  Cardinality(B) <= Cardinality(A)
BY BuiltFinite, FS_Subset

\* The three kinds of steps.
Begins == ~Full /\ UNCHANGED agents
Keeps  == Built' \subseteq Built /\ Len(agents') <= Len(agents)
Enters == \E w \in Built : Built' = Built \ {w} /\ Len(agents') <= Len(agents) + 1

\* None of the three kinds of steps breaks the bound.
LEMMA CapacityStep ==
    ASSUME TypeOK, TypeOK', CapacityKept, Begins \/ Keeps \/ Enters
    PROVE  CapacityKept'
<1>1. Len(agents) \in Nat /\ Len(agents') \in Nat /\ MaxAgents \in Nat
  BY PoolAssumption DEF TypeOK
<1>2. Built \in SUBSET Callers /\ Built' \in SUBSET Callers
  BY DEF Built
<1>3. /\ Cardinality(Built) \in Nat /\ Cardinality(Built') \in Nat
      /\ Cardinality(Callers) \in Nat /\ Cardinality(Built') <= Cardinality(Callers)
  BY <1>2, BuiltFinite
<1>4. Len(agents) + Cardinality(Built) < MaxAgents + Cardinality(Callers)
  BY DEF CapacityKept
<1>5. Len(agents') + Cardinality(Built') < MaxAgents + Cardinality(Callers)
  <2>1. CASE Begins
    <3>1. Len(agents') = Len(agents) /\ Len(agents) < MaxAgents
      BY <1>1, <2>1 DEF Begins, Full
    <3> QED BY <1>1, <1>3, <3>1
  <2>2. CASE Keeps
    <3>1. Cardinality(Built') <= Cardinality(Built) /\ Len(agents') <= Len(agents)
      BY <1>2, <2>2, FewerBuilt DEF Keeps
    <3> QED BY <1>1, <1>3, <1>4, <3>1
  <2>3. CASE Enters
    <3>1. PICK w \in Built : Built' = Built \ {w} /\ Len(agents') <= Len(agents) + 1
      BY <2>3 DEF Enters
    <3>2. Cardinality(Built \ {w}) = Cardinality(Built) - 1
      BY <1>2, BuiltFinite, FS_RemoveElement
    <3> QED BY <1>1, <1>3, <1>4, <3>1, <3>2
  <2> QED BY <2>1, <2>2, <2>3
<1> QED BY <1>5 DEF CapacityKept

\* Every step of a call is of one of the three kinds.
LEMMA CallKinds ==
    ASSUME TypeOK, NEW w \in Callers, CallStep(w)
    PROVE  TypeOK' /\ (Begins \/ Keeps \/ Enters)
<1>0. call \in [Callers -> Calls] /\ call[w] \in Calls
  BY DEF TypeOK
<1>1. ASSUME NEW id \in Ids, Create(w, id) \/ Resume(w, id) PROVE TypeOK' /\ Begins
  BY <1>1, BeginsType DEF Create, Resume, Begins
<1>2. ASSUME NEW id \in Ids, Delete(w, id) PROVE TypeOK' /\ Keeps
  <2>1. call'[w].pc = "remove" /\ \A v \in Callers \ {w} : call'[v] = call[v]
    BY <1>0, <1>2 DEF Delete, NoCall
  <2>2. Built' \subseteq Built
    BY <2>1 DEF Built, Building
  <2> QED BY <1>2, <2>2, DeleteType DEF Keeps
<1>3. CASE ResumeAll(w) \/ ResumeFromShutdown(w)
  <2>1. call'[w].pc = "next" /\ \A v \in Callers \ {w} : call'[v] = call[v]
    BY <1>0, <1>3 DEF ResumeAll, ResumeFromShutdown
  <2>2. Built' \subseteq Built
    BY <2>1 DEF Built, Building
  <2>3. UNCHANGED agents /\ Len(agents) \in Nat
    BY <1>3 DEF ResumeAll, ResumeFromShutdown, TypeOK
  <2> QED BY <1>3, <2>2, <2>3, BatchType DEF Keeps
<1>4. CASE NextOfBatch(w)
  <2>1. TypeOK' /\ UNCHANGED agents /\ Len(agents) \in Nat
    BY <1>4, NextOfBatchType DEF NextOfBatch, TypeOK
  <2>2. CASE ~Full
    BY <2>1, <2>2 DEF Begins
  <2>3. CASE Full
    <3>0. Goto(w, "clear") \/ call' = [call EXCEPT ![w] = NoCall]
      BY <1>4, <2>3 DEF NextOfBatch
    <3>1. call'[w].pc \in {"idle", "clear"} /\ \A v \in Callers \ {w} : call'[v] = call[v]
      <4>1. CASE Goto(w, "clear")
        BY <1>0, <4>1 DEF Goto, Calls
      <4>2. CASE call' = [call EXCEPT ![w] = NoCall]
        BY <1>0, <4>2, NoCallType
      <4> QED BY <3>0, <4>1, <4>2
    <3>2. Built' \subseteq Built
      BY <3>1 DEF Built, Building
    <3> QED BY <2>1, <3>2 DEF Keeps
  <2> QED BY <2>1, <2>2, <2>3
<1>5. CASE Exists(w) \/ Loaded(w) \/ Persisted(w) \/ BuildFails(w)
  <2>1. w \in Built /\ UNCHANGED agents /\ Len(agents) \in Nat
    BY <1>5 DEF Exists, Loaded, Persisted, BuildFails, Throws, Built, Building, TypeOK
  <2>2. \A v \in Callers \ {w} : call'[v] = call[v]
    BY <1>0, <1>5 DEF Exists, Loaded, Persisted, BuildFails, Throws, Return, Goto
  <2>3. Built' \subseteq Built
    BY <2>1, <2>2 DEF Built
  <2> QED BY <1>5, <2>1, <2>3, ProceedsType DEF Keeps
<1>6. CASE Registered(w)
  <2>1. w \in Built /\ call'[w].pc \notin Building
    BY <1>0, <1>6 DEF Registered, Return, NoCall, Built, Building, Calls
  <2>2. \A v \in Callers \ {w} : call'[v] = call[v]
    BY <1>0, <1>6 DEF Registered, Return
  <2>3. Built' = Built \ {w}
    BY <2>1, <2>2 DEF Built
  <2> QED BY <1>6, <2>1, <2>3, RegisteredType DEF Enters
<1>7. CASE Removed(w) \/ Cleared(w)
  <2>1. call'[w].pc = "idle" /\ \A v \in Callers \ {w} : call'[v] = call[v]
    BY <1>0, <1>7 DEF Removed, Cleared, NoCall
  <2>2. Built' \subseteq Built
    BY <2>1 DEF Built, Building
  <2>3. UNCHANGED agents /\ Len(agents) \in Nat
    BY <1>7 DEF Removed, Cleared, TypeOK
  <2> QED BY <1>7, <2>2, <2>3, EndsType DEF Keeps
<1> QED BY <1>1, <1>2, <1>3, <1>4, <1>5, <1>6, <1>7 DEF CallStep

\* The invariant holds in the first state.
LEMMA InitIInv == Init => IInv
<1> SUFFICES ASSUME Init PROVE IInv
  OBVIOUS
<1>1. Built = {} /\ Len(agents) = 0
  BY DEF Init, Built, NoCall, Building
<1>2. Cardinality(Callers) \in Nat /\ Cardinality(Built) = 0 /\ MaxAgents \in Nat \ {0}
  BY <1>1, CallersAssumption, PoolAssumption, FS_CardinalityType, FS_EmptySet
<1>3. CapacityKept
  BY <1>1, <1>2 DEF CapacityKept
<1> QED BY <1>3, InitTypes DEF IInv

\* The invariant is inductive.
LEMMA NextIInv == IInv /\ [Next]_vars => IInv'
<1> SUFFICES ASSUME IInv, [Next]_vars PROVE IInv'
  OBVIOUS
<1>0. TypeOK /\ CapacityKept
  BY DEF IInv
<1>1. ASSUME NEW w \in Callers, CallStep(w) PROVE IInv'
  BY <1>0, <1>1, CallKinds, CapacityStep DEF IInv
<1>2. CASE ShutdownStep
  <2>1. TypeOK' /\ UNCHANGED <<agents, call>>
    BY <1>0, <1>2, ShutdownType
  <2>2. Keeps
    <3>1. Len(agents) \in Nat
      BY <1>0 DEF TypeOK
    <3> QED BY <2>1, <3>1 DEF Keeps, Built
  <2> QED BY <1>0, <2>1, <2>2, CapacityStep DEF IInv
<1>3. CASE Restart
  <2>1. TypeOK' /\ agents' = <<>>
    BY <1>0, <1>3, RestartType
  <2>2. Keeps
    <3>1. Built' = {}
      BY <1>3 DEF Restart, Built, NoCall, Building
    <3>2. Len(agents) \in Nat /\ Len(agents') = 0
      BY <1>0, <2>1 DEF TypeOK
    <3> QED BY <3>1, <3>2 DEF Keeps
  <2> QED BY <1>0, <2>1, <2>2, CapacityStep DEF IInv
<1>4. CASE UNCHANGED vars
  <2>1. TypeOK' /\ CapacityKept'
    BY <1>0, <1>4 DEF vars, TypeOK, CapacityKept, Built
  <2> QED BY <2>1 DEF IInv
<1> QED BY <1>1, <1>2, <1>3, <1>4 DEF Next

\* Every variable keeps its type; in particular, no agent is in the map twice.
THEOREM TypeCorrect == Spec => []TypeOK
<1>1. IInv => TypeOK
  BY DEF IInv
<1> QED BY <1>1, InitIInv, NextIInv, PTL DEF Spec

\* Concurrent calls take the pool beyond maxAgents by less than their number.
THEOREM CapacityHolds == Spec => []CapacityKept
<1>1. IInv => CapacityKept
  BY DEF IInv
<1> QED BY <1>1, InitIInv, NextIInv, PTL DEF Spec

\* What the limit says, maxAgents agents at most, holds for a caller that waits
\* for each call before the next.
THEOREM OneCallerKeepsLimit ==
    ASSUME Cardinality(Callers) = 1
    PROVE  Spec => [](Len(agents) <= MaxAgents)
<1>1. IInv => Len(agents) <= MaxAgents
  <2> SUFFICES ASSUME IInv PROVE Len(agents) <= MaxAgents
    OBVIOUS
  <2>1. Len(agents) \in Nat /\ MaxAgents \in Nat
    BY PoolAssumption DEF IInv, TypeOK
  <2>2. Cardinality(Built) \in Nat
    BY BuiltFinite DEF Built
  <2> QED BY <2>1, <2>2 DEF IInv, CapacityKept
<1> QED BY <1>1, InitIInv, NextIInv, PTL DEF Spec

----------------------------------------------------------------------------
\* The saved list.  As long as nothing excuses it, the list holds what is owed,
\* and each resumeFromShutdown() in progress has the rest of it before itself.

Covers(w) ==
    /\ call[w].pc = "clear" => past.owed = {}
    /\ call[w].batch = "listed" =>
          /\ call[w].pc = "next" => past.owed \subseteq call[w].rest
          /\ call[w].pc \in Building => past.owed \subseteq call[w].rest \cup {call[w].id}
ClearsListed == \A w \in Callers : call[w].pc = "clear" => call[w].batch = "listed"
RestoreInv ==
    /\ ClearsListed
    /\ ~past.excused => past.owed \subseteq list /\ \A w \in Callers : Covers(w)

\* Another caller's step leaves a resumeFromShutdown() covered.
LEMMA CoversStays ==
    ASSUME NEW v \in Callers, Covers(v), call'[v] = call[v], past'.owed \subseteq past.owed
    PROVE  Covers(v)'
BY DEF Covers

\* A step of one caller that shrinks what is owed and keeps the list.
LEMMA RestoreByCaller ==
    ASSUME TypeOK, RestoreInv, NEW w \in Callers, UNCHANGED list,
           \A v \in Callers \ {w} : call'[v] = call[v],
           call'[w].pc = "clear" => call'[w].batch = "listed",
           past'.owed \subseteq past.owed, past.excused => past'.excused,
           ~past'.excused /\ Covers(w) => Covers(w)'
    PROVE  RestoreInv'
<1>1. ClearsListed'
  BY DEF RestoreInv, ClearsListed
<1>2. ASSUME ~past'.excused PROVE past'.owed \subseteq list' /\ \A v \in Callers : Covers(v)'
  <2>1. past.owed \subseteq list /\ \A v \in Callers : Covers(v)
    BY <1>2 DEF RestoreInv
  <2>2. ASSUME NEW v \in Callers PROVE Covers(v)'
    <3>1. CASE v = w
      BY <1>2, <2>1, <3>1
    <3>2. CASE v # w
      BY <2>1, <3>2, CoversStays
    <3> QED BY <3>1, <3>2
  <2> QED BY <2>1, <2>2
<1> QED BY <1>1, <1>2 DEF RestoreInv

\* The end of a call for one agent, by a failure or with an agent.
LEMMA RestoreReturn ==
    ASSUME TypeOK, RestoreInv, NEW w \in Callers, call[w].pc \in Building,
           Return(w), DealtWith(w, call[w].id), UNCHANGED list
    PROVE  RestoreInv'
<1>0. /\ call \in [Callers -> Calls] /\ call[w] \in Calls
      /\ past \in [owed : SUBSET Ids, excused : BOOLEAN]
  BY DEF TypeOK
<1>1. /\ past'.excused = past.excused
      /\ past'.owed = IF call[w].batch = "listed" THEN past.owed \ {call[w].id} ELSE past.owed
  BY <1>0 DEF DealtWith
<1>2. \A v \in Callers \ {w} : call'[v] = call[v]
  BY <1>0 DEF Return
<1>3. CASE call[w].batch = "one"
  <2>1. call'[w] = NoCall
    BY <1>0, <1>3 DEF Return
  <2>2. call'[w].pc = "idle" /\ call'[w].batch = "one"
    BY <2>1 DEF NoCall
  <2>3. Covers(w)'
    BY <2>2 DEF Covers, Building
  <2> QED BY <1>1, <1>2, <2>2, <2>3, RestoreByCaller
<1>4. CASE call[w].batch # "one"
  <2>1. call'[w].pc = "next" /\ call'[w].batch = call[w].batch /\ call'[w].rest = call[w].rest
    BY <1>0, <1>4 DEF Return, Calls
  <2>2. Covers(w) => Covers(w)'
    BY <1>1, <2>1 DEF Covers, Building
  <2> QED BY <1>1, <1>2, <2>1, <2>2, RestoreByCaller
<1> QED BY <1>3, <1>4

\* The head of the loop of a batch keeps the list.
LEMMA RestoreBatch ==
    ASSUME TypeOK, RestoreInv, NEW w \in Callers, NextOfBatch(w)
    PROVE  RestoreInv'
<1>0. /\ call \in [Callers -> Calls] /\ call[w] \in Calls /\ call[w].pc = "next"
      /\ past \in [owed : SUBSET Ids, excused : BOOLEAN] /\ UNCHANGED list
  BY DEF TypeOK, NextOfBatch
<1>1. CASE past' = [past EXCEPT !.excused = @ \/ (call[w].batch = "listed" /\ call[w].rest # {})]
           /\ IF call[w].batch = "listed" THEN Goto(w, "clear")
              ELSE call' = [call EXCEPT ![w] = NoCall]
  <2>1. /\ past'.owed = past.owed
        /\ past'.excused = (past.excused \/ (call[w].batch = "listed" /\ call[w].rest # {}))
    BY <1>0, <1>1
  <2>2. CASE call[w].batch = "listed"
    <3>1. /\ call'[w].pc = "clear" /\ call'[w].batch = "listed"
          /\ \A v \in Callers \ {w} : call'[v] = call[v]
      BY <1>0, <1>1, <2>2 DEF Goto, Calls
    <3>2. ~past'.excused /\ Covers(w) => Covers(w)'
      BY <1>0, <2>1, <2>2, <3>1 DEF Covers, Building
    <3> QED BY <1>0, <2>1, <3>1, <3>2, RestoreByCaller
  <2>3. CASE call[w].batch # "listed"
    <3>1. call'[w] = NoCall /\ \A v \in Callers \ {w} : call'[v] = call[v]
      BY <1>0, <1>1, <2>3
    <3>2. call'[w].pc = "idle" /\ call'[w].batch = "one"
      BY <3>1 DEF NoCall
    <3>3. Covers(w)'
      BY <3>2 DEF Covers, Building
    <3> QED BY <1>0, <2>1, <3>1, <3>2, <3>3, RestoreByCaller
  <2> QED BY <2>2, <2>3
<1>2. ASSUME NEW id \in call[w].rest, DealtWith(w, id),
             call' = [call EXCEPT ![w].rest = @ \ {id}]
      PROVE  RestoreInv'
  <2> DEFINE c == [call[w] EXCEPT !.rest = call[w].rest \ {id}]
  <2>1. call' = [call EXCEPT ![w] = c]
    BY <1>0, <1>2
  <2>2. call'[w] = c /\ \A v \in Callers \ {w} : call'[v] = call[v]
    BY <1>0, <2>1
  <2>3. c.pc = "next" /\ c.batch = call[w].batch /\ c.rest = call[w].rest \ {id}
    BY <1>0 DEF Calls
  <2> HIDE DEF c
  <2>4. /\ past'.excused = past.excused /\ past'.owed \subseteq past.owed
        /\ call[w].batch = "listed" => past'.owed = past.owed \ {id}
    BY <1>0, <1>2 DEF DealtWith
  <2>5. Covers(w) => Covers(w)'
    BY <1>0, <2>2, <2>3, <2>4 DEF Covers, Building
  <2> QED BY <1>0, <2>2, <2>3, <2>4, <2>5, RestoreByCaller
<1>3. ASSUME NEW id \in call[w].rest, UNCHANGED past,
             call' = [call EXCEPT ![w] = Attempt(call[w], id)]
      PROVE  RestoreInv'
  <2>1. call'[w] = Attempt(call[w], id) /\ \A v \in Callers \ {w} : call'[v] = call[v]
    BY <1>0, <1>3
  <2>2. /\ call'[w].pc = "exists" /\ call'[w].id = id
        /\ call'[w].batch = call[w].batch /\ call'[w].rest = call[w].rest \ {id}
    BY <1>0, <2>1 DEF Attempt, Calls
  <2>3. Covers(w) => Covers(w)'
    BY <1>0, <1>3, <2>2 DEF Covers, Building
  <2> QED BY <1>0, <1>3, <2>1, <2>2, <2>3, RestoreByCaller
<1> QED BY <1>1, <1>2, <1>3 DEF NextOfBatch

\* No step of a call loses an agent of the list.
LEMMA RestoreCalls ==
    ASSUME TypeOK, RestoreInv, NEW w \in Callers, CallStep(w)
    PROVE  RestoreInv'
<1>0. /\ call \in [Callers -> Calls] /\ call[w] \in Calls
      /\ past \in [owed : SUBSET Ids, excused : BOOLEAN]
  BY DEF TypeOK
<1>1. CASE (\E id \in Ids : Create(w, id) \/ Resume(w, id) \/ Delete(w, id)) \/ ResumeAll(w)
  <2>1. UNCHANGED <<list, past>>
    BY <1>1 DEF Create, Resume, Delete, ResumeAll
  <2>2. /\ \A v \in Callers \ {w} : call'[v] = call[v]
        /\ call'[w].pc \in {"build", "exists", "remove", "next"}
        /\ call'[w].batch \in {"one", "all"}
    <3>1. ASSUME NEW id \in Ids, NEW pc \in {"build", "exists", "remove"},
                 call' = [call EXCEPT ![w] = [NoCall EXCEPT !.pc = pc, !.id = id]]
          PROVE  <2>2
      <4>1. /\ \A v \in Callers \ {w} : call'[v] = call[v]
            /\ call'[w] = [NoCall EXCEPT !.pc = pc, !.id = id]
        BY <1>0, <3>1
      <4>2. call'[w].pc = pc /\ call'[w].batch = "one"
        BY <4>1 DEF NoCall
      <4> QED BY <4>1, <4>2
    <3>2. CASE \E id \in Ids : Create(w, id) \/ Resume(w, id) \/ Delete(w, id)
      BY <3>1, <3>2 DEF Create, Resume, Delete
    <3>3. CASE ResumeAll(w)
      BY <1>0, <3>3 DEF ResumeAll
    <3> QED BY <1>1, <3>2, <3>3
  <2>3. Covers(w)'
    BY <2>2 DEF Covers
  <2> QED BY <2>1, <2>2, <2>3, RestoreByCaller
<1>2. CASE ResumeFromShutdown(w)
  <2>1. /\ UNCHANGED <<list, past>> /\ \A v \in Callers \ {w} : call'[v] = call[v]
        /\ call'[w].pc = "next" /\ call'[w].rest = list
    BY <1>0, <1>2 DEF ResumeFromShutdown
  <2>2. ~past'.excused => Covers(w)'
    BY <2>1 DEF Covers, Building, RestoreInv
  <2> QED BY <2>1, <2>2, RestoreByCaller
<1>3. CASE NextOfBatch(w)
  BY <1>3, RestoreBatch
<1>4. CASE Exists(w) \/ Loaded(w) \/ Persisted(w) \/ BuildFails(w)
  <2>1. CASE Throws(w)
    <3>1. call[w].pc \in Building
      BY <1>4 DEF Exists, Loaded, Persisted, BuildFails, Building
    <3> QED BY <2>1, <3>1, RestoreReturn DEF Throws
  <2>2. CASE ~Throws(w)
    <3>1. /\ UNCHANGED <<list, past>> /\ call[w].pc \in Building
          /\ \E pc \in Building : Goto(w, pc)
      BY <1>4, <2>2 DEF Exists, Loaded, Persisted, BuildFails, Building
    <3>2. /\ call'[w].pc \in Building /\ call'[w].batch = call[w].batch
          /\ call'[w].rest = call[w].rest /\ call'[w].id = call[w].id
          /\ \A v \in Callers \ {w} : call'[v] = call[v]
      BY <1>0, <3>1 DEF Goto, Calls
    <3>3. Covers(w) => Covers(w)'
      BY <3>1, <3>2 DEF Covers, Building
    <3> QED BY <3>1, <3>2, <3>3, RestoreByCaller DEF Building
  <2> QED BY <2>1, <2>2
<1>5. CASE Registered(w)
  BY <1>5, RestoreReturn DEF Registered, Building
<1>6. CASE Removed(w) \/ (Cleared(w) /\ UNCHANGED list)
  <2>1. /\ UNCHANGED <<list, past>> /\ call'[w] = NoCall
        /\ \A v \in Callers \ {w} : call'[v] = call[v]
    BY <1>0, <1>6 DEF Removed, Cleared
  <2>2. call'[w].pc = "idle" /\ call'[w].batch = "one"
    BY <2>1 DEF NoCall
  <2>3. Covers(w)'
    BY <2>2 DEF Covers, Building
  <2> QED BY <2>1, <2>2, <2>3, RestoreByCaller
<1>7. CASE Cleared(w) /\ list' = {}
  <2>1. /\ UNCHANGED past /\ call[w].pc = "clear" /\ call'[w] = NoCall
        /\ \A v \in Callers \ {w} : call'[v] = call[v]
    BY <1>0, <1>7 DEF Cleared
  <2>2. call'[w].pc = "idle" /\ call'[w].batch = "one"
    BY <2>1 DEF NoCall
  <2>3. ClearsListed'
    BY <2>1, <2>2 DEF RestoreInv, ClearsListed
  <2>4. ASSUME ~past'.excused
        PROVE  past'.owed \subseteq list' /\ \A v \in Callers : Covers(v)'
    <3>1. Covers(w) /\ \A v \in Callers : Covers(v)
      BY <2>1, <2>4 DEF RestoreInv
    <3>2. past'.owed = {}
      BY <2>1, <3>1 DEF Covers
    <3>3. ASSUME NEW v \in Callers PROVE Covers(v)'
      BY <2>1, <3>1, <3>2 DEF Covers
    <3> QED BY <3>2, <3>3
  <2> QED BY <2>3, <2>4 DEF RestoreInv
<1> QED BY <1>1, <1>2, <1>3, <1>4, <1>5, <1>6, <1>7 DEF CallStep, Cleared

\* Nor does the shutdown, or the end of the process.
LEMMA RestoreOthers ==
    ASSUME TypeOK, RestoreInv, ShutdownStep \/ Restart \/ UNCHANGED vars
    PROVE  RestoreInv'
<1>1. CASE ListSaved
  <2>1. /\ UNCHANGED call /\ list' = down.ids /\ past'.owed = down.ids
        /\ past'.excused = \E w \in Callers : call[w].batch = "listed"
    BY <1>1 DEF ListSaved
  <2>2. ClearsListed'
    BY <2>1 DEF RestoreInv, ClearsListed
  <2>3. ASSUME ~past'.excused PROVE \A w \in Callers : Covers(w)'
    BY <2>1, <2>3 DEF RestoreInv, ClearsListed, Covers
  <2> QED BY <2>1, <2>2, <2>3 DEF RestoreInv
<1>2. CASE Restart
  <2>1. UNCHANGED <<list, past>> /\ \A w \in Callers : call'[w] = NoCall
    BY <1>2 DEF Restart
  <2>2. NoCall.pc = "idle" /\ NoCall.batch = "one"
    BY DEF NoCall
  <2> QED BY <2>1, <2>2 DEF RestoreInv, ClearsListed, Covers, Building
<1>3. CASE ~ListSaved /\ ~Restart
  <2>1. UNCHANGED <<call, list, past>>
    BY <1>3 DEF ShutdownStep, BeginShutdown, Visit, VisitedAll, ListNotSaved,
           AgentReady, TimesOut, InterruptFails, vars
  <2> QED BY <2>1 DEF RestoreInv, ClearsListed, Covers
<1> QED BY <1>1, <1>2, <1>3

\* The list of a shutdown is not cleared while it still owes an agent, however
\* resumes, deletions, shutdowns, failures and crashes interleave.
THEOREM RestoreHolds == Spec => []RestoreComplete
<1>1. Init => RestoreInv
  BY DEF Init, RestoreInv, ClearsListed, Covers, NoCall, Building
<1>2. TypeOK /\ RestoreInv /\ [Next]_vars => RestoreInv'
  BY RestoreCalls, RestoreOthers DEF Next
<1>3. RestoreInv => RestoreComplete
  BY DEF RestoreInv, RestoreComplete
<1>4. IInv => TypeOK
  BY DEF IInv
<1> QED BY <1>1, <1>2, <1>3, <1>4, InitIInv, NextIInv, PTL DEF Spec

----------------------------------------------------------------------------
\* The shutdown.  While its loop visits the map, an agent that stays has been
\* seen once if it lies before the position of the loop, and not at all behind
\* it; when the loop is over, each has been seen once.

NotSeen(id) == \A j \in DOMAIN down.seen : down.seen[j].id # id
SeenOnce(id) ==
    \E i \in DOMAIN down.seen : \A j \in DOMAIN down.seen : down.seen[j].id = id <=> j = i
Placed(id) ==
    \E i \in 1..Len(agents) : /\ agents[i] = id
                              /\ i <= down.pos => SeenOnce(id)
                              /\ i > down.pos => NotSeen(id)
StatesIn(S) == \A j \in DOMAIN down.seen : down.seen[j].state \in S

SightInv ==
    /\ down.pc = "up" => down.kept = {}
    /\ down.pc = "visiting" => \A id \in down.kept : Placed(id)
    /\ down.pc \in {"waiting", "done"} => \A id \in down.kept : SeenOnce(id)
    /\ down.pc = "waiting" => StatesIn(Outcomes \cup {"working"})
    /\ down.pc = "done" => StatesIn(Outcomes)

\* What the invariant says depends on the positions of the agents that stay, on
\* the sightings, and on where the loop is.
LEMMA SightStays ==
    ASSUME SightInv, down'.pc = down.pc, down'.seen = down.seen, down'.kept \subseteq down.kept,
           \A id \in down'.kept : down.pc = "visiting" /\ Placed(id) => Placed(id)'
    PROVE  SightInv'
<1>1. \A id : SeenOnce(id) => SeenOnce(id)'
  BY DEF SeenOnce
<1>2. StatesIn(Outcomes \cup {"working"})' <=> StatesIn(Outcomes \cup {"working"})
  BY DEF StatesIn
<1>3. StatesIn(Outcomes)' <=> StatesIn(Outcomes)
  BY DEF StatesIn
<1>4. down.pc = "visiting" => \A id \in down'.kept : Placed(id)'
  BY DEF SightInv
<1> QED BY <1>1, <1>2, <1>3, <1>4 DEF SightInv

\* An agent keeps its place when others enter the map behind it.
LEMMA PlacedStays ==
    ASSUME TypeOK, UNCHANGED down, NEW id, Placed(id),
           Len(agents) <= Len(agents'), Len(agents') \in Nat,
           \A j \in 1..Len(agents) : agents'[j] = agents[j]
    PROVE  Placed(id)'
<1>1. PICK i \in 1..Len(agents) : /\ agents[i] = id
                                  /\ i <= down.pos => SeenOnce(id)
                                  /\ i > down.pos => NotSeen(id)
  BY DEF Placed
<1>2. i \in 1..Len(agents')
  BY DEF TypeOK
<1>3. (SeenOnce(id) => SeenOnce(id)') /\ (NotSeen(id) => NotSeen(id)')
  BY DEF SeenOnce, NotSeen
<1> QED BY <1>1, <1>2, <1>3 DEF Placed

\* An agent that enters the map leaves the others where they are.
LEMMA SightPut ==
    ASSUME TypeOK, SightInv, NEW id \in Ids, agents' = Put(id), UNCHANGED down
    PROVE  SightInv'
<1>1. agents \in Seq(Ids) /\ Len(agents) \in Nat
  BY KeysDiffer
<1>2. /\ Len(agents) <= Len(agents') /\ Len(agents') \in Nat
      /\ \A j \in 1..Len(agents) : agents'[j] = agents[j]
  <2>1. CASE id \in Pooled
    BY <1>1, <2>1 DEF Put
  <2>2. CASE id \notin Pooled
    BY <1>1, <2>2, AppendProperties DEF Put
  <2> QED BY <2>1, <2>2
<1> QED BY <1>2, PlacedStays, SightStays

\* A deletion moves the agents behind it, and the loop with those it has passed.
LEMMA SightDelete ==
    ASSUME TypeOK, SightInv, NEW i \in 1..Len(agents), agents' = RemoveAt(agents, i),
           down' = [down EXCEPT !.pos = ShiftedPosition(i), !.kept = @ \ {agents[i]}]
    PROVE  SightInv'
<1>1. agents \in Seq(Ids) /\ Len(agents) \in Nat
  BY KeysDiffer
<1>2. /\ agents' \in Seq(Ids) /\ Len(agents') = Len(agents) - 1
      /\ \A j \in 1..(Len(agents) - 1) : agents'[j] = agents[IF j < i THEN j ELSE j + 1]
  BY <1>1, Shrunk
<1>3. /\ down'.pc = down.pc /\ down'.seen = down.seen /\ down'.kept = down.kept \ {agents[i]}
      /\ down'.pos = (IF i <= down.pos THEN down.pos - 1 ELSE down.pos) /\ down.pos \in Nat
  BY DEF TypeOK, ShiftedPosition
<1>4. ASSUME NEW id \in down'.kept, Placed(id) PROVE Placed(id)'
  <2>1. PICK k \in 1..Len(agents) : /\ agents[k] = id
                                    /\ k <= down.pos => SeenOnce(id)
                                    /\ k > down.pos => NotSeen(id)
    BY <1>4 DEF Placed
  <2>2. k # i
    BY <1>3, <1>4, <2>1
  <2> DEFINE n == IF k < i THEN k ELSE k - 1
  <2>3. n \in 1..Len(agents') /\ agents'[n] = id
    BY <1>1, <1>2, <2>1, <2>2
  <2>4. (n <= down'.pos => k <= down.pos) /\ (n > down'.pos => k > down.pos)
    BY <1>1, <1>3, <2>2
  <2>5. (SeenOnce(id) => SeenOnce(id)') /\ (NotSeen(id) => NotSeen(id)')
    BY <1>3 DEF SeenOnce, NotSeen
  <2> QED BY <2>1, <2>3, <2>4, <2>5 DEF Placed
<1> QED BY <1>3, <1>4, SightStays

\* No step of a call takes an agent that stays from the report.
LEMMA SightCalls ==
    ASSUME TypeOK, SightInv, NEW w \in Callers, CallStep(w)
    PROVE  SightInv'
<1>1. CASE UNCHANGED <<agents, down>>
  <2>1. agents \in Seq(Ids) /\ Len(agents) \in Nat
    BY KeysDiffer
  <2>2. \A id : Placed(id) => Placed(id)'
    BY <1>1, <2>1, PlacedStays
  <2> QED BY <1>1, <2>2, SightStays
<1>2. CASE Registered(w)
  <2>1. call[w].id \in Ids
    BY <1>2 DEF TypeOK, Registered, Building
  <2> QED BY <1>2, <2>1, SightPut DEF Registered
<1>3. ASSUME NEW id \in Ids, Delete(w, id), ~(UNCHANGED <<agents, down>>) PROVE SightInv'
  <2>1. PICK i \in 1..Len(agents) :
            /\ agents[i] = id
            /\ agents' = RemoveAt(agents, i)
            /\ down' = [down EXCEPT !.pos = ShiftedPosition(i), !.kept = @ \ {id}]
    BY <1>3 DEF Delete
  <2> QED BY <2>1, SightDelete
<1>4. CASE ~Registered(w) /\ \A id \in Ids : ~Delete(w, id)
  BY <1>1, <1>4 DEF CallStep, Create, Resume, ResumeAll, ResumeFromShutdown, NextOfBatch,
        Exists, Loaded, Persisted, BuildFails, Removed, Cleared, Throws
<1> QED BY <1>1, <1>2, <1>3, <1>4

\* One turn of the loop.
LEMMA SightVisit ==
    ASSUME TypeOK, SightInv, Visit
    PROVE  SightInv'
<1>1. /\ agents \in Seq(Ids) /\ Len(agents) \in Nat
      /\ \A j, k \in 1..Len(agents) : agents[j] = agents[k] => j = k
  BY KeysDiffer
<1>2. down.pos \in Nat /\ down.seen \in Seq(Sighting) /\ down.pos < Len(agents)
  BY DEF TypeOK, Visit
<1>a. PICK me \in Ids : me = agents[down.pos + 1]
  BY <1>1, <1>2
<1>3. PICK state \in {"ready", "working"} :
          down' = [down EXCEPT !.pos = @ + 1, !.seen = Append(@, [id |-> me, state |-> state])]
  BY <1>a DEF Visit
<1> DEFINE s == [id |-> me, state |-> state]
<1>4. /\ down'.pc = "visiting" /\ down'.pos = down.pos + 1 /\ down'.kept = down.kept
      /\ down'.seen = Append(down.seen, s) /\ agents' = agents
  BY <1>3 DEF TypeOK, Visit
<1>5. s \in Sighting /\ s.id = me
  BY DEF Sighting
<1> HIDE DEF s
<1>6. /\ Len(down'.seen) = Len(down.seen) + 1 /\ Len(down.seen) \in Nat
      /\ down'.seen[Len(down.seen) + 1] = s
      /\ \A j \in 1..Len(down.seen) : down'.seen[j] = down.seen[j]
      /\ DOMAIN down'.seen = 1..(Len(down.seen) + 1) /\ DOMAIN down.seen = 1..Len(down.seen)
  BY <1>2, <1>4, <1>5, AppendProperties
<1>7. ASSUME NEW id, id # me, SeenOnce(id) PROVE SeenOnce(id)'
  <2>1. PICK i \in DOMAIN down.seen : \A j \in DOMAIN down.seen : down.seen[j].id = id <=> j = i
    BY <1>7 DEF SeenOnce
  <2>2. i \in DOMAIN down'.seen /\ i # Len(down.seen) + 1
    BY <1>6, <2>1
  <2>3. \A j \in DOMAIN down'.seen : down'.seen[j].id = id <=> j = i
    BY <1>5, <1>6, <1>7, <2>1, <2>2
  <2> QED BY <2>2, <2>3, Zenon DEF SeenOnce
<1>8. \A id : id # me /\ NotSeen(id) => NotSeen(id)'
  BY <1>5, <1>6 DEF NotSeen
<1>9. NotSeen(me) => SeenOnce(me)'
  <2> SUFFICES ASSUME NotSeen(me) PROVE SeenOnce(me)'
    OBVIOUS
  <2>1. \A j \in DOMAIN down'.seen : down'.seen[j].id = me <=> j = Len(down.seen) + 1
    BY <1>5, <1>6 DEF NotSeen
  <2>2. Len(down.seen) + 1 \in DOMAIN down'.seen
    BY <1>6
  <2> QED BY <2>1, <2>2, Zenon DEF SeenOnce
<1>10. ASSUME NEW id \in down.kept PROVE Placed(id)'
  <2>1. PICK k \in 1..Len(agents) : /\ agents[k] = id
                                    /\ k <= down.pos => SeenOnce(id)
                                    /\ k > down.pos => NotSeen(id)
    BY DEF SightInv, Placed, Visit
  <2>2. CASE k = down.pos + 1
    <3>1. id = me /\ NotSeen(id) /\ k <= down'.pos
      BY <1>a, <1>2, <1>4, <2>1, <2>2
    <3>2. SeenOnce(id)'
      BY <1>9, <3>1
    <3> QED BY <1>2, <1>4, <2>1, <3>1, <3>2 DEF Placed
  <2>3. CASE k # down.pos + 1
    <3>1. id # me
      BY <1>a, <1>1, <1>2, <2>1, <2>3
    <3>2. (k <= down'.pos => k <= down.pos) /\ (k > down'.pos => k > down.pos)
      BY <1>2, <1>4, <2>3
    <3> QED BY <1>4, <1>7, <1>8, <2>1, <3>1, <3>2 DEF Placed
  <2> QED BY <2>2, <2>3
<1> QED BY <1>4, <1>10 DEF SightInv

\* The end of the loop, and the answers for the agents at work.
LEMMA SightVisited ==
    ASSUME TypeOK, SightInv, VisitedAll
    PROVE  SightInv'
<1>1. down \in Downs /\ down.seen \in Seq(Sighting) /\ down.pc = "visiting"
      /\ down.pos >= Len(agents) /\ down.pos \in Nat /\ Len(agents) \in Nat
  BY DEF TypeOK, Downs, VisitedAll
<1> DEFINE seen == [i \in DOMAIN down.seen |-> IF down.seen[i].state = "ready"
                       THEN [down.seen[i] EXCEPT !.state = "completed"] ELSE down.seen[i]]
<1>2. /\ down'.pc = "waiting" /\ down'.kept = down.kept /\ down'.seen = seen
  BY <1>1 DEF VisitedAll, Downs
<1>3. \A i \in DOMAIN down.seen :
          seen[i].id = down.seen[i].id /\ seen[i].state \in Outcomes \cup {"working"}
  <2> TAKE i \in DOMAIN down.seen
  <2>1. down.seen[i] \in Sighting
    BY <1>1
  <2> QED BY <2>1 DEF Sighting, Outcomes
<1>4. DOMAIN seen = DOMAIN down.seen
  OBVIOUS
<1> HIDE DEF seen
<1>5. StatesIn(Outcomes \cup {"working"})'
  BY <1>2, <1>3, <1>4 DEF StatesIn
<1>6. \A id \in down.kept : SeenOnce(id)
  BY <1>1 DEF SightInv, Placed
<1>7. \A id \in down.kept : SeenOnce(id)'
  BY <1>2, <1>3, <1>4, <1>6 DEF SeenOnce
<1> QED BY <1>2, <1>5, <1>7 DEF SightInv

\* An answer for one agent changes the outcome of that agent only.
LEMMA SightResolve ==
    ASSUME TypeOK, SightInv, NEW i \in DOMAIN down.seen,
           AgentReady(i) \/ TimesOut(i) \/ InterruptFails(i)
    PROVE  SightInv'
<1>1. PICK o \in Outcomes : Resolve(i, o)
  BY DEF AgentReady, TimesOut, InterruptFails, Outcomes
<1>2. down \in Downs /\ down.seen \in Seq(Sighting) /\ down.pc = "waiting"
  BY DEF TypeOK, Downs, AgentReady, TimesOut, InterruptFails, WaitsFor
<1>3. down.seen[i] \in Sighting
  BY <1>2
<1> DEFINE s == [down.seen[i] EXCEPT !.state = o]
<1>4. s.id = down.seen[i].id /\ s.state = o
  BY <1>3 DEF Sighting
<1>5. /\ down'.pc = "waiting" /\ down'.kept = down.kept
      /\ down'.seen = [down.seen EXCEPT ![i] = s]
  BY <1>1, <1>2 DEF Resolve, Downs
<1> HIDE DEF s
<1>6. /\ DOMAIN down'.seen = DOMAIN down.seen /\ down'.seen[i] = s
      /\ \A j \in DOMAIN down.seen \ {i} : down'.seen[j] = down.seen[j]
  BY <1>2, <1>5
<1>7. StatesIn(Outcomes \cup {"working"})'
  BY <1>2, <1>4, <1>6 DEF StatesIn, SightInv
<1>8. \A id \in down.kept : SeenOnce(id)
  BY <1>2 DEF SightInv
<1>9. \A j \in DOMAIN down.seen : down'.seen[j].id = down.seen[j].id
  BY <1>4, <1>6
<1>10. \A id \in down.kept : SeenOnce(id)'
  BY <1>6, <1>8, <1>9 DEF SeenOnce
<1> QED BY <1>5, <1>7, <1>10 DEF SightInv

\* Every step of the shutdown keeps the report complete.
LEMMA SightShutdown ==
    ASSUME TypeOK, SightInv, ShutdownStep
    PROVE  SightInv'
<1>1. CASE BeginShutdown
  <2>1. /\ down'.pc = "visiting" /\ down'.kept = Pooled /\ down'.pos = 0 /\ down'.seen = <<>>
        /\ agents' = agents
    BY <1>1 DEF BeginShutdown, Up
  <2>2. \A id \in Pooled : \E k \in 1..Len(agents) : agents[k] = id /\ k > 0
    BY KeysDiffer DEF Pooled, ToSet
  <2>3. \A id \in Pooled : Placed(id)'
    BY <2>1, <2>2 DEF Placed, NotSeen
  <2> QED BY <2>1, <2>3 DEF SightInv
<1>2. CASE ListSaved \/ ListNotSaved
  <2>1. /\ down.pc = "waiting" /\ down'.pc = "done" /\ down'.kept = down.kept
        /\ down'.seen = down.seen /\ \A j \in DOMAIN down.seen : down.seen[j].state # "working"
    BY <1>2 DEF ListSaved, ListNotSaved, AllResolved, TypeOK
  <2>2. StatesIn(Outcomes)'
    BY <2>1 DEF SightInv, StatesIn
  <2>3. \A id \in down.kept : SeenOnce(id)'
    BY <2>1 DEF SightInv, SeenOnce
  <2> QED BY <2>1, <2>2, <2>3 DEF SightInv
<1> QED BY <1>1, <1>2, SightVisit, SightVisited, SightResolve DEF ShutdownStep

\* The next process has no shutdown yet.
LEMMA SightOthers ==
    ASSUME TypeOK, SightInv, Restart \/ UNCHANGED vars
    PROVE  SightInv'
<1>1. CASE Restart
  <2>1. down'.pc = "up" /\ down'.kept = {}
    BY <1>1 DEF Restart, Up
  <2> QED BY <2>1 DEF SightInv
<1>2. CASE UNCHANGED vars
  BY <1>2 DEF vars, SightInv, Placed, SeenOnce, NotSeen, StatesIn
<1> QED BY <1>1, <1>2

\* What calls add and remove while gracefulShutdown() runs takes no agent that
\* stays from its report, and lists none of them twice.
THEOREM ShutdownHolds == Spec => []ShutdownAccounts
<1>1. Init => SightInv
  BY DEF Init, SightInv, Up
<1>2. TypeOK /\ SightInv /\ [Next]_vars => SightInv'
  BY SightCalls, SightShutdown, SightOthers DEF Next
<1>3. SightInv => ShutdownAccounts
  BY DEF SightInv, ShutdownAccounts, StatesIn, SeenOnce
<1>4. IInv => TypeOK
  BY DEF IInv
<1> QED BY <1>1, <1>2, <1>3, <1>4, InitIInv, NextIInv, PTL DEF Spec

\* The pool's promises together: it exceeds its limit by no more than the calls
\* in progress explain, and no agent is lost between a shutdown and the
\* restoration that follows it.
THEOREM PoolHolds == Spec => []PoolKept
<1>1. CapacityKept /\ ShutdownAccounts /\ RestoreComplete <=> PoolKept
  BY DEF PoolKept
<1> QED BY <1>1, CapacityHolds, ShutdownHolds, RestoreHolds, PTL


----------------------------------------------------------------------------
(* The family of an agent (AgentLineage).                                  *)

Names == STRING \cup Nat \cup {"root"}
AgentNames == {a \in Seq(Names) : Len(a) >= 1}
Limits == [depth : Nat, level : Nat]
Histories == Seq(Nat)

LiveAgent(r) ==
  /\ r = [lineage |-> r.lineage, messages |-> r.messages, limit |-> r.limit]
  /\ r.lineage \in Seq(AgentNames) /\ r.messages \in Histories /\ r.limit \in Limits
StoredAgent(r) ==
  /\ r = [lineage |-> r.lineage, messages |-> r.messages, limit |-> r.limit,
          snapshots |-> r.snapshots]
  /\ r.lineage \in Seq(AgentNames) /\ r.messages \in Histories /\ r.limit \in Limits
  /\ \A i \in DOMAIN r.snapshots : r.snapshots[i] \in Histories

Stages == {"idle", "saved", "loaded", "created", "filed", "returned", "failed"}
Fork == [stage : Stages, parent : AgentNames, snapshot : Nat, messages : Histories, child : AgentNames]

FamilyTypes ==
  /\ DOMAIN live \subseteq AgentNames /\ \A a \in DOMAIN live : LiveAgent(live[a])
  /\ DOMAIN persisted \subseteq AgentNames /\ \A a \in DOMAIN persisted : StoredAgent(persisted[a])
  /\ forking \in [ForkCallers -> Fork]
  /\ turns \in Nat /\ clock \in Nat

\* What an agent's lineage and limit are, in memory and in the store.
TrueLine(a, r) == Head(a) = "root" => Suffix(r.lineage, Ancestors(a))
TrueLimit(r) == inherit => r.limit.depth + r.limit.level = Depth
Descends(a, r) == TrueLine(a, r) /\ TrueLimit(r)
AllDescend == /\ \A a \in DOMAIN live : Descends(a, live[a])
              /\ \A a \in DOMAIN persisted : Descends(a, persisted[a])

\* A snapshot is what its id was first given for, or the id has been used again.
NamedRight(a, id, messages) == /\ <<a, id>> \in DOMAIN named
                               /\ <<a, id>> \notin reused => messages = named[<<a, id>>]
SnapshotsNamed ==
  \A a \in DOMAIN persisted : \A id \in DOMAIN persisted[a].snapshots :
    NamedRight(a, id, persisted[a].snapshots[id])

\* How far a fork is: its child is one, has been created, and has been filed, unless another
\* fork has got the same id.
HasParent(r, p) == r.lineage # <<>> /\ r.lineage[Len(r.lineage)] = p
Begun == {"loaded", "created", "filed", "returned"}
ForkKept(f) ==
  LET k == forking[f]
      c == forking[f].child IN
    /\ k.stage \in Begun => \E t \in Nat : c = ForkId(k.parent, t)
    /\ k.stage \in {"loaded", "created", "filed"} => NamedRight(k.parent, k.snapshot, k.messages)
    /\ k.stage \in {"created", "filed"} =>
         /\ c \in DOMAIN live /\ c \in DOMAIN persisted
         /\ ~Clashes(f) => HasParent(live[c], k.parent) /\ live[c].messages = k.messages
    /\ k.stage = "filed" /\ ~Clashes(f) => persisted[c].messages = k.messages
    /\ k.stage = "returned" /\ c \notin wiped /\ ~Clashes(f) =>
         /\ c \in DOMAIN persisted /\ HasParent(persisted[c], k.parent)
         /\ NamedRight(k.parent, k.snapshot, persisted[c].messages)

FamilyIInv == /\ FamilyTypes /\ AllDescend /\ SnapshotsNamed
              /\ \A f \in ForkCallers : ForkKept(f)

----------------------------------------------------------------------------
\* A function with one more value.
LEMMA IncludingIs ==
  ASSUME NEW f, NEW x, NEW y
  PROVE  /\ DOMAIN Including(f, x, y) = DOMAIN f \cup {x}
         /\ Including(f, x, y)[x] = y
         /\ \A z \in DOMAIN f : z # x => Including(f, x, y)[z] = f[z]
BY DEF Including

\* The name of a fork.
LEMMA ForkNames ==
  ASSUME NEW p \in AgentNames, NEW t \in Nat
  PROVE  LET c == ForkId(p, t)
         IN /\ c \in AgentNames /\ c # Root /\ c \notin SubIds /\ Len(c) = Len(p) + 1
            /\ Head(c) = Head(p) /\ \A i \in 1..Len(p) : c[i] = p[i]
<1>1. PICK c : c = ForkId(p, t)
  OBVIOUS
<1>2. p \in Seq(Names) /\ Len(p) \in Nat /\ Len(p) >= 1 /\ t \in Names
  BY DEF AgentNames, Names
<1>3. c \in Seq(Names) /\ Len(c) = Len(p) + 1 /\ \A i \in 1..Len(p) : c[i] = p[i]
  BY <1>1, <1>2, AppendProperties DEF ForkId
<1>4. Head(c) = c[1] /\ Head(p) = p[1] /\ 1 \in 1..Len(p)
  BY <1>2, <1>3
<1>5. Len(c) # 1
  BY <1>2, <1>3
<1>6. c # Root
  <2>1. Len(Root) = 1
    BY DEF Root
  <2> QED BY <1>5, <2>1
<1>7. c \notin SubIds
  BY <1>5, LineageAssumption
<1>8. c \in AgentNames
  BY <1>2, <1>3 DEF AgentNames
<1> QED BY <1>1, <1>3, <1>4, <1>6, <1>7, <1>8

\* A sub-agent is no fork of the root.
LEMMA SubNames ==
  ASSUME NEW s \in SubIds
  PROVE  s \in AgentNames /\ Head(s) # "root" /\ s # Root
<1>1. s \in Seq(STRING) /\ Len(s) = 1 /\ s # Root
  BY LineageAssumption
<1>2. s \in Seq(Names)
  BY <1>1 DEF Names
<1>3. s \in AgentNames
  BY <1>1, <1>2 DEF AgentNames
<1>4. Head(s) # "root"
  <2>1. SUFFICES ASSUME Head(s) = "root" PROVE s = <<"root">>
    BY <1>1 DEF Root
  <2>2. PICK n : n = "root"
    OBVIOUS
  <2>3. s = <<n>>
    BY <1>1, <2>1, <2>2
  <2> QED BY <2>2, <2>3
<1> QED BY <1>1, <1>3, <1>4

\* The root's name is one.
LEMMA RootName == Root \in AgentNames
<1>1. PICK n \in Names : n = "root"
  BY DEF Names
<1>2. <<n>> \in Seq(Names) /\ Len(<<n>>) = 1
  OBVIOUS
<1> QED BY <1>1, <1>2 DEF Root, AgentNames

\* A list that ends another one still does when both grow.
LEMMA SuffixGrows ==
  ASSUME NEW S, NEW xs \in Seq(S), NEW ys \in Seq(S), NEW z \in S, Suffix(xs, ys)
  PROVE  Suffix(Append(xs, z), Append(ys, z))
<1>1. PICK i \in 0..Len(ys) : xs = SubSeq(ys, i + 1, Len(ys))
  BY DEF Suffix
<1>2. Len(ys) \in Nat /\ Len(xs) = Len(ys) - i /\ \A j \in 1..Len(xs) : xs[j] = ys[i + j]
  <2>1. Len(ys) \in Nat /\ i + 1 \in 1..Len(ys) + 1 /\ Len(ys) \in 0..Len(ys) /\ i + 1 <= Len(ys) + 1
    OBVIOUS
  <2>2. Len(xs) = Len(ys) - i
    BY <1>1, <2>1
  <2>3. \A j \in 1..Len(xs) : xs[j] = ys[i + j]
    BY <1>1, <2>1, <2>2
  <2> QED BY <2>1, <2>2, <2>3
<1>3. PICK us, vs : us = Append(xs, z) /\ vs = Append(ys, z)
  OBVIOUS
<1>4. /\ us \in Seq(S) /\ Len(us) = Len(xs) + 1 /\ us[Len(xs) + 1] = z /\ \A j \in 1..Len(xs) : us[j] = xs[j]
      /\ vs \in Seq(S) /\ Len(vs) = Len(ys) + 1 /\ vs[Len(ys) + 1] = z /\ \A j \in 1..Len(ys) : vs[j] = ys[j]
  BY <1>3, AppendProperties
<1>5. PICK ws : ws = SubSeq(vs, i + 1, Len(vs))
  OBVIOUS
<1>6. ws \in Seq(S) /\ Len(ws) = Len(vs) - i /\ \A j \in 1..Len(ws) : ws[j] = vs[i + j]
  <2>1. Len(vs) \in Nat /\ i \in Nat /\ i <= Len(vs)
    BY <1>2, <1>4
  <2>2. Len(ws) = Len(vs) - i
    BY <1>4, <1>5, <2>1
  <2>3. \A j \in 1..Len(ws) : ws[j] = vs[i + j]
    BY <1>4, <1>5, <2>1, <2>2
  <2>4. ws \in Seq(S)
    BY <1>4, <1>5, <2>1
  <2> QED BY <2>2, <2>3, <2>4
<1>7. Len(us) = Len(ws) /\ \A j \in 1..Len(us) : us[j] = ws[j]
  <2>1. Len(us) = Len(ws)
    BY <1>2, <1>4, <1>6
  <2>2. ASSUME NEW j \in 1..Len(us) PROVE us[j] = ws[j]
    <3>1. CASE j \in 1..Len(xs)
      <4>1. i + j \in 1..Len(ys)
        BY <1>2, <3>1
      <4> QED BY <1>2, <1>4, <1>6, <2>1, <3>1, <4>1
    <3>2. CASE j = Len(xs) + 1
      <4>1. i + j = Len(ys) + 1
        BY <1>2, <3>2
      <4> QED BY <1>4, <1>6, <2>1, <3>2, <4>1
    <3> QED BY <1>2, <1>4, <3>1, <3>2
  <2> QED BY <2>1, <2>2
<1>8. us = ws
  BY <1>4, <1>6, <1>7, SeqEqual
<1>9. i \in 0..Len(vs)
  BY <1>2, <1>4
<1> QED BY <1>3, <1>5, <1>8, <1>9 DEF Suffix

\* The ancestors of a fork are those of its parent, and its parent.
LEMMA AncestorsGrow ==
  ASSUME NEW p \in AgentNames, NEW t \in Nat
  PROVE  /\ Ancestors(p) \in Seq(AgentNames)
         /\ Ancestors(ForkId(p, t)) = Append(Ancestors(p), p)
<1>1. PICK c : c = ForkId(p, t)
  OBVIOUS
<1>2. /\ p \in Seq(Names) /\ Len(p) \in Nat /\ Len(p) >= 1
      /\ c \in Seq(Names) /\ Len(c) = Len(p) + 1 /\ \A i \in 1..Len(p) : c[i] = p[i]
  BY <1>1, ForkNames DEF AgentNames
<1>3. ASSUME NEW i \in 1..Len(p)
      PROVE  SubSeq(c, 1, i) = SubSeq(p, 1, i) /\ SubSeq(p, 1, i) \in AgentNames
  <2>1. i \in Nat /\ i >= 1 /\ i <= Len(p) /\ i <= Len(c)
    BY <1>2
  <2>2. PICK v, w : v = SubSeq(c, 1, i) /\ w = SubSeq(p, 1, i)
    OBVIOUS
  <2>3. /\ v \in Seq(Names) /\ Len(v) = i /\ \A j \in 1..i : v[j] = c[j]
        /\ w \in Seq(Names) /\ Len(w) = i /\ \A j \in 1..i : w[j] = p[j]
    BY <1>2, <2>1, <2>2
  <2>4. \A j \in 1..i : v[j] = w[j]
    BY <1>2, <2>1, <2>3
  <2>5. v = w
    BY <2>3, <2>4, SeqEqual
  <2> QED BY <2>1, <2>2, <2>3, <2>5 DEF AgentNames
<1>4. SubSeq(p, 1, Len(p)) = p
  BY <1>2
<1>5. PICK A, B : A = Ancestors(p) /\ B = Ancestors(c)
  OBVIOUS
<1>6. PICK n \in Nat : n = Len(p) - 1
  BY <1>2
<1>7. A = [i \in 1..n |-> SubSeq(p, 1, i)] /\ B = [i \in 1..n + 1 |-> SubSeq(c, 1, i)]
  BY <1>2, <1>5, <1>6 DEF Ancestors
<1>8. A \in [1..n -> AgentNames] /\ B \in [1..n + 1 -> AgentNames]
  <2>1. \A i \in 1..n : SubSeq(p, 1, i) \in AgentNames
    BY <1>2, <1>3, <1>6
  <2>2. ASSUME NEW i \in 1..n + 1 PROVE SubSeq(c, 1, i) \in AgentNames
    <3>1. i \in 1..Len(p)
      BY <1>2, <1>6
    <3> QED BY <1>3, <3>1
  <2> QED BY <1>7, <2>1, <2>2
<1>9. A \in Seq(AgentNames) /\ Len(A) = n /\ B \in Seq(AgentNames) /\ Len(B) = n + 1
  BY <1>6, <1>8, LenProperties
<1>10. PICK D : D = Append(A, p)
  OBVIOUS
<1>11. D \in Seq(AgentNames) /\ Len(D) = n + 1 /\ D[n + 1] = p /\ \A i \in 1..n : D[i] = A[i]
  BY <1>9, <1>10, AppendProperties
<1>12. ASSUME NEW i \in 1..n + 1 PROVE B[i] = D[i]
  <2>1. i \in 1..Len(p) /\ B[i] = SubSeq(p, 1, i)
    BY <1>2, <1>3, <1>6, <1>7
  <2>2. CASE i \in 1..n
    BY <1>7, <1>11, <2>1, <2>2
  <2>3. CASE i = n + 1
    BY <1>2, <1>4, <1>6, <1>11, <2>1, <2>3
  <2> QED BY <2>2, <2>3
<1>13. B = D
  BY <1>9, <1>11, <1>12, SeqEqual
<1> QED BY <1>1, <1>5, <1>9, <1>10, <1>13

\* Nothing ends every list.
LEMMA EmptySuffix ==
  ASSUME NEW S, NEW ys \in Seq(S)
  PROVE  Suffix(<<>>, ys)
<1>1. PICK n \in Nat : n = Len(ys)
  OBVIOUS
<1>2. SubSeq(ys, n + 1, n) = <<>>
  BY <1>1
<1> QED BY <1>1, <1>2 DEF Suffix

\* The invariant holds at first.
LEMMA FamilyInitHolds == LineageInit => FamilyIInv
<1> SUFFICES ASSUME LineageInit PROVE FamilyIInv
  OBVIOUS
<1>1. PICK l : l = [lineage |-> <<>>, messages |-> <<1>>, limit |-> FullLimit]
  OBVIOUS
<1>2. PICK k : k = [lineage |-> <<>>, messages |-> <<1>>, limit |-> FullLimit, snapshots |-> <<>>]
  OBVIOUS
<1>3. /\ DOMAIN live = {Root} /\ live[Root] = l /\ DOMAIN persisted = {Root} /\ persisted[Root] = k
  BY <1>1, <1>2 DEF LineageInit
<1>4. FullLimit \in Limits /\ FullLimit.depth + FullLimit.level = Depth
  BY LineageAssumption DEF FullLimit, Limits
<1>5. LiveAgent(l) /\ StoredAgent(k) /\ l.lineage = <<>> /\ k.lineage = <<>>
      /\ l.limit = FullLimit /\ k.limit = FullLimit /\ DOMAIN k.snapshots = {}
  <2>1. <<>> \in Seq(AgentNames) /\ <<1>> \in Histories
    BY DEF Histories
  <2> QED BY <1>1, <1>2, <1>4, <2>1 DEF LiveAgent, StoredAgent
<1>6. \A f \in ForkCallers : forking[f] = NoFork
  BY DEF LineageInit
<1>7. NoFork \in Fork /\ NoFork.stage = "idle"
  <2>1. <<>> \in Histories /\ 0 \in Nat /\ "idle" \in Stages
    BY DEF Histories, Stages
  <2> QED BY <2>1, RootName DEF NoFork, Fork
<1>8. FamilyTypes
  <2>1. forking \in [ForkCallers -> Fork]
    BY <1>7 DEF LineageInit
  <2>2. turns \in Nat /\ clock \in Nat
    BY DEF LineageInit
  <2> QED BY <1>3, <1>5, <2>1, <2>2, RootName DEF FamilyTypes
<1>9. AllDescend
  <2>1. \A r : r.lineage = <<>> => Suffix(r.lineage, Ancestors(Root))
    <3>1. Ancestors(Root) \in Seq(AgentNames)
      BY AncestorsGrow, RootName
    <3> QED BY <3>1, EmptySuffix
  <2>2. TrueLine(Root, l) /\ TrueLine(Root, k)
    BY <1>5, <2>1 DEF TrueLine
  <2> QED BY <1>3, <1>4, <1>5, <2>2 DEF AllDescend, Descends, TrueLimit
<1>10. SnapshotsNamed
  BY <1>3, <1>5 DEF SnapshotsNamed
<1>11. \A f \in ForkCallers : ForkKept(f)
  BY <1>6, <1>7 DEF ForkKept, Begun
<1> QED BY <1>8, <1>9, <1>10, <1>11 DEF FamilyIInv

----------------------------------------------------------------------------
\* What a step leaves of the forks under way that it is not a step of.
StaysThere(c) ==
  /\ c \in DOMAIN live => /\ c \in DOMAIN live' /\ live'[c].lineage = live[c].lineage
                          /\ live'[c].messages = live[c].messages
  /\ c \in DOMAIN persisted => /\ c \in DOMAIN persisted' /\ persisted'[c].lineage = persisted[c].lineage
                               /\ persisted'[c].messages = persisted[c].messages
NamesStay ==
  /\ DOMAIN named \subseteq DOMAIN named' /\ \A o \in DOMAIN named : named'[o] = named[o]
  /\ reused \subseteq reused' /\ wiped \subseteq wiped'

\* The child of the fork stays, or another fork has its id, or it was deleted.
ForkLeftAlone(f) ==
  LET c == forking[f].child IN
    /\ forking'[f] = forking[f] /\ (Clashes(f) => Clashes(f)')
    /\ \/ forking[f].stage \notin Begun
       \/ StaysThere(c)
       \/ Clashes(f)' /\ (c \in DOMAIN live => c \in DOMAIN live')
                      /\ (c \in DOMAIN persisted => c \in DOMAIN persisted')
       \/ c \in wiped' /\ forking[f].stage \notin {"created", "filed"}

\* A snapshot that is what its id was given for stays so, or the id is used again.
LEMMA NamedStays ==
  ASSUME NamesStay, NEW a, NEW id, NEW messages, NamedRight(a, id, messages)
  PROVE  NamedRight(a, id, messages)'
<1>1. PICK o : o = <<a, id>>
  OBVIOUS
<1>2. o \in DOMAIN named /\ (o \notin reused => messages = named[o])
  BY <1>1 DEF NamedRight
<1>3. o \in DOMAIN named' /\ (o \notin reused' => messages = named'[o])
  BY <1>2 DEF NamesStay
<1> QED BY <1>1, <1>3 DEF NamedRight

\* A fork that is left alone keeps what it has reached.
LEMMA ForkStays ==
  ASSUME NEW f \in ForkCallers, ForkKept(f), NamesStay, ForkLeftAlone(f)
  PROVE  ForkKept(f)'
<1>1. PICK k, c : k = forking[f] /\ c = k.child /\ forking'[f] = k
  BY DEF ForkLeftAlone
<1>2. k.stage \in Begun => \E t \in Nat : c = ForkId(k.parent, t)
  BY <1>1 DEF ForkKept
<1>3. k.stage \in {"loaded", "created", "filed"} => NamedRight(k.parent, k.snapshot, k.messages)'
  <2>1. k.stage \in {"loaded", "created", "filed"} => NamedRight(k.parent, k.snapshot, k.messages)
    BY <1>1 DEF ForkKept
  <2> QED BY <2>1, NamedStays
<1>4. k.stage \in {"created", "filed"} =>
         /\ c \in DOMAIN live' /\ c \in DOMAIN persisted'
         /\ ~Clashes(f)' => HasParent(live'[c], k.parent) /\ live'[c].messages = k.messages
  BY <1>1 DEF ForkKept, ForkLeftAlone, StaysThere, HasParent, Begun
<1>5. k.stage = "filed" /\ ~Clashes(f)' => persisted'[c].messages = k.messages
  BY <1>1 DEF ForkKept, ForkLeftAlone, StaysThere, Begun
<1>6. k.stage = "returned" /\ c \notin wiped' /\ ~Clashes(f)' =>
         /\ c \in DOMAIN persisted' /\ HasParent(persisted'[c], k.parent)
         /\ \E m : m = persisted'[c].messages /\ NamedRight(k.parent, k.snapshot, m)'
  <2>1. SUFFICES ASSUME k.stage = "returned", c \notin wiped', ~Clashes(f)'
                 PROVE  /\ c \in DOMAIN persisted' /\ HasParent(persisted'[c], k.parent)
                        /\ \E m : m = persisted'[c].messages /\ NamedRight(k.parent, k.snapshot, m)'
    OBVIOUS
  <2>2. c \notin wiped /\ ~Clashes(f) /\ StaysThere(c)
    BY <1>1, <2>1 DEF ForkLeftAlone, NamesStay, Begun
  <2>3. /\ c \in DOMAIN persisted /\ HasParent(persisted[c], k.parent)
        /\ NamedRight(k.parent, k.snapshot, persisted[c].messages)
    BY <1>1, <2>1, <2>2 DEF ForkKept
  <2>4. c \in DOMAIN persisted' /\ HasParent(persisted'[c], k.parent)
    BY <2>2, <2>3 DEF StaysThere, HasParent
  <2>5. PICK m : m = persisted[c].messages /\ m = persisted'[c].messages
    BY <2>2, <2>3 DEF StaysThere
  <2>6. NamedRight(k.parent, k.snapshot, m)'
    BY <2>3, <2>5, NamedStays
  <2> QED BY <2>4, <2>5, <2>6
<1> QED BY <1>1, <1>2, <1>3, <1>4, <1>5, <1>6 DEF ForkKept

\* When no fork makes a step, no id is lost and none is given to another fork.
LEMMA ForksAsTheyWere ==
  ASSUME FamilyIInv, UNCHANGED <<forking, named, reused>>, wiped \subseteq wiped',
         \A c \in AgentNames : c # Root /\ c \notin SubIds =>
            StaysThere(c) \/ (c \in wiped' /\ c \notin DOMAIN live)
  PROVE  \A f \in ForkCallers : ForkKept(f)'
<1>1. NamesStay
  BY DEF NamesStay
<1>2. ASSUME NEW f \in ForkCallers PROVE ForkKept(f)'
  <2>1. ForkKept(f) /\ forking[f] \in Fork
    BY DEF FamilyIInv, FamilyTypes
  <2>2. Clashes(f) => Clashes(f)'
    BY DEF Clashes
  <2>3. forking[f].stage \in Begun =>
           StaysThere(forking[f].child)
           \/ (forking[f].child \in wiped' /\ forking[f].stage \notin {"created", "filed"})
    <3>1. SUFFICES ASSUME forking[f].stage \in Begun
                   PROVE  StaysThere(forking[f].child)
                          \/ (forking[f].child \in wiped' /\ forking[f].stage \notin {"created", "filed"})
      OBVIOUS
    <3>2. PICK c : c = forking[f].child
      OBVIOUS
    <3>3. PICK t \in Nat : c = ForkId(forking[f].parent, t)
      BY <2>1, <3>1, <3>2 DEF ForkKept
    <3>4. forking[f].parent \in AgentNames
      BY <2>1 DEF Fork
    <3>5. c \in AgentNames /\ c # Root /\ c \notin SubIds
      BY <3>3, <3>4, ForkNames
    <3>6. forking[f].stage \in {"created", "filed"} => c \in DOMAIN live
      BY <2>1, <3>2 DEF ForkKept
    <3> QED BY <3>2, <3>5, <3>6
  <2>4. ForkLeftAlone(f)
    BY <2>2, <2>3 DEF ForkLeftAlone
  <2> QED BY <1>1, <2>1, <2>4, ForkStays
<1> QED BY <1>2

----------------------------------------------------------------------------
\* Whoever descends as the records say does so after a step that leaves the
\* configuration alone.
LEMMA StillDescend ==
  ASSUME inherit' = inherit,
         \A b \in DOMAIN live' : Descends(b, live'[b]),
         \A b \in DOMAIN persisted' : Descends(b, persisted'[b])
  PROVE  AllDescend'
BY DEF AllDescend, Descends, TrueLine, TrueLimit

\* A turn of an agent, or of a sub-agent, or a compression.
LEMMA TurnIs ==
  ASSUME FamilyTypes, NEW a \in DOMAIN live, a \in DOMAIN persisted, NEW m \in Histories, TurnPersisted(a, m)
  PROVE  /\ DOMAIN live' = DOMAIN live /\ DOMAIN persisted' = DOMAIN persisted
         /\ \A b \in DOMAIN live : b # a => live'[b] = live[b]
         /\ \A b \in DOMAIN persisted : b # a => persisted'[b] = persisted[b]
         /\ LiveAgent(live'[a]) /\ live'[a].lineage = live[a].lineage /\ live'[a].limit = live[a].limit
         /\ StoredAgent(persisted'[a]) /\ persisted'[a].lineage = live[a].lineage
         /\ persisted'[a].limit = persisted[a].limit /\ persisted'[a].snapshots = persisted[a].snapshots
<1>1. LiveAgent(live[a]) /\ StoredAgent(persisted[a])
  BY DEF FamilyTypes
<1>2. PICK r, l, k : r = live[a] /\ l = r.lineage /\ k = r.limit
  OBVIOUS
<1>3. r = [lineage |-> l, messages |-> r.messages, limit |-> k] /\ l \in Seq(AgentNames) /\ k \in Limits
  BY <1>1, <1>2 DEF LiveAgent
<1>4. PICK q, h, s : q = persisted[a] /\ h = q.limit /\ s = q.snapshots
  OBVIOUS
<1>5. /\ q = [lineage |-> q.lineage, messages |-> q.messages, limit |-> h, snapshots |-> s]
      /\ h \in Limits /\ \A i \in DOMAIN s : s[i] \in Histories
  BY <1>1, <1>4 DEF StoredAgent
<1>6. PICK n : n = [r EXCEPT !.messages = m]
  OBVIOUS
<1>7. n = [lineage |-> l, messages |-> m, limit |-> k]
  BY <1>3, <1>6
<1>8. LiveAgent(n) /\ n.lineage = l /\ n.limit = k
  BY <1>3, <1>7 DEF LiveAgent
<1>9. PICK o : o = [q EXCEPT !.messages = m]
  OBVIOUS
<1>10. o = [lineage |-> q.lineage, messages |-> m, limit |-> h, snapshots |-> s]
  BY <1>5, <1>9
<1>11. PICK p : p = [o EXCEPT !.lineage = l]
  OBVIOUS
<1>12. p = [lineage |-> l, messages |-> m, limit |-> h, snapshots |-> s]
  BY <1>10, <1>11
<1>13. StoredAgent(p) /\ p.lineage = l /\ p.limit = h /\ p.snapshots = s
  BY <1>3, <1>5, <1>12 DEF StoredAgent
<1>14. /\ DOMAIN live' = DOMAIN live /\ live'[a] = n /\ \A b \in DOMAIN live : b # a => live'[b] = live[b]
  <2>1. live' = [live EXCEPT ![a].messages = m]
    BY DEF TurnPersisted
  <2> QED BY <1>2, <1>6, <2>1
<1>15. /\ DOMAIN persisted' = DOMAIN persisted /\ persisted'[a] = p
       /\ \A b \in DOMAIN persisted : b # a => persisted'[b] = persisted[b]
  <2>1. persisted' = [persisted EXCEPT ![a].messages = m, ![a].lineage = l]
    BY <1>2 DEF TurnPersisted
  <2>2. PICK P : P = [persisted EXCEPT ![a].messages = m]
    OBVIOUS
  <2>3. DOMAIN P = DOMAIN persisted /\ P[a] = o /\ \A b \in DOMAIN persisted : b # a => P[b] = persisted[b]
    BY <1>4, <1>9, <2>2
  <2>4. persisted' = [P EXCEPT ![a].lineage = l]
    BY <2>1, <2>2
  <2> QED BY <1>11, <2>3, <2>4
<1> QED BY <1>2, <1>4, <1>8, <1>13, <1>14, <1>15

\* A turn of the root or of a sub-agent keeps the invariant: no fork waits for their
\* records.
LEMMA TurnHolds ==
  ASSUME FamilyIInv, NEW a \in {Root} \cup SubIds, a \in DOMAIN live, a \in DOMAIN persisted,
         NEW m \in Histories, TurnPersisted(a, m), turns' \in Nat,
         UNCHANGED <<forking, inherit, named, reused, wiped, clock>>
  PROVE  FamilyIInv'
<1>1. FamilyTypes /\ AllDescend /\ SnapshotsNamed
  BY DEF FamilyIInv
<1>2. /\ DOMAIN live' = DOMAIN live /\ DOMAIN persisted' = DOMAIN persisted
      /\ \A b \in DOMAIN live : b # a => live'[b] = live[b]
      /\ \A b \in DOMAIN persisted : b # a => persisted'[b] = persisted[b]
      /\ LiveAgent(live'[a]) /\ live'[a].lineage = live[a].lineage /\ live'[a].limit = live[a].limit
      /\ StoredAgent(persisted'[a]) /\ persisted'[a].lineage = live[a].lineage
      /\ persisted'[a].limit = persisted[a].limit /\ persisted'[a].snapshots = persisted[a].snapshots
  BY <1>1, TurnIs
<1>3. FamilyTypes'
  BY <1>1, <1>2 DEF FamilyTypes
<1>4. AllDescend'
  <2>1. /\ Descends(a, live[a]) /\ Descends(a, persisted[a])
        /\ \A b \in DOMAIN live : Descends(b, live[b])
        /\ \A b \in DOMAIN persisted : Descends(b, persisted[b])
    BY <1>1 DEF AllDescend
  <2>2. Descends(a, live'[a]) /\ Descends(a, persisted'[a])
    BY <1>2, <2>1 DEF Descends, TrueLine, TrueLimit
  <2>3. \A b \in DOMAIN live : Descends(b, live'[b])
    BY <1>2, <2>1, <2>2
  <2>4. \A b \in DOMAIN persisted : Descends(b, persisted'[b])
    BY <1>2, <2>1, <2>2
  <2> QED BY <1>2, <2>3, <2>4, StillDescend
<1>5. SnapshotsNamed'
  <2>1. ASSUME NEW b \in DOMAIN persisted', NEW id \in DOMAIN persisted'[b].snapshots
        PROVE  NamedRight(b, id, persisted'[b].snapshots[id])
    <3>1. PICK s : s = persisted[b].snapshots /\ s = persisted'[b].snapshots /\ b \in DOMAIN persisted
      BY <1>2
    <3>2. id \in DOMAIN s /\ NamedRight(b, id, s[id])
      BY <1>1, <2>1, <3>1 DEF SnapshotsNamed
    <3> QED BY <3>1, <3>2
  <2> QED BY <2>1 DEF SnapshotsNamed, NamedRight
<1>6. \A c \in AgentNames : c # Root /\ c \notin SubIds => StaysThere(c)
  BY <1>2 DEF StaysThere
<1>7. \A f \in ForkCallers : ForkKept(f)'
  BY <1>6, ForksAsTheyWere
<1> QED BY <1>3, <1>4, <1>5, <1>7 DEF FamilyIInv

\* So does the clock.
LEMMA ClockHolds == FamilyIInv /\ ClockTicks => FamilyIInv'
<1> SUFFICES ASSUME FamilyIInv, ClockTicks PROVE FamilyIInv'
  OBVIOUS
<1>1. /\ UNCHANGED <<live, persisted, forking, inherit, named, reused, wiped, turns>> /\ clock' = clock + 1
  BY DEF ClockTicks
<1>2. FamilyTypes' /\ AllDescend' /\ SnapshotsNamed'
  BY <1>1 DEF FamilyIInv, FamilyTypes, AllDescend, Descends, TrueLine, TrueLimit, SnapshotsNamed, NamedRight
<1>3. \A c : StaysThere(c)
  BY <1>1 DEF StaysThere
<1> QED BY <1>1, <1>2, <1>3, ForksAsTheyWere DEF FamilyIInv

\* After a crash no fork is under way; those that have returned are as they were.
LEMMA CrashHolds == FamilyIInv /\ Crash => FamilyIInv'
<1> SUFFICES ASSUME FamilyIInv, Crash PROVE FamilyIInv'
  OBVIOUS
<1>1. /\ UNCHANGED <<persisted, inherit, named, reused, wiped, turns, clock>> /\ live' = <<>>
      /\ forking' = [f \in ForkCallers |->
                       IF forking[f].stage \in {"idle", "returned"} THEN forking[f]
                       ELSE [forking[f] EXCEPT !.stage = "failed"]]
  BY DEF Crash
<1>2. FamilyTypes /\ AllDescend /\ SnapshotsNamed /\ \A f \in ForkCallers : ForkKept(f) /\ forking[f] \in Fork
  BY DEF FamilyIInv, FamilyTypes
<1>3. DOMAIN live' = {}
  BY <1>1
<1>4. ASSUME NEW f \in ForkCallers
      PROVE  /\ forking'[f] \in Fork /\ forking'[f].child = forking[f].child
             /\ forking[f].stage \in {"idle", "returned"} => forking'[f] = forking[f]
             /\ forking[f].stage \notin {"idle", "returned"} => forking'[f].stage = "failed"
  <2>1. PICK k : k = forking[f] /\ k \in Fork
    BY <1>2
  <2>2. PICK st \in Stages, p \in AgentNames, s \in Nat, m \in Histories, c \in AgentNames :
           k = [stage |-> st, parent |-> p, snapshot |-> s, messages |-> m, child |-> c]
    BY <2>1 DEF Fork
  <2>3. PICK n : n = [k EXCEPT !.stage = "failed"]
    OBVIOUS
  <2>4. n = [stage |-> "failed", parent |-> p, snapshot |-> s, messages |-> m, child |-> c]
    BY <2>2, <2>3
  <2>5. n \in Fork /\ n.child = k.child /\ n.stage = "failed"
    BY <2>2, <2>4 DEF Fork, Stages
  <2>6. forking'[f] = IF k.stage \in {"idle", "returned"} THEN k ELSE n
    BY <1>1, <2>1, <2>3
  <2> QED BY <2>1, <2>5, <2>6
<1>5. FamilyTypes'
  <2>1. forking' \in [ForkCallers -> Fork]
    BY <1>1, <1>4
  <2> QED BY <1>1, <1>2, <1>3, <2>1 DEF FamilyTypes
<1>6. AllDescend' /\ SnapshotsNamed'
  BY <1>1, <1>2, <1>3 DEF AllDescend, Descends, TrueLine, TrueLimit, SnapshotsNamed, NamedRight
<1>7. ASSUME NEW f \in ForkCallers PROVE ForkKept(f)'
  <2>1. CASE forking[f].stage \in {"idle", "returned"}
    <3>1. Clashes(f) => Clashes(f)'
      <4>1. ASSUME NEW g \in ForkCallers \ {f}, forking[g].child = forking[f].child,
                   forking[g].stage \notin {"idle", "saved"}
            PROVE  forking'[g].child = forking'[f].child /\ forking'[g].stage \notin {"idle", "saved"}
        <5>1. forking'[g].child = forking[g].child /\ forking'[f].child = forking[f].child
          BY <1>4
        <5>2. forking'[g].stage = forking[g].stage \/ forking'[g].stage = "failed"
          BY <1>4
        <5> QED BY <4>1, <5>1, <5>2
      <4> QED BY <4>1 DEF Clashes
    <3>2. CASE forking[f].stage = "idle"
      BY <1>4, <3>2 DEF ForkKept, Begun
    <3>3. CASE forking[f].stage = "returned"
      <4>1. forking'[f] = forking[f]
        BY <1>4, <3>3
      <4> QED BY <1>1, <1>2, <3>1, <3>3, <4>1 DEF ForkKept, Begun, HasParent, NamedRight
    <3> QED BY <2>1, <3>2, <3>3
  <2>2. CASE forking[f].stage \notin {"idle", "returned"}
    <3>1. forking'[f].stage = "failed"
      BY <1>4, <2>2
    <3> QED BY <3>1 DEF ForkKept, Begun
  <2> QED BY <2>1, <2>2
<1> QED BY <1>5, <1>6, <1>7 DEF FamilyIInv

\* An agent comes into memory, and perhaps into the store.
LEMMA EntersIs ==
  ASSUME FamilyIInv, NEW a \in AgentNames, a \notin DOMAIN live, NEW l, live' = Including(live, a, l),
         LiveAgent(l), Descends(a, l), NEW k, StoredAgent(k), Descends(a, k), DOMAIN k.snapshots = {},
         persisted' = persisted \/ (persisted' = Including(persisted, a, k)
                                    /\ (a \in DOMAIN persisted => a \in wiped')),
         wiped \subseteq wiped', UNCHANGED <<forking, inherit, named, reused, turns, clock>>
  PROVE  FamilyIInv'
<1>1. FamilyTypes /\ AllDescend /\ SnapshotsNamed
  BY DEF FamilyIInv
<1>2. /\ DOMAIN live' = DOMAIN live \cup {a} /\ live'[a] = l
      /\ \A b \in DOMAIN live : b # a /\ live'[b] = live[b]
  <2>1. PICK L : L = Including(live, a, l)
    OBVIOUS
  <2>2. DOMAIN L = DOMAIN live \cup {a} /\ L[a] = l /\ \A b \in DOMAIN live : b # a => L[b] = live[b]
    BY <2>1 DEF Including
  <2> QED BY <2>1, <2>2
<1>3. \/ persisted' = persisted
      \/ /\ DOMAIN persisted' = DOMAIN persisted \cup {a} /\ persisted'[a] = k
         /\ \A b \in DOMAIN persisted : b # a => persisted'[b] = persisted[b]
         /\ a \in DOMAIN persisted => a \in wiped'
  <2>1. PICK P : P = Including(persisted, a, k)
    OBVIOUS
  <2>2. DOMAIN P = DOMAIN persisted \cup {a} /\ P[a] = k
        /\ \A b \in DOMAIN persisted : b # a => P[b] = persisted[b]
    BY <2>1 DEF Including
  <2> QED BY <2>1, <2>2
<1>4. FamilyTypes'
  <2>1. DOMAIN live' \subseteq AgentNames /\ \A b \in DOMAIN live' : LiveAgent(live'[b])
    BY <1>1, <1>2 DEF FamilyTypes
  <2>2. DOMAIN persisted' \subseteq AgentNames /\ \A b \in DOMAIN persisted' : StoredAgent(persisted'[b])
    BY <1>1, <1>3 DEF FamilyTypes
  <2> QED BY <1>1, <2>1, <2>2 DEF FamilyTypes
<1>5. AllDescend'
  <2>1. \A b \in DOMAIN live' : Descends(b, live'[b])
    BY <1>1, <1>2 DEF AllDescend
  <2>2. \A b \in DOMAIN persisted' : Descends(b, persisted'[b])
    BY <1>1, <1>3 DEF AllDescend
  <2> QED BY <2>1, <2>2, StillDescend
<1>6. SnapshotsNamed'
  <2>1. ASSUME NEW b \in DOMAIN persisted', NEW id \in DOMAIN persisted'[b].snapshots
        PROVE  b \in DOMAIN persisted /\ persisted'[b] = persisted[b]
    BY <1>3, <2>1
  <2> QED BY <1>1, <2>1 DEF SnapshotsNamed, NamedRight
<1>7. ASSUME NEW c \in AgentNames, c # Root, c \notin SubIds
      PROVE  StaysThere(c) \/ (c \in wiped' /\ c \notin DOMAIN live)
  BY <1>2, <1>3 DEF StaysThere
<1>8. \A f \in ForkCallers : ForkKept(f)'
  BY <1>7, ForksAsTheyWere
<1> QED BY <1>4, <1>5, <1>6, <1>8 DEF FamilyIInv

\* What a new agent has, or one that is deleted and created anew.
LEMMA NewRecord ==
  ASSUME NEW limit \in Limits, TrueLimit([limit |-> limit])
  PROVE  LET k == [lineage |-> <<>>, messages |-> <<>>, limit |-> limit, snapshots |-> <<>>]
             l == [lineage |-> <<>>, messages |-> <<>>, limit |-> limit]
         IN /\ StoredAgent(k) /\ DOMAIN k.snapshots = {} /\ LiveAgent(l)
            /\ \A a \in AgentNames : Descends(a, k) /\ Descends(a, l)
<1>1. PICK k, l : /\ k = [lineage |-> <<>>, messages |-> <<>>, limit |-> limit, snapshots |-> <<>>]
                  /\ l = [lineage |-> <<>>, messages |-> <<>>, limit |-> limit]
  OBVIOUS
<1>2. <<>> \in Seq(AgentNames) /\ <<>> \in Histories
  BY DEF Histories
<1>3. StoredAgent(k) /\ DOMAIN k.snapshots = {} /\ LiveAgent(l)
  BY <1>1, <1>2 DEF StoredAgent, LiveAgent
<1>4. ASSUME NEW a \in AgentNames PROVE Descends(a, k) /\ Descends(a, l)
  <2>1. Suffix(<<>>, Ancestors(a))
    <3>1. Ancestors(a) \in Seq(AgentNames)
      BY AncestorsGrow
    <3> QED BY <3>1, EmptySuffix
  <2>2. k.lineage = <<>> /\ l.lineage = <<>> /\ k.limit = limit /\ l.limit = limit
    BY <1>1
  <2> QED BY <2>1, <2>2 DEF Descends, TrueLine, TrueLimit
<1> QED BY <1>1, <1>3, <1>4

\* The limit of an agent with its template's own configuration.
LEMMA FullIsTrue == FullLimit \in Limits /\ TrueLimit([limit |-> FullLimit])
                    /\ Nothing = [lineage |-> <<>>, messages |-> <<>>, limit |-> FullLimit, snapshots |-> <<>>]
BY LineageAssumption DEF FullLimit, Limits, TrueLimit, Nothing

\* An agent is resumed with what the store has of it.
LEMMA ResumeHolds ==
  ASSUME FamilyIInv, NEW a, ResumeFromStore(a)
  PROVE  FamilyIInv'
<1>1. /\ a \in DOMAIN persisted /\ a \notin DOMAIN live
      /\ UNCHANGED <<persisted, forking, inherit, named, reused, wiped, turns, clock>>
  BY DEF ResumeFromStore
<1>2. a \in AgentNames /\ StoredAgent(persisted[a]) /\ Descends(a, persisted[a])
  BY <1>1 DEF FamilyIInv, FamilyTypes, AllDescend
<1>3. PICK l : l = [lineage |-> persisted[a].lineage, messages |-> persisted[a].messages,
                    limit |-> persisted[a].limit]
  OBVIOUS
<1>4. live' = Including(live, a, l)
  BY <1>3 DEF ResumeFromStore
<1>5. l.lineage = persisted[a].lineage /\ l.messages = persisted[a].messages /\ l.limit = persisted[a].limit
  BY <1>3
<1>6. LiveAgent(l) /\ Descends(a, l)
  BY <1>2, <1>3, <1>5 DEF LiveAgent, StoredAgent, Descends, TrueLine, TrueLimit
<1>7. PICK k : k = Nothing
  OBVIOUS
<1>8. StoredAgent(k) /\ DOMAIN k.snapshots = {} /\ Descends(a, k)
  BY <1>2, <1>7, FullIsTrue, NewRecord
<1> QED BY <1>1, <1>2, <1>4, <1>6, <1>8, EntersIs

\* An agent is deleted and created anew.
LEMMA RecreateHolds ==
  ASSUME FamilyIInv, NEW a, RecreateUnknown(a)
  PROVE  FamilyIInv'
<1>1. /\ a \in DOMAIN persisted /\ a \notin DOMAIN live /\ wiped' = wiped \cup {a}
      /\ UNCHANGED <<forking, inherit, named, reused, turns, clock>>
  BY DEF RecreateUnknown
<1>2. a \in AgentNames
  BY <1>1 DEF FamilyIInv, FamilyTypes
<1>3. PICK l, k : k = Nothing /\ l = [lineage |-> <<>>, messages |-> <<>>, limit |-> FullLimit]
  OBVIOUS
<1>4. live' = Including(live, a, l)
  BY <1>3 DEF RecreateUnknown
<1>5. persisted' = Including(persisted, a, k)
  <2>1. persisted' = [persisted EXCEPT ![a] = k]
    BY <1>3 DEF RecreateUnknown
  <2> QED BY <1>1, <2>1 DEF Including
<1>6. StoredAgent(k) /\ DOMAIN k.snapshots = {} /\ Descends(a, k) /\ LiveAgent(l) /\ Descends(a, l)
  BY <1>2, <1>3, FullIsTrue, NewRecord
<1>7. a \in wiped' /\ wiped \subseteq wiped'
  BY <1>1
<1> QED BY <1>1, <1>2, <1>4, <1>5, <1>6, <1>7, EntersIs

\* A sub-agent is created, with a limit that is true.
LEMMA NewSubHolds ==
  ASSUME FamilyIInv, NEW s \in SubIds, NEW a \in DOMAIN live, NEW limit \in Limits,
         TrueLimit([limit |-> limit]), NewSub(s, a, limit)
  PROVE  FamilyIInv'
<1>1. /\ s \notin DOMAIN live /\ s \notin DOMAIN persisted
      /\ UNCHANGED <<forking, inherit, named, reused, wiped, turns, clock>>
  BY DEF NewSub
<1>2. s \in AgentNames /\ Head(s) # "root"
  BY SubNames
<1>3. PICK k : k = [lineage |-> <<>>, messages |-> <<>>, limit |-> limit, snapshots |-> <<>>]
  OBVIOUS
<1>4. persisted' = Including(persisted, s, k)
  <2>1. Stored(s) = Nothing
    BY <1>1 DEF Stored
  <2>2. PICK n, m : n = Nothing /\ m = [n EXCEPT !.lineage = <<>>]
    OBVIOUS
  <2>3. n = [lineage |-> <<>>, messages |-> <<>>, limit |-> FullLimit, snapshots |-> <<>>]
    BY <2>2, FullIsTrue
  <2>4. m = [lineage |-> <<>>, messages |-> <<>>, limit |-> FullLimit, snapshots |-> <<>>]
    BY <2>2, <2>3
  <2>5. [m EXCEPT !.limit = limit] = k
    BY <1>3, <2>4
  <2>6. Initialized(s, limit) = [n EXCEPT !.lineage = <<>>, !.limit = limit]
    BY <2>1, <2>2 DEF Initialized
  <2>7. Initialized(s, limit) = [m EXCEPT !.limit = limit]
    BY <2>2, <2>6
  <2> QED BY <2>5, <2>7 DEF NewSub
<1>5. StoredAgent(k) /\ DOMAIN k.snapshots = {} /\ Descends(s, k)
  BY <1>2, <1>3, NewRecord
<1>6. PICK l : l = [lineage |-> Append(live[a].lineage, a), messages |-> <<>>, limit |-> limit]
  OBVIOUS
<1>7. live' = Including(live, s, l)
  BY <1>6 DEF NewSub
<1>8. LiveAgent(l)
  <2>1. a \in AgentNames /\ live[a].lineage \in Seq(AgentNames)
    BY DEF FamilyIInv, FamilyTypes, LiveAgent
  <2>2. Append(live[a].lineage, a) \in Seq(AgentNames) /\ <<>> \in Histories
    BY <2>1, AppendProperties DEF Histories
  <2>3. PICK g : g = Append(live[a].lineage, a) /\ g \in Seq(AgentNames)
    BY <2>2
  <2> QED BY <1>6, <2>2, <2>3 DEF LiveAgent
<1>9. Descends(s, l)
  BY <1>2, <1>6 DEF Descends, TrueLine, TrueLimit
<1> QED BY <1>1, <1>2, <1>4, <1>5, <1>7, <1>8, <1>9, EntersIs

\* A sub-agent has one level less to go than the agent that spawns it, or the full
\* depth.
LEMMA SpawnHolds ==
  ASSUME FamilyIInv, NEW a, NEW s \in SubIds, SpawnSubAgent(a, s) \/ DelegateTask(a, s)
  PROVE  FamilyIInv'
<1>1. CASE SpawnSubAgent(a, s)
  <2>1. PICK limit : /\ limit = [depth |-> IF inherit THEN live[a].limit.depth - 1 ELSE Depth,
                                 level |-> live[a].limit.level + 1]
                     /\ NewSub(s, a, limit)
    BY <1>1 DEF SpawnSubAgent
  <2>2. a \in DOMAIN live /\ live[a].limit.depth > 0
    BY <1>1 DEF SpawnSubAgent
  <2>3. live[a].limit \in Limits /\ TrueLimit(live[a])
    BY <2>2 DEF FamilyIInv, FamilyTypes, LiveAgent, AllDescend, Descends
  <2>4. PICK d \in Nat, e \in Nat : live[a].limit = [depth |-> d, level |-> e]
    BY <2>3 DEF Limits
  <2>5. d > 0 /\ limit = [depth |-> IF inherit THEN d - 1 ELSE Depth, level |-> e + 1]
    BY <2>1, <2>2, <2>4
  <2>6. inherit => d + e = Depth
    BY <2>3, <2>4 DEF TrueLimit
  <2>7. limit \in Limits
    <3>1. (IF inherit THEN d - 1 ELSE Depth) \in Nat
      BY <2>5, LineageAssumption
    <3> QED BY <2>5, <3>1 DEF Limits
  <2>8. TrueLimit([limit |-> limit])
    <3>1. limit.depth = (IF inherit THEN d - 1 ELSE Depth) /\ limit.level = e + 1
      BY <2>5
    <3>2. inherit => limit.depth + limit.level = Depth
      BY <2>6, <3>1
    <3> QED BY <3>2 DEF TrueLimit
  <2> QED BY <2>1, <2>2, <2>7, <2>8, NewSubHolds
<1>2. CASE DelegateTask(a, s)
  BY <1>2, FullIsTrue, NewSubHolds DEF DelegateTask
<1> QED BY <1>1, <1>2

----------------------------------------------------------------------------
\* A step of one fork, which takes it to k: the others stay, or have the id of its child too.
LEMMA OthersStay ==
  ASSUME FamilyIInv, NEW f \in ForkCallers, NEW k, forking' = [forking EXCEPT ![f] = k], NamesStay,
         \/ forking[f].stage \in {"idle", "saved"}
         \/ k.child = forking[f].child /\ k.stage \notin {"idle", "saved"},
         \A c \in AgentNames :
            \/ StaysThere(c)
            \/ /\ k.child = c /\ k.stage \notin {"idle", "saved"}
               /\ (c \in DOMAIN live => c \in DOMAIN live')
               /\ (c \in DOMAIN persisted => c \in DOMAIN persisted')
  PROVE  /\ forking'[f] = k /\ \A g \in ForkCallers \ {f} : ForkKept(g)'
         /\ k.child = forking[f].child => (Clashes(f) <=> Clashes(f)')
<1>1. forking \in [ForkCallers -> Fork] /\ \A g \in ForkCallers : ForkKept(g) /\ forking[g] \in Fork
  BY DEF FamilyIInv, FamilyTypes
<1>2. forking'[f] = k /\ \A g \in ForkCallers \ {f} : forking'[g] = forking[g]
  BY <1>1
<1>3. ASSUME NEW g \in ForkCallers \ {f} PROVE ForkKept(g)'
  <2>1. forking'[g] = forking[g]
    BY <1>2
  <2>2. Clashes(g) => Clashes(g)'
    <3>1. ASSUME NEW h \in ForkCallers \ {g}, forking[h].child = forking[g].child,
                 forking[h].stage \notin {"idle", "saved"}
          PROVE  forking'[h].child = forking'[g].child /\ forking'[h].stage \notin {"idle", "saved"}
      <4>1. CASE h = f
        BY <1>2, <2>1, <3>1, <4>1
      <4>2. CASE h # f
        BY <1>2, <2>1, <3>1, <4>2
      <4> QED BY <4>1, <4>2
    <3> QED BY <3>1 DEF Clashes
  <2>3. PICK c : c = forking[g].child /\ c \in AgentNames
    BY <1>1 DEF Fork
  <2>4. k.child = c /\ k.stage \notin {"idle", "saved"} => Clashes(g)'
    <3>1. SUFFICES ASSUME k.child = c, k.stage \notin {"idle", "saved"} PROVE Clashes(g)'
      OBVIOUS
    <3>2. f \in ForkCallers \ {g} /\ forking'[f].child = forking'[g].child /\ forking'[f].stage \notin {"idle", "saved"}
      BY <1>2, <2>1, <2>3, <3>1
    <3> QED BY <3>2 DEF Clashes
  <2>5. ForkLeftAlone(g)
    BY <2>1, <2>2, <2>3, <2>4 DEF ForkLeftAlone
  <2> QED BY <1>1, <2>5, ForkStays
<1>4. ASSUME k.child = forking[f].child PROVE Clashes(f) <=> Clashes(f)'
  BY <1>2, <1>4 DEF Clashes
<1> QED BY <1>2, <1>3, <1>4

\* The fields of a fork's record change one at a time.
LEMMA ForkRecord ==
  ASSUME FamilyIInv, NEW f \in ForkCallers
  PROVE  \E st \in Stages, p \in AgentNames, s \in Nat, m \in Histories, c \in AgentNames :
           /\ forking[f] = [stage |-> st, parent |-> p, snapshot |-> s, messages |-> m, child |-> c]
           /\ forking[f].stage = st /\ forking[f].parent = p /\ forking[f].snapshot = s
           /\ forking[f].messages = m /\ forking[f].child = c
           /\ \A t \in Stages : [forking[f] EXCEPT !.stage = t]
                 = [stage |-> t, parent |-> p, snapshot |-> s, messages |-> m, child |-> c]
<1>1. forking[f] \in Fork
  BY DEF FamilyIInv, FamilyTypes
<1>2. PICK k : k = forking[f] /\ k \in Fork
  BY <1>1
<1>3. PICK st \in Stages, p \in AgentNames, s \in Nat, m \in Histories, c \in AgentNames :
         k = [stage |-> st, parent |-> p, snapshot |-> s, messages |-> m, child |-> c]
  BY <1>2 DEF Fork
<1>4. \A t \in Stages : [k EXCEPT !.stage = t]
                 = [stage |-> t, parent |-> p, snapshot |-> s, messages |-> m, child |-> c]
  BY <1>3
<1>5. k.stage = st /\ k.parent = p /\ k.snapshot = s /\ k.messages = m /\ k.child = c
  BY <1>3
<1> QED BY <1>2, <1>3, <1>4, <1>5

\* A fork saves its snapshot.
LEMMA SnapshotHolds ==
  ASSUME FamilyIInv, NEW f \in ForkCallers, NEW a, ForkSnapshots(f, a)
  PROVE  FamilyIInv'
<1>1. /\ forking[f].stage = "idle" /\ a \in DOMAIN live /\ a \in DOMAIN persisted
      /\ UNCHANGED <<live, inherit, wiped, turns, clock>>
  BY DEF ForkSnapshots
<1>2. PICK id, m : id = SnapshotId(a) /\ m = live[a].messages
  OBVIOUS
<1>3. /\ persisted' = [persisted EXCEPT ![a].snapshots = Including(@, id, m)]
      /\ forking' = [forking EXCEPT ![f] = [NoFork EXCEPT !.stage = "saved", !.parent = a, !.snapshot = id]]
      /\ named' = IF <<a, id>> \in DOMAIN named THEN named ELSE Including(named, <<a, id>>, m)
      /\ reused' = IF named'[<<a, id>>] = m THEN reused ELSE reused \cup {<<a, id>>}
  BY <1>2 DEF ForkSnapshots
<1>4. /\ a \in AgentNames /\ LiveAgent(live[a]) /\ StoredAgent(persisted[a]) /\ FamilyTypes /\ AllDescend
      /\ SnapshotsNamed
  BY <1>1 DEF FamilyIInv, FamilyTypes
<1>5. m \in Histories /\ id \in Nat
  BY <1>2, <1>4 DEF LiveAgent, SnapshotId, Histories
<1>6. PICK o : o = <<a, id>>
  OBVIOUS
<1>7. /\ DOMAIN named' = DOMAIN named \cup {o} /\ \A x \in DOMAIN named : named'[x] = named[x]
      /\ reused \subseteq reused' /\ (o \notin reused' => named'[o] = m)
  <2>1. CASE o \in DOMAIN named
    BY <1>3, <1>6, <2>1
  <2>2. CASE o \notin DOMAIN named
    <3>1. named' = Including(named, o, m)
      BY <1>3, <1>6, <2>2
    <3>2. DOMAIN named' = DOMAIN named \cup {o} /\ \A x \in DOMAIN named : named'[x] = named[x]
      BY <2>2, <3>1 DEF Including
    <3> QED BY <1>3, <1>6, <3>2
  <2> QED BY <2>1, <2>2
<1>8. NamesStay
  BY <1>1, <1>7 DEF NamesStay
<1>9. PICK k : k = [NoFork EXCEPT !.stage = "saved", !.parent = a, !.snapshot = id]
  OBVIOUS
<1>10. k = [stage |-> "saved", parent |-> a, snapshot |-> id, messages |-> <<>>, child |-> Root]
  <2>1. PICK n, u : n = NoFork /\ u = [n EXCEPT !.stage = "saved"]
    OBVIOUS
  <2>0. PICK v : v = [u EXCEPT !.parent = a]
    OBVIOUS
  <2>2. n = [stage |-> "idle", parent |-> Root, snapshot |-> 0, messages |-> <<>>, child |-> Root]
    BY <2>1 DEF NoFork
  <2>3. u = [stage |-> "saved", parent |-> Root, snapshot |-> 0, messages |-> <<>>, child |-> Root]
    BY <2>1, <2>2
  <2>4. v = [stage |-> "saved", parent |-> a, snapshot |-> 0, messages |-> <<>>, child |-> Root]
    BY <2>0, <2>3
  <2>5. [v EXCEPT !.snapshot = id]
           = [stage |-> "saved", parent |-> a, snapshot |-> id, messages |-> <<>>, child |-> Root]
    BY <2>4
  <2>6. k = [v EXCEPT !.snapshot = id]
    BY <1>9, <2>0, <2>1
  <2> QED BY <2>5, <2>6
<1>11. k \in Fork /\ k.stage = "saved"
  <2>1. <<>> \in Histories /\ "saved" \in Stages
    BY DEF Histories, Stages
  <2> QED BY <1>4, <1>5, <1>10, <2>1, RootName DEF Fork
<1>12. PICK r, s, q : r = persisted[a] /\ s = Including(r.snapshots, id, m) /\ q = [r EXCEPT !.snapshots = s]
  OBVIOUS
<1>13. /\ DOMAIN persisted' = DOMAIN persisted /\ persisted'[a] = q
       /\ \A b \in DOMAIN persisted : b # a => persisted'[b] = persisted[b]
  BY <1>1, <1>3, <1>12
<1>14. q = [lineage |-> r.lineage, messages |-> r.messages, limit |-> r.limit, snapshots |-> s]
  <2>1. r = [lineage |-> r.lineage, messages |-> r.messages, limit |-> r.limit, snapshots |-> r.snapshots]
    BY <1>4, <1>12 DEF StoredAgent
  <2> QED BY <1>12, <2>1
<1>15. /\ DOMAIN s = DOMAIN r.snapshots \cup {id} /\ s[id] = m
       /\ \A x \in DOMAIN r.snapshots : x # id => s[x] = r.snapshots[x]
  BY <1>12 DEF Including
<1>16. StoredAgent(q) /\ q.lineage = r.lineage /\ q.messages = r.messages /\ q.limit = r.limit /\ q.snapshots = s
  <2>1. \A x \in DOMAIN s : s[x] \in Histories
    BY <1>4, <1>5, <1>12, <1>15 DEF StoredAgent
  <2> QED BY <1>4, <1>12, <1>14, <2>1 DEF StoredAgent
<1>17. FamilyTypes'
  <2>1. forking' \in [ForkCallers -> Fork]
    BY <1>3, <1>4, <1>9, <1>11 DEF FamilyTypes
  <2>2. \A b \in DOMAIN persisted' : StoredAgent(persisted'[b])
    BY <1>4, <1>13, <1>16 DEF FamilyTypes
  <2> QED BY <1>1, <1>4, <1>13, <2>1, <2>2 DEF FamilyTypes
<1>18. AllDescend'
  <2>1. Descends(a, persisted[a]) /\ \A b \in DOMAIN persisted : Descends(b, persisted[b])
    BY <1>1, <1>4 DEF AllDescend
  <2>2. Descends(a, q)
    BY <1>12, <1>16, <2>1 DEF Descends, TrueLine, TrueLimit
  <2>3. \A b \in DOMAIN persisted' : Descends(b, persisted'[b])
    BY <1>13, <2>1, <2>2
  <2>4. \A b \in DOMAIN live' : Descends(b, live'[b])
    BY <1>1, <1>4 DEF AllDescend
  <2> QED BY <1>1, <2>3, <2>4, StillDescend
<1>19. SnapshotsNamed'
  <2>1. ASSUME NEW b \in DOMAIN persisted', NEW x \in DOMAIN persisted'[b].snapshots
        PROVE  \E y : y = persisted'[b].snapshots[x] /\ NamedRight(b, x, y)'
    <3>1. CASE b = a /\ x = id
      <4>1. persisted'[b].snapshots[x] = m
        BY <1>13, <1>15, <1>16, <3>1
      <4>2. NamedRight(b, x, m)'
        BY <1>6, <1>7, <3>1 DEF NamedRight
      <4> QED BY <4>1, <4>2
    <3>2. CASE ~(b = a /\ x = id)
      <4>1. b \in DOMAIN persisted /\ x \in DOMAIN persisted[b].snapshots
            /\ persisted'[b].snapshots[x] = persisted[b].snapshots[x]
        <5>1. CASE b = a
          <6>1. b \in DOMAIN persisted /\ persisted'[b].snapshots = s /\ persisted[b].snapshots = r.snapshots
            BY <1>1, <1>12, <1>13, <1>16, <5>1
          <6>2. x # id /\ x \in DOMAIN s
            BY <2>1, <3>2, <5>1, <6>1
          <6>3. x \in DOMAIN r.snapshots /\ s[x] = r.snapshots[x]
            BY <1>15, <6>2
          <6> QED BY <6>1, <6>3
        <5>2. CASE b # a
          <6>1. b \in DOMAIN persisted /\ persisted'[b] = persisted[b]
            BY <1>13, <2>1, <5>2
          <6> QED BY <2>1, <6>1
        <5> QED BY <5>1, <5>2
      <4>2. PICK y : y = persisted[b].snapshots[x] /\ NamedRight(b, x, y)
        BY <1>4, <4>1 DEF SnapshotsNamed
      <4> QED BY <1>8, <4>1, <4>2, NamedStays
    <3> QED BY <3>1, <3>2
  <2> QED BY <2>1 DEF SnapshotsNamed
<1>20. \A c : StaysThere(c)
  BY <1>1, <1>12, <1>13, <1>16 DEF StaysThere
<1>21. forking'[f] = k /\ \A g \in ForkCallers \ {f} : ForkKept(g)'
  BY <1>1, <1>3, <1>8, <1>9, <1>20, OthersStay
<1>22. ForkKept(f)'
  BY <1>11, <1>21 DEF ForkKept, Begun
<1> QED BY <1>17, <1>18, <1>19, <1>21, <1>22 DEF FamilyIInv

\* A fork loads its snapshot and gets its id, or fails.
LEMMA LoadHolds ==
  ASSUME FamilyIInv, NEW f \in ForkCallers, ForkLoads(f)
  PROVE  FamilyIInv'
<1>1. /\ forking[f].stage = "saved" /\ UNCHANGED <<live, persisted, inherit, named, reused, wiped, turns, clock>>
  BY DEF ForkLoads
<1>2. PICK st \in Stages, p \in AgentNames, s \in Nat, m \in Histories, c \in AgentNames :
           /\ forking[f] = [stage |-> st, parent |-> p, snapshot |-> s, messages |-> m, child |-> c]
           /\ forking[f].stage = st /\ forking[f].parent = p /\ forking[f].snapshot = s
           /\ forking[f].messages = m /\ forking[f].child = c
           /\ \A t \in Stages : [forking[f] EXCEPT !.stage = t]
                 = [stage |-> t, parent |-> p, snapshot |-> s, messages |-> m, child |-> c]
  BY ForkRecord
<1>3. FamilyTypes /\ AllDescend /\ SnapshotsNamed
  BY DEF FamilyIInv
<1>4. AllDescend' /\ SnapshotsNamed'
  BY <1>1, <1>3 DEF AllDescend, Descends, TrueLine, TrueLimit, SnapshotsNamed, NamedRight
<1>5. NamesStay /\ \A d : StaysThere(d)
  BY <1>1 DEF NamesStay, StaysThere
<1>6. CASE p \in DOMAIN persisted /\ s \in DOMAIN persisted[p].snapshots
  <2>1. PICK h, d : h = persisted[p].snapshots[s] /\ d = ForkId(p, clock)
    OBVIOUS
  <2>2. h \in Histories /\ NamedRight(p, s, h) /\ clock \in Nat
    BY <1>3, <1>6, <2>1 DEF FamilyTypes, StoredAgent, SnapshotsNamed
  <2>3. d \in AgentNames
    BY <2>1, <2>2, ForkNames
  <2>4. PICK k : k = [stage |-> "loaded", parent |-> p, snapshot |-> s, messages |-> h, child |-> d]
    OBVIOUS
  <2>5. /\ k \in Fork /\ k.stage = "loaded" /\ k.parent = p /\ k.snapshot = s /\ k.messages = h /\ k.child = d
    BY <2>2, <2>3, <2>4 DEF Fork, Stages
  <2>6. forking' = [forking EXCEPT ![f] = k]
    <3>1. forking' = [forking EXCEPT ![f].stage = "loaded", ![f].messages = h, ![f].child = d]
      BY <1>2, <1>6, <2>1 DEF ForkLoads
    <3>2. PICK F : F = [forking EXCEPT ![f].stage = "loaded"]
      OBVIOUS
    <3>3. PICK G : G = [F EXCEPT ![f].messages = h]
      OBVIOUS
    <3>4. forking' = [G EXCEPT ![f].child = d]
      BY <3>1, <3>2, <3>3
    <3>5. F = [forking EXCEPT ![f] = [stage |-> "loaded", parent |-> p, snapshot |-> s, messages |-> m, child |-> c]]
      BY <1>2, <3>2 DEF Stages
    <3>6. f \in DOMAIN forking
      BY <1>3 DEF FamilyTypes
    <3>7. PICK r : r = F[f] /\ r = [stage |-> "loaded", parent |-> p, snapshot |-> s, messages |-> m, child |-> c]
      BY <3>5, <3>6
    <3>8. PICK q : q = [r EXCEPT !.messages = h]
      OBVIOUS
    <3>9. q = [stage |-> "loaded", parent |-> p, snapshot |-> s, messages |-> h, child |-> c]
      BY <3>7, <3>8
    <3>10. [q EXCEPT !.child = d] = k
      BY <2>4, <3>9
    <3>11. G = [forking EXCEPT ![f] = q]
      BY <3>3, <3>5, <3>6, <3>7, <3>8
    <3>12. G[f] = q
      BY <3>6, <3>11
    <3> QED BY <3>4, <3>6, <3>10, <3>11, <3>12
  <2>7. forking'[f] = k /\ \A g \in ForkCallers \ {f} : ForkKept(g)'
    BY <1>1, <1>5, <2>6, OthersStay
  <2>8. ForkKept(f)'
    <3>1. NamedRight(p, s, h)'
      BY <1>5, <2>2, NamedStays
    <3> QED BY <2>1, <2>2, <2>5, <2>7, <3>1 DEF ForkKept, Begun
  <2>9. FamilyTypes'
    <3>1. forking' \in [ForkCallers -> Fork]
      BY <1>3, <2>5, <2>6 DEF FamilyTypes
    <3> QED BY <1>1, <1>3, <3>1 DEF FamilyTypes
  <2> QED BY <1>4, <2>7, <2>8, <2>9 DEF FamilyIInv
<1>7. CASE ~(p \in DOMAIN persisted /\ s \in DOMAIN persisted[p].snapshots)
  <2>1. PICK k : k = [stage |-> "failed", parent |-> p, snapshot |-> s, messages |-> m, child |-> c]
    OBVIOUS
  <2>2. k \in Fork /\ k.stage = "failed"
    BY <2>1 DEF Fork, Stages
  <2>3. forking' = [forking EXCEPT ![f] = k]
    <3>1. forking' = [forking EXCEPT ![f].stage = "failed"]
      BY <1>2, <1>7 DEF ForkLoads
    <3> QED BY <1>2, <2>1, <3>1 DEF Stages
  <2>4. forking'[f] = k /\ \A g \in ForkCallers \ {f} : ForkKept(g)'
    BY <1>1, <1>5, <2>3, OthersStay
  <2>5. ForkKept(f)'
    BY <2>2, <2>4 DEF ForkKept, Begun
  <2>6. FamilyTypes'
    <3>1. forking' \in [ForkCallers -> Fork]
      BY <1>3, <2>2, <2>3 DEF FamilyTypes
    <3> QED BY <1>1, <1>3, <3>1 DEF FamilyTypes
  <2> QED BY <1>4, <2>4, <2>5, <2>6 DEF FamilyIInv
<1> QED BY <1>6, <1>7

\* What a created agent finds in the store for its id.
LEMMA InitializedIs ==
  ASSUME FamilyIInv, NEW c \in AgentNames, NEW limit \in Limits
  PROVE  LET q == Initialized(c, limit)
         IN /\ StoredAgent(q) /\ q.lineage = <<>> /\ q.limit = limit /\ q.messages = Stored(c).messages
            /\ \A x \in DOMAIN q.snapshots :
                  /\ c \in DOMAIN persisted /\ x \in DOMAIN persisted[c].snapshots
                  /\ q.snapshots[x] = persisted[c].snapshots[x]
<1>1. PICK r : r = Stored(c)
  OBVIOUS
<1>2. StoredAgent(r)
  <2>1. StoredAgent(Nothing)
    BY FullIsTrue, NewRecord
  <2> QED BY <1>1, <2>1 DEF Stored, FamilyIInv, FamilyTypes
<1>3. \A x \in DOMAIN r.snapshots : /\ c \in DOMAIN persisted /\ x \in DOMAIN persisted[c].snapshots
                                    /\ r.snapshots[x] = persisted[c].snapshots[x]
  <2>1. CASE c \in DOMAIN persisted
    BY <1>1, <2>1 DEF Stored
  <2>2. CASE c \notin DOMAIN persisted
    <3>1. r = [lineage |-> <<>>, messages |-> <<>>, limit |-> FullLimit, snapshots |-> <<>>]
      BY <1>1, <2>2, FullIsTrue DEF Stored
    <3>2. DOMAIN r.snapshots = {}
      BY <3>1
    <3> QED BY <3>2
  <2> QED BY <2>1, <2>2
<1>4. PICK ms, l, ss : ms = r.messages /\ l = r.limit /\ ss = r.snapshots
  OBVIOUS
<1>5. r = [lineage |-> r.lineage, messages |-> ms, limit |-> l, snapshots |-> ss]
      /\ ms \in Histories /\ \A x \in DOMAIN ss : ss[x] \in Histories
  BY <1>2, <1>4 DEF StoredAgent
<1>6. PICK u : u = [r EXCEPT !.lineage = <<>>]
  OBVIOUS
<1>7. u = [lineage |-> <<>>, messages |-> ms, limit |-> l, snapshots |-> ss]
  BY <1>5, <1>6
<1>8. PICK q : q = [u EXCEPT !.limit = limit]
  OBVIOUS
<1>9. q = [lineage |-> <<>>, messages |-> ms, limit |-> limit, snapshots |-> ss]
  BY <1>7, <1>8
<1>10. q = Initialized(c, limit)
  <2>1. Initialized(c, limit) = [r EXCEPT !.lineage = <<>>, !.limit = limit]
    BY <1>1 DEF Initialized
  <2> QED BY <1>6, <1>8, <2>1
<1>11. q.lineage = <<>> /\ q.limit = limit /\ q.messages = ms /\ q.snapshots = ss
  BY <1>9
<1>12. StoredAgent(q)
  <2>1. <<>> \in Seq(AgentNames)
    OBVIOUS
  <2> QED BY <1>5, <1>9, <1>11, <2>1 DEF StoredAgent
<1> QED BY <1>1, <1>3, <1>4, <1>10, <1>11, <1>12

\* The agent of a fork is created; its lineage in memory is its parent's and its parent.
LEMMA CreateHolds ==
  ASSUME FamilyIInv, NEW f \in ForkCallers, ForkCreates(f)
  PROVE  FamilyIInv'
<1>1. FamilyTypes /\ AllDescend /\ SnapshotsNamed /\ ForkKept(f)
  BY DEF FamilyIInv
<1>2. PICK st \in Stages, p \in AgentNames, s \in Nat, m \in Histories, c \in AgentNames :
           /\ forking[f] = [stage |-> st, parent |-> p, snapshot |-> s, messages |-> m, child |-> c]
           /\ forking[f].stage = st /\ forking[f].parent = p /\ forking[f].snapshot = s
           /\ forking[f].messages = m /\ forking[f].child = c
           /\ \A t \in Stages : [forking[f] EXCEPT !.stage = t]
                 = [stage |-> t, parent |-> p, snapshot |-> s, messages |-> m, child |-> c]
  BY ForkRecord
<1>3. PICK lin, lim : lin = live[p].lineage /\ lim = live[p].limit
  OBVIOUS
<1>4. PICK q, g : q = Initialized(c, lim) /\ g = Append(lin, p)
  OBVIOUS
<1>5. PICK l : l = [lineage |-> g, messages |-> m, limit |-> lim]
  OBVIOUS
<1>6. PICK k : k = [stage |-> "created", parent |-> p, snapshot |-> s, messages |-> m, child |-> c]
  OBVIOUS
<1>7. /\ st = "loaded" /\ p \in DOMAIN live
      /\ persisted' = Including(persisted, c, q)
      /\ live' = Including(live, c, l)
      /\ forking' = [forking EXCEPT ![f].stage = "created"]
      /\ UNCHANGED <<inherit, named, reused, wiped, turns, clock>>
  BY <1>2, <1>3, <1>4, <1>5 DEF ForkCreates
<1>8. forking' = [forking EXCEPT ![f] = k]
  BY <1>2, <1>6, <1>7 DEF Stages
<1>9. PICK t \in Nat : c = ForkId(p, t)
  BY <1>1, <1>2, <1>7 DEF ForkKept, Begun
<1>10. LiveAgent(live[p]) /\ Descends(p, live[p]) /\ lin \in Seq(AgentNames) /\ lim \in Limits
  BY <1>1, <1>3, <1>7 DEF FamilyTypes, AllDescend, LiveAgent
<1>11. /\ StoredAgent(q) /\ q.lineage = <<>> /\ q.limit = lim
       /\ \A x \in DOMAIN q.snapshots :
             /\ c \in DOMAIN persisted /\ x \in DOMAIN persisted[c].snapshots
             /\ q.snapshots[x] = persisted[c].snapshots[x]
  BY <1>4, <1>10, InitializedIs
<1>12. g \in Seq(AgentNames) /\ Len(g) = Len(lin) + 1 /\ g[Len(g)] = p /\ g # <<>>
  <2>1. Len(lin) \in Nat /\ g \in Seq(AgentNames) /\ Len(g) = Len(lin) + 1 /\ g[Len(lin) + 1] = p
    BY <1>4, <1>10, AppendProperties
  <2>2. Len(g) # 0
    BY <2>1
  <2> QED BY <2>1, <2>2
<1>13. l.lineage = g /\ l.messages = m /\ l.limit = lim
  BY <1>5
<1>14. LiveAgent(l) /\ HasParent(l, p)
  BY <1>5, <1>10, <1>12, <1>13 DEF LiveAgent, HasParent
<1>15. Descends(c, l) /\ Descends(c, q)
  <2>1. Head(c) = Head(p) /\ Ancestors(c) = Append(Ancestors(p), p) /\ Ancestors(p) \in Seq(AgentNames)
        /\ Ancestors(c) \in Seq(AgentNames)
    BY <1>9, ForkNames, AncestorsGrow
  <2>2. Suffix(lin, Ancestors(p)) => Suffix(g, Ancestors(c))
    BY <1>4, <1>10, <2>1, SuffixGrows
  <2>3. TrueLine(c, l)
    BY <1>3, <1>10, <1>13, <2>1, <2>2 DEF TrueLine, Descends
  <2>4. TrueLine(c, q)
    BY <1>11, <2>1, EmptySuffix DEF TrueLine
  <2>5. TrueLimit(l) /\ TrueLimit(q)
    BY <1>3, <1>10, <1>11, <1>13 DEF TrueLimit, Descends
  <2> QED BY <2>3, <2>4, <2>5 DEF Descends
<1>16. /\ DOMAIN live' = DOMAIN live \cup {c} /\ live'[c] = l
       /\ \A b \in DOMAIN live : b # c => live'[b] = live[b]
       /\ DOMAIN persisted' = DOMAIN persisted \cup {c} /\ persisted'[c] = q
       /\ \A b \in DOMAIN persisted : b # c => persisted'[b] = persisted[b]
  BY <1>7 DEF Including
<1>17. k \in Fork /\ k.stage = "created" /\ k.parent = p /\ k.snapshot = s /\ k.messages = m /\ k.child = c
  BY <1>6 DEF Fork, Stages
<1>18. FamilyTypes'
  <2>1. forking' \in [ForkCallers -> Fork]
    BY <1>1, <1>8, <1>17 DEF FamilyTypes
  <2>2. \A b \in DOMAIN live' : LiveAgent(live'[b])
    BY <1>1, <1>14, <1>16 DEF FamilyTypes
  <2>3. \A b \in DOMAIN persisted' : StoredAgent(persisted'[b])
    BY <1>1, <1>11, <1>16 DEF FamilyTypes
  <2>4. DOMAIN live' \subseteq AgentNames /\ DOMAIN persisted' \subseteq AgentNames
    BY <1>1, <1>16 DEF FamilyTypes
  <2>5. turns' \in Nat /\ clock' \in Nat
    BY <1>1, <1>7 DEF FamilyTypes
  <2> QED BY <2>1, <2>2, <2>3, <2>4, <2>5 DEF FamilyTypes
<1>19. AllDescend'
  <2>1. \A b \in DOMAIN live' : Descends(b, live'[b])
    BY <1>1, <1>15, <1>16 DEF AllDescend
  <2>2. \A b \in DOMAIN persisted' : Descends(b, persisted'[b])
    BY <1>1, <1>15, <1>16 DEF AllDescend
  <2> QED BY <1>7, <2>1, <2>2, StillDescend
<1>20. NamesStay
  BY <1>7 DEF NamesStay
<1>21. SnapshotsNamed'
  <2>1. ASSUME NEW b \in DOMAIN persisted', NEW x \in DOMAIN persisted'[b].snapshots
        PROVE  \E y : y = persisted'[b].snapshots[x] /\ NamedRight(b, x, y)'
    <3>1. b \in DOMAIN persisted /\ x \in DOMAIN persisted[b].snapshots
            /\ persisted'[b].snapshots[x] = persisted[b].snapshots[x]
      <4>1. CASE b = c
        BY <1>11, <1>16, <2>1, <4>1
      <4>2. CASE b # c
        BY <1>16, <2>1, <4>2
      <4> QED BY <4>1, <4>2
    <3>2. PICK y : y = persisted[b].snapshots[x] /\ NamedRight(b, x, y)
      BY <1>1, <3>1 DEF SnapshotsNamed
    <3> QED BY <1>20, <3>1, <3>2, NamedStays
  <2> QED BY <2>1 DEF SnapshotsNamed
<1>22. \A d : StaysThere(d) \/ (/\ k.child = d /\ k.stage \notin {"idle", "saved"}
                                /\ (d \in DOMAIN live => d \in DOMAIN live')
                                /\ (d \in DOMAIN persisted => d \in DOMAIN persisted'))
  BY <1>16, <1>17 DEF StaysThere
<1>23. forking'[f] = k /\ (\A h \in ForkCallers \ {f} : ForkKept(h)')
  BY <1>2, <1>8, <1>17, <1>20, <1>22, OthersStay
<1>24. ForkKept(f)'
  <2>1. NamedRight(p, s, m)'
    <3>1. NamedRight(p, s, m)
      BY <1>1, <1>2, <1>7 DEF ForkKept
    <3> QED BY <1>20, <3>1, NamedStays
  <2> QED BY <1>9, <1>13, <1>14, <1>16, <1>17, <1>23, <2>1 DEF ForkKept, Begun
<1> QED BY <1>18, <1>19, <1>21, <1>23, <1>24 DEF FamilyIInv

\* The messages of a fork are stored.
LEMMA SaveHolds ==
  ASSUME FamilyIInv, NEW f \in ForkCallers, ForkSavesMessages(f)
  PROVE  FamilyIInv'
<1>1. FamilyTypes /\ AllDescend /\ SnapshotsNamed /\ ForkKept(f)
  BY DEF FamilyIInv
<1>2. PICK st \in Stages, p \in AgentNames, s \in Nat, m \in Histories, c \in AgentNames :
           /\ forking[f] = [stage |-> st, parent |-> p, snapshot |-> s, messages |-> m, child |-> c]
           /\ forking[f].stage = st /\ forking[f].parent = p /\ forking[f].snapshot = s
           /\ forking[f].messages = m /\ forking[f].child = c
           /\ \A t \in Stages : [forking[f] EXCEPT !.stage = t]
                 = [stage |-> t, parent |-> p, snapshot |-> s, messages |-> m, child |-> c]
  BY ForkRecord
<1>3. PICK k : k = [stage |-> "filed", parent |-> p, snapshot |-> s, messages |-> m, child |-> c]
  OBVIOUS
<1>4. PICK h : h = live[c].messages
  OBVIOUS
<1>5. /\ st = "created" /\ persisted' = [persisted EXCEPT ![c].messages = h]
      /\ forking' = [forking EXCEPT ![f].stage = "filed"]
      /\ UNCHANGED <<live, inherit, named, reused, wiped, turns, clock>>
  BY <1>2, <1>4 DEF ForkSavesMessages
<1>6. forking' = [forking EXCEPT ![f] = k]
  BY <1>2, <1>3, <1>5 DEF Stages
<1>7. /\ \E t \in Nat : c = ForkId(p, t)
      /\ NamedRight(p, s, m) /\ c \in DOMAIN live /\ c \in DOMAIN persisted
      /\ ~Clashes(f) => HasParent(live[c], p) /\ live[c].messages = m
  BY <1>1, <1>2, <1>5 DEF ForkKept, Begun
<1>8. LiveAgent(live[c]) /\ h \in Histories /\ StoredAgent(persisted[c])
  BY <1>1, <1>4, <1>7 DEF FamilyTypes, LiveAgent
<1>9. PICK r, q : r = persisted[c] /\ q = [r EXCEPT !.messages = h]
  OBVIOUS
<1>10. q = [lineage |-> r.lineage, messages |-> h, limit |-> r.limit, snapshots |-> r.snapshots]
  <2>1. r = [lineage |-> r.lineage, messages |-> r.messages, limit |-> r.limit, snapshots |-> r.snapshots]
    BY <1>8, <1>9 DEF StoredAgent
  <2> QED BY <1>9, <2>1
<1>11. q.lineage = r.lineage /\ q.messages = h /\ q.limit = r.limit /\ q.snapshots = r.snapshots
  BY <1>10
<1>12. StoredAgent(q)
  BY <1>8, <1>9, <1>10, <1>11 DEF StoredAgent
<1>13. /\ DOMAIN persisted' = DOMAIN persisted /\ persisted'[c] = q
       /\ \A b \in DOMAIN persisted : b # c => persisted'[b] = persisted[b]
  BY <1>5, <1>7, <1>9
<1>14. k \in Fork /\ k.stage = "filed" /\ k.parent = p /\ k.snapshot = s /\ k.messages = m /\ k.child = c
  BY <1>3 DEF Fork, Stages
<1>15. FamilyTypes'
  <2>1. forking' \in [ForkCallers -> Fork]
    BY <1>1, <1>6, <1>14 DEF FamilyTypes
  <2>2. \A b \in DOMAIN persisted' : StoredAgent(persisted'[b])
    BY <1>1, <1>12, <1>13 DEF FamilyTypes
  <2> QED BY <1>1, <1>5, <1>13, <2>1, <2>2 DEF FamilyTypes
<1>16. AllDescend'
  <2>1. Descends(c, persisted[c]) /\ \A b \in DOMAIN persisted : Descends(b, persisted[b])
    BY <1>1, <1>7 DEF AllDescend
  <2>2. Descends(c, q)
    BY <1>9, <1>11, <2>1 DEF Descends, TrueLine, TrueLimit
  <2>3. \A b \in DOMAIN persisted' : Descends(b, persisted'[b])
    BY <1>13, <2>1, <2>2
  <2>4. \A b \in DOMAIN live' : Descends(b, live'[b])
    BY <1>1, <1>5 DEF AllDescend
  <2> QED BY <1>5, <2>3, <2>4, StillDescend
<1>17. NamesStay
  BY <1>5 DEF NamesStay
<1>18. SnapshotsNamed'
  <2>1. ASSUME NEW b \in DOMAIN persisted', NEW x \in DOMAIN persisted'[b].snapshots
        PROVE  \E y : y = persisted'[b].snapshots[x] /\ NamedRight(b, x, y)'
    <3>1. PICK ss : ss = persisted[b].snapshots /\ ss = persisted'[b].snapshots /\ b \in DOMAIN persisted
      BY <1>9, <1>11, <1>13
    <3>2. PICK y : y = ss[x] /\ NamedRight(b, x, y)
      BY <1>1, <2>1, <3>1 DEF SnapshotsNamed
    <3> QED BY <1>17, <3>1, <3>2, NamedStays
  <2> QED BY <2>1 DEF SnapshotsNamed
<1>19. \A d : StaysThere(d) \/ (/\ k.child = d /\ k.stage \notin {"idle", "saved"}
                                /\ (d \in DOMAIN live => d \in DOMAIN live')
                                /\ (d \in DOMAIN persisted => d \in DOMAIN persisted'))
  BY <1>5, <1>13, <1>14 DEF StaysThere
<1>20. forking'[f] = k /\ (\A g \in ForkCallers \ {f} : ForkKept(g)') /\ (Clashes(f) <=> Clashes(f)')
  BY <1>2, <1>6, <1>14, <1>17, <1>19, OthersStay
<1>21. ForkKept(f)'
  <2>1. NamedRight(p, s, m)'
    BY <1>7, <1>17, NamedStays
  <2>2. ~Clashes(f)' => HasParent(live'[c], p) /\ live'[c].messages = m /\ persisted'[c].messages = m
    BY <1>4, <1>5, <1>7, <1>11, <1>13, <1>20
  <2>3. c \in DOMAIN live' /\ c \in DOMAIN persisted'
    BY <1>5, <1>7, <1>13
  <2> QED BY <1>7, <1>14, <1>20, <2>1, <2>2, <2>3 DEF ForkKept, Begun
<1> QED BY <1>15, <1>16, <1>18, <1>20, <1>21 DEF FamilyIInv

\* The lineage is stored, and fork() returns.
LEMMA ReturnHolds ==
  ASSUME FamilyIInv, NEW f \in ForkCallers, ForkReturns(f)
  PROVE  FamilyIInv'
<1>1. FamilyTypes /\ AllDescend /\ SnapshotsNamed /\ ForkKept(f)
  BY DEF FamilyIInv
<1>2. PICK st \in Stages, p \in AgentNames, s \in Nat, m \in Histories, c \in AgentNames :
           /\ forking[f] = [stage |-> st, parent |-> p, snapshot |-> s, messages |-> m, child |-> c]
           /\ forking[f].stage = st /\ forking[f].parent = p /\ forking[f].snapshot = s
           /\ forking[f].messages = m /\ forking[f].child = c
           /\ \A t \in Stages : [forking[f] EXCEPT !.stage = t]
                 = [stage |-> t, parent |-> p, snapshot |-> s, messages |-> m, child |-> c]
  BY ForkRecord
<1>3. PICK k : k = [stage |-> "returned", parent |-> p, snapshot |-> s, messages |-> m, child |-> c]
  OBVIOUS
<1>4. PICK lin : lin = live[c].lineage
  OBVIOUS
<1>5. /\ st = "filed" /\ persisted' = [persisted EXCEPT ![c].lineage = lin]
      /\ forking' = [forking EXCEPT ![f].stage = "returned"]
      /\ UNCHANGED <<live, inherit, named, reused, wiped, turns, clock>>
  BY <1>2, <1>4 DEF ForkReturns
<1>6. forking' = [forking EXCEPT ![f] = k]
  BY <1>2, <1>3, <1>5 DEF Stages
<1>7. /\ \E t \in Nat : c = ForkId(p, t)
      /\ NamedRight(p, s, m) /\ c \in DOMAIN live /\ c \in DOMAIN persisted
      /\ ~Clashes(f) => HasParent(live[c], p) /\ persisted[c].messages = m
  BY <1>1, <1>2, <1>5 DEF ForkKept, Begun
<1>8. LiveAgent(live[c]) /\ lin \in Seq(AgentNames) /\ StoredAgent(persisted[c])
  BY <1>1, <1>4, <1>7 DEF FamilyTypes, LiveAgent
<1>9. PICK r, q : r = persisted[c] /\ q = [r EXCEPT !.lineage = lin]
  OBVIOUS
<1>10. q = [lineage |-> lin, messages |-> r.messages, limit |-> r.limit, snapshots |-> r.snapshots]
  <2>1. r = [lineage |-> r.lineage, messages |-> r.messages, limit |-> r.limit, snapshots |-> r.snapshots]
    BY <1>8, <1>9 DEF StoredAgent
  <2> QED BY <1>9, <2>1
<1>11. q.lineage = lin /\ q.messages = r.messages /\ q.limit = r.limit /\ q.snapshots = r.snapshots
  BY <1>10
<1>12. StoredAgent(q)
  BY <1>8, <1>9, <1>10, <1>11 DEF StoredAgent
<1>13. /\ DOMAIN persisted' = DOMAIN persisted /\ persisted'[c] = q
       /\ \A b \in DOMAIN persisted : b # c => persisted'[b] = persisted[b]
  BY <1>5, <1>7, <1>9
<1>14. k \in Fork /\ k.stage = "returned" /\ k.parent = p /\ k.snapshot = s /\ k.messages = m /\ k.child = c
  BY <1>3 DEF Fork, Stages
<1>15. FamilyTypes'
  <2>1. forking' \in [ForkCallers -> Fork]
    BY <1>1, <1>6, <1>14 DEF FamilyTypes
  <2>2. \A b \in DOMAIN persisted' : StoredAgent(persisted'[b])
    BY <1>1, <1>12, <1>13 DEF FamilyTypes
  <2> QED BY <1>1, <1>5, <1>13, <2>1, <2>2 DEF FamilyTypes
<1>16. AllDescend'
  <2>1. /\ Descends(c, persisted[c]) /\ Descends(c, live[c])
        /\ \A b \in DOMAIN persisted : Descends(b, persisted[b])
    BY <1>1, <1>7 DEF AllDescend
  <2>2. Descends(c, q)
    BY <1>4, <1>9, <1>11, <2>1 DEF Descends, TrueLine, TrueLimit
  <2>3. \A b \in DOMAIN persisted' : Descends(b, persisted'[b])
    BY <1>13, <2>1, <2>2
  <2>4. \A b \in DOMAIN live' : Descends(b, live'[b])
    BY <1>1, <1>5 DEF AllDescend
  <2> QED BY <1>5, <2>3, <2>4, StillDescend
<1>17. NamesStay
  BY <1>5 DEF NamesStay
<1>18. SnapshotsNamed'
  <2>1. ASSUME NEW b \in DOMAIN persisted', NEW x \in DOMAIN persisted'[b].snapshots
        PROVE  \E y : y = persisted'[b].snapshots[x] /\ NamedRight(b, x, y)'
    <3>1. PICK ss : ss = persisted[b].snapshots /\ ss = persisted'[b].snapshots /\ b \in DOMAIN persisted
      BY <1>9, <1>11, <1>13
    <3>2. PICK y : y = ss[x] /\ NamedRight(b, x, y)
      BY <1>1, <2>1, <3>1 DEF SnapshotsNamed
    <3> QED BY <1>17, <3>1, <3>2, NamedStays
  <2> QED BY <2>1 DEF SnapshotsNamed
<1>19. \A d : StaysThere(d) \/ (/\ k.child = d /\ k.stage \notin {"idle", "saved"}
                                /\ (d \in DOMAIN live => d \in DOMAIN live')
                                /\ (d \in DOMAIN persisted => d \in DOMAIN persisted'))
  BY <1>5, <1>13, <1>14 DEF StaysThere
<1>20. forking'[f] = k /\ (\A g \in ForkCallers \ {f} : ForkKept(g)') /\ (Clashes(f) <=> Clashes(f)')
  BY <1>2, <1>6, <1>14, <1>17, <1>19, OthersStay
<1>21. ForkKept(f)'
  <2>1. NamedRight(p, s, m)'
    BY <1>7, <1>17, NamedStays
  <2>2. ~Clashes(f)' => HasParent(persisted'[c], p)
    BY <1>4, <1>7, <1>11, <1>13, <1>20 DEF HasParent
  <2>3. ~Clashes(f)' => \E x : x = persisted'[c].messages /\ NamedRight(p, s, x)'
    BY <1>7, <1>9, <1>11, <1>13, <1>20, <2>1
  <2>4. c \in DOMAIN persisted'
    BY <1>7, <1>13
  <2> QED BY <1>7, <1>14, <1>20, <2>2, <2>3, <2>4 DEF ForkKept, Begun
<1> QED BY <1>15, <1>16, <1>18, <1>20, <1>21 DEF FamilyIInv

----------------------------------------------------------------------------
\* Who is in memory is in the store.
AllStored == DOMAIN live \subseteq DOMAIN persisted

\* Whoever comes into memory is in the store, and nobody leaves the store.
LEMMA AllStoredHolds ==
  ASSUME AllStored, [LineageNext]_lineageVars
  PROVE  AllStored'
<1>1. \A x, y, g : DOMAIN Including(g, x, y) = DOMAIN g \cup {x}
  BY DEF Including
<1>2. CASE UNCHANGED lineageVars
  BY <1>2 DEF AllStored, lineageVars
<1>3. CASE FamilyGoesOn
  <2>1. ASSUME NEW a, ResumeFromStore(a) PROVE AllStored'
    <3>1. persisted' = persisted /\ a \in DOMAIN persisted /\ DOMAIN live' = DOMAIN live \cup {a}
      BY <1>1, <2>1 DEF ResumeFromStore
    <3> QED BY <3>1 DEF AllStored
  <2>2. ASSUME NEW a, RecreateUnknown(a) PROVE AllStored'
    <3>1. DOMAIN persisted' = DOMAIN persisted /\ a \in DOMAIN persisted /\ DOMAIN live' = DOMAIN live \cup {a}
      BY <1>1, <2>2 DEF RecreateUnknown
    <3> QED BY <3>1 DEF AllStored
  <2>3. ASSUME NEW a, Turn(a) \/ Compress(a) PROVE AllStored'
    <3>1. \E m : TurnPersisted(a, m)
      BY <2>3 DEF Turn, Compress
    <3>2. DOMAIN live' = DOMAIN live /\ DOMAIN persisted' = DOMAIN persisted
      BY <3>1 DEF TurnPersisted
    <3> QED BY <3>2 DEF AllStored
  <2>4. CASE ClockTicks
    BY <2>4 DEF AllStored, ClockTicks
  <2>5. CASE Crash
    BY <2>5 DEF AllStored, Crash
  <2> QED BY <1>3, <2>1, <2>2, <2>3, <2>4, <2>5 DEF FamilyGoesOn
<1>4. CASE ForkStep
  <2>1. ASSUME NEW f, NEW a, ForkSnapshots(f, a) PROVE AllStored'
    <3>1. DOMAIN persisted' = DOMAIN persisted /\ live' = live
      BY <2>1 DEF ForkSnapshots
    <3> QED BY <3>1 DEF AllStored
  <2>2. ASSUME NEW f, ForkLoads(f) PROVE AllStored'
    <3>1. persisted' = persisted /\ live' = live
      BY <2>2 DEF ForkLoads
    <3> QED BY <3>1 DEF AllStored
  <2>3. ASSUME NEW f, ForkCreates(f) PROVE AllStored'
    <3>1. PICK c, q, l : persisted' = Including(persisted, c, q) /\ live' = Including(live, c, l)
      BY <2>3 DEF ForkCreates
    <3>2. DOMAIN persisted' = DOMAIN persisted \cup {c} /\ DOMAIN live' = DOMAIN live \cup {c}
      BY <1>1, <3>1
    <3> QED BY <3>2 DEF AllStored
  <2>4. ASSUME NEW f, ForkSavesMessages(f) \/ ForkReturns(f) PROVE AllStored'
    <3>1. DOMAIN persisted' = DOMAIN persisted /\ live' = live
      BY <2>4 DEF ForkSavesMessages, ForkReturns
    <3> QED BY <3>1 DEF AllStored
  <2> QED BY <1>4, <2>1, <2>2, <2>3, <2>4 DEF ForkStep
<1>5. CASE SubStep
  <2>1. ASSUME NEW a, NEW s, NEW limit, NewSub(s, a, limit) PROVE AllStored'
    <3>1. DOMAIN persisted' = DOMAIN persisted \cup {s} /\ DOMAIN live' = DOMAIN live \cup {s}
      BY <1>1, <2>1 DEF NewSub
    <3> QED BY <3>1 DEF AllStored
  <2>2. ASSUME NEW s, SubTurn(s) PROVE AllStored'
    <3>1. DOMAIN live' = DOMAIN live /\ DOMAIN persisted' = DOMAIN persisted
      BY <2>2 DEF SubTurn, TurnPersisted
    <3> QED BY <3>1 DEF AllStored
  <2>3. ASSUME NEW a, NEW s, SpawnSubAgent(a, s) \/ DelegateTask(a, s) PROVE \E limit : NewSub(s, a, limit)
    BY <2>3 DEF SpawnSubAgent, DelegateTask
  <2> QED BY <1>5, <2>1, <2>2, <2>3 DEF SubStep
<1> QED BY <1>2, <1>3, <1>4, <1>5 DEF LineageNext

\* Every step keeps the invariant.
LEMMA FamilyStep ==
  ASSUME FamilyIInv, AllStored, [LineageNext]_lineageVars
  PROVE  FamilyIInv'
<1>1. CASE UNCHANGED lineageVars
  <2>1. UNCHANGED <<live, persisted, forking, inherit, named, reused, wiped, turns, clock>>
    BY <1>1 DEF lineageVars
  <2>2. FamilyTypes' /\ AllDescend' /\ SnapshotsNamed'
    BY <2>1 DEF FamilyIInv, FamilyTypes, AllDescend, Descends, TrueLine, TrueLimit, SnapshotsNamed, NamedRight
  <2>3. \A c : StaysThere(c)
    BY <2>1 DEF StaysThere
  <2> QED BY <2>1, <2>2, <2>3, ForksAsTheyWere DEF FamilyIInv
<1>2. CASE FamilyGoesOn
  <2>1. CASE Turn(Root)
    <3>1. PICK m : m = Append(live[Root].messages, turns')
      OBVIOUS
    <3>2. /\ Root \in DOMAIN live /\ Root \in DOMAIN persisted /\ turns' = turns + 1 /\ TurnPersisted(Root, m)
          /\ UNCHANGED <<forking, inherit, named, reused, wiped, clock>>
      BY <2>1, <3>1 DEF Turn
    <3>3. live[Root].messages \in Seq(Nat) /\ turns \in Nat
      BY <3>2 DEF FamilyIInv, FamilyTypes, LiveAgent, Histories
    <3>4. turns' \in Nat /\ m \in Histories
      BY <3>1, <3>2, <3>3, AppendProperties DEF Histories
    <3> QED BY <3>2, <3>4, TurnHolds
  <2>2. CASE Compress(Root)
    <3>1. PICK h, m : h = live[Root].messages /\ m = <<h[Len(h)]>>
      OBVIOUS
    <3>2. /\ Root \in DOMAIN live /\ Root \in DOMAIN persisted /\ Len(h) > 1 /\ TurnPersisted(Root, m)
          /\ UNCHANGED <<forking, inherit, named, reused, wiped, turns, clock>>
      BY <2>2, <3>1 DEF Compress
    <3>3. h \in Seq(Nat) /\ turns' \in Nat
      BY <3>1, <3>2 DEF FamilyIInv, FamilyTypes, LiveAgent, Histories
    <3>4. m \in Histories
      <4>1. Len(h) \in 1..Len(h)
        BY <3>2, <3>3
      <4> QED BY <3>1, <3>3, <4>1 DEF Histories
    <3> QED BY <3>2, <3>3, <3>4, TurnHolds
  <2> QED BY <1>2, <2>1, <2>2, ClockHolds, CrashHolds, ResumeHolds, RecreateHolds DEF FamilyGoesOn
<1>3. CASE ForkStep
  BY <1>3, SnapshotHolds, LoadHolds, CreateHolds, SaveHolds, ReturnHolds DEF ForkStep
<1>4. CASE SubStep
  <2>1. ASSUME NEW s \in SubIds, SubTurn(s) PROVE FamilyIInv'
    <3>1. PICK m : m = <<0>>
      OBVIOUS
    <3>2. /\ s \in DOMAIN live /\ TurnPersisted(s, m)
          /\ UNCHANGED <<forking, inherit, named, reused, wiped, turns, clock>>
      BY <2>1, <3>1 DEF SubTurn
    <3>3. s \in DOMAIN persisted /\ m \in Histories /\ turns' \in Nat
      BY <3>1, <3>2 DEF AllStored, FamilyIInv, FamilyTypes, Histories
    <3> QED BY <3>2, <3>3, TurnHolds
  <2> QED BY <1>4, <2>1, SpawnHolds DEF SubStep
<1> QED BY <1>1, <1>2, <1>3, <1>4 DEF LineageNext

\* The invariant says what is to be kept.
LEMMA FamilySafe == FamilyIInv => FamilyKept
<1> SUFFICES ASSUME FamilyIInv PROVE FamilyKept
  OBVIOUS
<1>1. LineageIsTrue
  BY DEF FamilyIInv, AllDescend, Descends, TrueLine, LineageIsTrue
<1>2. ForksAreStored
  BY DEF FamilyIInv, ForkKept, HasParent, NamedRight, ForksAreStored
<1>3. SpawnsAreBounded
  <2>1. ASSUME inherit, NEW a \in DOMAIN live PROVE live[a].limit.level <= Depth
    <3>1. live[a].limit \in Limits /\ live[a].limit.depth + live[a].limit.level = Depth
      BY <2>1 DEF FamilyIInv, FamilyTypes, LiveAgent, AllDescend, Descends, TrueLimit
    <3>2. PICK d \in Nat, e \in Nat : live[a].limit = [depth |-> d, level |-> e]
      BY <3>1 DEF Limits
    <3>3. d + e = Depth /\ live[a].limit.level = e
      BY <3>1, <3>2
    <3> QED BY <3>3, LineageAssumption
  <2> QED BY <2>1 DEF SpawnsAreBounded
<1> QED BY <1>1, <1>2, <1>3 DEF FamilyKept

\* fork() stores its agent with its parent last in a lineage that names its ancestors and with
\* the messages of its snapshot, and spawnSubAgent() nests no deeper than it may: however the
\* steps of forks, turns, crashes and resumptions interleave.
THEOREM FamilyHolds == LineageSpec => []FamilyKept
<1>1. LineageInit => FamilyIInv /\ AllStored
  BY FamilyInitHolds DEF LineageInit, AllStored
<1>2. FamilyIInv /\ AllStored /\ [LineageNext]_lineageVars => (FamilyIInv /\ AllStored)'
  BY FamilyStep, AllStoredHolds
<1>3. FamilyIInv /\ AllStored => FamilyKept
  BY FamilySafe
<1> QED BY <1>1, <1>2, <1>3, PTL DEF LineageSpec
-----------------------------------------------------------------------------
(* The library of skills (SkillLibrary).                                   *)

Shelves == {"online", "archived"}
Bases == OnlineNames \cup ZipNames
Dirs == {d \in (Shelves \cup TempPlaces) \X Bases \X Seq(Nat) :
            d[1] \in TempPlaces => d[3] = <<>>}
Library == {d \in Dirs : d[1] \in Shelves /\ ~IsBad(d)}

\* The operations under way, those that wait included.
Managed == [kind : {"rename", "copy", "archive", "unarchive"}, from : Library, to : Library,
            step : {"check", "target", "copy", "move", "remove"}, id : Nat, temp : {""},
            zip : {{}}, todo : {{}}]
Imports == [kind : {"import"}, from : Dirs \cup {<<>>}, to : Library \cup {<<>>},
            step : {"extract", "list", "next", "target", "move", "remove", "clean"}, id : Nat,
            temp : TempPlaces, zip : SUBSET ZipNames, todo : SUBSET Dirs]
Busy == {w \in Workers : work[w] # Idle}
Jobs == {work[w] : w \in Busy} \cup {operations[i] : i \in DOMAIN operations}
Waiting(op) == op.step \in {"check", "extract"}

SkillTypes ==
    /\ DOMAIN disk \subseteq Dirs
    /\ \A d \in DOMAIN disk : d[1] \in Shelves => d \in Library
    /\ requested \in Nat
    /\ operations \in Seq(Managed \cup Imports)
    /\ work \in [Workers -> Managed \cup Imports \cup {Idle}]

\* One operation at a time through the queue, and no two of the same id.
QueueInv ==
    /\ serial => /\ processing => \E w \in Workers : Busy = {w}
                 /\ ~processing => Busy = {} /\ operations = <<>>
    /\ ~serial => operations = <<>>
    /\ \A v, w \in Busy : work[v].id = work[w].id => v = w
    /\ \A w \in Busy, i \in DOMAIN operations : work[w].id # operations[i].id
    /\ \A i, j \in DOMAIN operations : operations[i].id = operations[j].id => i = j
    /\ \A i \in DOMAIN operations : Waiting(operations[i])

\* What an import has still to do, in the directories of its place.
Remaining(op) == op.todo \cup (IF op.step \in {"target", "move"} THEN {op.from} ELSE {})
Handles(op) ==
    /\ op.id \in 1..requested
    /\ platform = "posix" => op.step # "remove"
    /\ op.kind = "copy" => op.step \in {"check", "copy"}
    /\ op.kind = "archive" => op.step \in {"check", "move", "remove"}
    /\ op.kind \in {"rename", "unarchive"} => op.step \in {"check", "target", "move", "remove"}
    /\ op.kind \in {"copy", "archive"} =>
          op.to[3] = Append(op.from[3], op.id)
    /\ op.kind = "import" =>
          /\ [id |-> op.id, temp |-> op.temp] \in imported
          /\ op.step \in {"extract", "list"} => op.todo = {}
          /\ \A d \in op.todo : d[1] = op.temp
          /\ op.step \in {"target", "move", "remove"} =>
                /\ op.from \in Dirs \ op.todo /\ op.from[1] = op.temp /\ ~IsBad(op.from)
                /\ op.to \in {Dir("online", op.from[2], <<>>), Dir("online", op.from[2], <<op.id>>)}
                /\ op.step = "target" => op.to = Dir("online", op.from[2], <<>>)

\* The name d has a suffix of the operation only if the operation is past making it.
Uses(d, k) == \E i \in DOMAIN d[3] : d[3][i] = k
Clear(op, d) ==
    Uses(d, op.id) =>
        /\ op.kind \in {"copy", "archive"} => op.step = "remove"
        /\ op.kind = "import" => /\ op.step \notin {"extract", "list"}
                                 /\ \A e \in Remaining(op) : e[2] # d[2]
NamesClear ==
    /\ \A d \in DOMAIN disk : \A i \in DOMAIN d[3] : d[3][i] \in 1..requested
    /\ \A op \in Jobs : \A d \in DOMAIN disk : Clear(op, d)
    /\ \A op, p \in Jobs :
          op.id # p.id /\ p.kind # "import" => Clear(op, p.to)
    /\ \A op \in Jobs : op.kind # "import" => \A i \in DOMAIN op.to[3] : op.to[3][i] \in 1..requested

\* In the queue, nobody takes the name that was found to be free.
FreeFor(op) ==
    /\ op.step = "move" => op.to \notin DOMAIN disk
    /\ op.step = "remove" => /\ op.to \in DOMAIN disk /\ op.to # op.from
                             /\ op.from \in DOMAIN disk => disk[op.to] = disk[op.from]
TargetFree == serial => \A op \in Jobs : FreeFor(op)

\* Where the skills of an import are.
Safe(skill) == \E d \in DOMAIN disk : d \in Library /\ disk[d] = skill
Here(op, n) == /\ Dir(op.temp, n, <<>>) \in DOMAIN disk
               /\ disk[Dir(op.temp, n, <<>>)] = <<op.id, n>>
\* Another import has removed the directory, and nobody will unpack there any more.
Doomed(op) ==
    /\ At(op.temp) = {}
    /\ \E b \in imported : b.temp = op.temp /\ b.id # op.id /\ \A p \in Jobs : p.id # b.id
Handled == serial \/ (platform = "posix" /\ ~Crowded)
WholeOf(op) ==
    op.kind = "import" /\ op.step \notin {"extract", "clean"} =>
        \A n \in op.zip :
            \/ Safe(<<op.id, n>>)
            \/ /\ op.step # "list" => Dir(op.temp, n, <<>>) \in Remaining(op)
               /\ Here(op, n) \/ Doomed(op)
ImportsWhole == \A op \in Jobs : WholeOf(op)

ImportsKnown == \A a \in imported : a = [id |-> a.id, temp |-> a.temp] /\ a.id \in 1..requested
OwedSafe == \A s \in owed : Safe(s)

ShelfInv ==
    /\ SkillTypes /\ QueueInv /\ ImportsKnown
    /\ \A op \in Jobs : Handles(op)
    /\ NamesClear
    /\ TargetFree
    /\ Handled => ImportsWhole /\ OwedSafe

\* A load that is not disturbed meets the skill in what it has to read, or in the cache.
LoadTypes == [kind : {"list", "scan", "done"}, name : OnlineNames, todo : SUBSET Dirs, found : BOOLEAN,
              steady : BOOLEAN, alone : BOOLEAN]
LoadInv ==
    /\ load \in [Loaders -> LoadTypes \cup {Idle}]
    /\ \A l \in Loaders :
        /\ load[l].kind \in {"list", "scan"} /\ load[l].steady => Wanted(l) \in DOMAIN disk
        /\ load[l].kind = "scan" /\ load[l].steady /\ load[l].alone /\ Allowed(Wanted(l)) =>
              Wanted(l) \in load[l].todo \cup cache
    /\ LoadFinds

-----------------------------------------------------------------------------
\* A directory is a place, a base and suffixes; temporary ones have no suffix.
LEMMA DirIs ==
  ASSUME NEW d \in Dirs
  PROVE  /\ d = Dir(d[1], d[2], d[3]) /\ d[1] \in Shelves \cup TempPlaces /\ d[2] \in Bases
         /\ d[3] \in Seq(Nat) /\ (d[1] \in TempPlaces => d[3] = <<>>)
         /\ (d[1] \in Shelves <=> d[1] \notin TempPlaces)
<1>1. d \in (Shelves \cup TempPlaces) \X Bases \X Seq(Nat)
  BY DEF Dirs
<1>2. PICK p \in Shelves \cup TempPlaces, b \in Bases, s \in Seq(Nat) : d = <<p, b, s>>
  BY <1>1
<1>3. d[1] = p /\ d[2] = b /\ d[3] = s
  BY <1>2
<1>4. d[1] \in TempPlaces => d[3] = <<>>
  BY DEF Dirs
<1> QED BY <1>2, <1>3, <1>4, SkillAssumption DEF Dir, Shelves

\* Three such parts make a directory, on a shelf with a valid name one of the
\* library.
LEMMA DirMade ==
  ASSUME NEW p \in Shelves \cup TempPlaces, NEW b \in Bases, NEW s \in Seq(Nat),
         p \in TempPlaces => s = <<>>
  PROVE  LET d == Dir(p, b, s)
         IN d \in Dirs /\ d[1] = p /\ d[2] = b /\ d[3] = s /\ (p \in Shelves /\ b # "bad" => d \in Library)
<1>1. PICK d : d = Dir(p, b, s)
  OBVIOUS
<1>2. d = <<p, b, s>> /\ d[1] = p /\ d[2] = b /\ d[3] = s
  BY <1>1 DEF Dir
<1>3. d \in (Shelves \cup TempPlaces) \X Bases \X Seq(Nat)
  BY <1>2
<1>4. d \in Dirs
  BY <1>2, <1>3 DEF Dirs
<1> QED BY <1>1, <1>2, <1>4 DEF Library, IsBad

\* What is in the library is on a shelf, never in a temporary place.
LEMMA LibraryIs ==
  ASSUME NEW d \in Library
  PROVE  d \in Dirs /\ d[1] \in Shelves /\ d[1] \notin TempPlaces /\ d[2] # "bad"
BY DirIs DEF Library, IsBad

\* generateRandomSuffix gives one more suffix to a name.
LEMMA SuffixedIs ==
  ASSUME NEW place \in Shelves, NEW d \in Library, NEW k \in Nat
  PROVE  LET e == Suffixed(place, d, k)
         IN /\ e \in Library /\ e[1] = place /\ e[2] = d[2] /\ e[3] = Append(d[3], k)
            /\ Uses(e, k) /\ \A j : Uses(e, j) => j = k \/ Uses(d, j)
<1>1. d \in Dirs /\ d[2] # "bad"
  BY LibraryIs
<1>2. PICK b, s : b = d[2] /\ s = d[3]
  OBVIOUS
<1>3. b \in Bases /\ s \in Seq(Nat) /\ b # "bad"
  BY <1>1, <1>2, DirIs
<1>4. PICK t : t = Append(s, k)
  OBVIOUS
<1>5. t \in Seq(Nat) /\ Len(t) = Len(s) + 1 /\ t[Len(s) + 1] = k /\ \A i \in 1..Len(s) : t[i] = s[i]
  BY <1>3, <1>4, AppendProperties
<1>6. PICK e : e = Dir(place, b, t)
  OBVIOUS
<1>7. e = Suffixed(place, d, k)
  BY <1>2, <1>4, <1>6 DEF Suffixed
<1>8. place \in Shelves \cup TempPlaces /\ place \notin TempPlaces
  BY SkillAssumption DEF Shelves
<1>9. e \in Library /\ e[1] = place /\ e[2] = b /\ e[3] = t
  BY <1>3, <1>5, <1>6, <1>8, DirMade
<1>10. DOMAIN t = 1..Len(s) + 1 /\ DOMAIN s = 1..Len(s) /\ Len(s) \in Nat
  BY <1>3, <1>5
<1>11. Uses(e, k)
  <2>1. Len(s) + 1 \in DOMAIN t
    BY <1>10
  <2> QED BY <1>5, <1>9, <2>1 DEF Uses
<1>12. ASSUME NEW j, Uses(e, j) PROVE j = k \/ Uses(d, j)
  <2>1. PICK i \in DOMAIN t : t[i] = j
    BY <1>9, <1>12 DEF Uses
  <2>2. CASE i = Len(s) + 1
    BY <1>5, <2>1, <2>2
  <2>3. CASE i \in 1..Len(s)
    BY <1>2, <1>5, <1>10, <2>1, <2>3 DEF Uses
  <2> QED BY <1>10, <2>1, <2>2, <2>3
<1> QED BY <1>2, <1>4, <1>7, <1>9, <1>11, <1>12

\* A restored skill's name has no suffix but those of the archived one.
LEMMA OriginalIs ==
  ASSUME NEW d \in Library
  PROVE  LET e == OriginalName(d)
         IN e \in Library /\ e[2] = d[2] /\ \A j : Uses(e, j) => Uses(d, j)
<1>1. d \in Dirs /\ d[2] # "bad"
  BY LibraryIs
<1>2. PICK b, s : b = d[2] /\ s = d[3]
  OBVIOUS
<1>3. b \in Bases /\ s \in Seq(Nat) /\ b # "bad"
  BY <1>1, <1>2, DirIs
<1>4. CASE s = <<>>
  BY <1>2, <1>4 DEF OriginalName
<1>5. CASE s # <<>>
  <2>1. PICK t : t = Front(s)
    OBVIOUS
  <2>2. Len(s) \in Nat /\ Len(s) >= 1 /\ t = SubSeq(s, 1, Len(s) - 1)
    BY <1>3, <1>5, <2>1 DEF Front
  <2>3. t \in Seq(Nat) /\ Len(t) = Len(s) - 1 /\ \A i \in 1..Len(s) - 1 : t[i] = s[i]
    <3>1. PICK n \in Nat : n = Len(s) - 1 /\ n <= Len(s)
      BY <2>2
    <3>2. t = SubSeq(s, 1, n)
      BY <2>2, <3>1
    <3>3. \A i \in 1..n : s[i] \in Nat
      BY <1>3, <2>2, <3>1
    <3>4. t \in Seq(Nat) /\ Len(t) = n /\ \A i \in 1..n : t[i] = s[i]
      BY <1>3, <3>1, <3>2, <3>3
    <3> QED BY <3>1, <3>4
  <2>4. PICK e : e = Dir("online", b, t)
    OBVIOUS
  <2>5. "online" \in Shelves /\ "online" \in Shelves \cup TempPlaces /\ "online" \notin TempPlaces
    BY SkillAssumption DEF Shelves
  <2>6. e \in Library /\ e[2] = b /\ e[3] = t
    BY <1>3, <2>3, <2>4, <2>5, DirMade
  <2>7. e = OriginalName(d)
    BY <1>2, <1>5, <2>1, <2>4 DEF OriginalName
  <2>8. ASSUME NEW j, Uses(e, j) PROVE Uses(d, j)
    <3>1. PICK i \in DOMAIN t : t[i] = j
      BY <2>6, <2>8 DEF Uses
    <3>2. i \in 1..Len(s) - 1 /\ i \in DOMAIN s
      BY <1>3, <2>2, <2>3, <3>1
    <3> QED BY <1>2, <2>3, <3>1, <3>2 DEF Uses
  <2> QED BY <1>2, <2>6, <2>7, <2>8
<1> QED BY <1>4, <1>5

\* A name without suffixes uses none.
LEMMA UsesNothing ==
  ASSUME NEW d, d[3] = <<>>, NEW k
  PROVE  ~Uses(d, k)
BY DEF Uses

\* The names that an import gives.
LEMMA ImportNames ==
  ASSUME NEW b \in Bases, b # "bad", NEW id \in Nat, NEW d \in {Dir("online", b, <<>>), Dir("online", b, <<id>>)}
  PROVE  d \in Library /\ d[2] = b /\ \A j : Uses(d, j) => j = id
<1>1. "online" \in Shelves /\ "online" \in Shelves \cup TempPlaces /\ "online" \notin TempPlaces
  BY SkillAssumption DEF Shelves
<1>2. PICK s \in Seq(Nat) : (s = <<>> \/ s = <<id>>) /\ d = Dir("online", b, s)
  <2>1. <<>> \in Seq(Nat) /\ <<id>> \in Seq(Nat)
    OBVIOUS
  <2> QED BY <2>1
<1>3. d \in Library /\ d[2] = b /\ d[3] = s
  BY <1>1, <1>2, DirMade
<1>4. ASSUME NEW j, Uses(d, j) PROVE j = id
  <2>1. PICK i \in DOMAIN s : s[i] = j
    BY <1>3, <1>4 DEF Uses
  <2> QED BY <1>2, <2>1
<1> QED BY <1>3, <1>4

\* The name that an import takes when the first one is there.
LEMMA SecondName ==
  ASSUME NEW b \in Bases, b # "bad", NEW id \in Nat
  PROVE  LET d == Dir("online", b, <<id>>) IN d \in Library /\ d[2] = b /\ Uses(d, id)
<1>1. "online" \in Shelves /\ "online" \in Shelves \cup TempPlaces /\ "online" \notin TempPlaces
  BY SkillAssumption DEF Shelves
<1>2. PICK s : s = <<id>>
  OBVIOUS
<1>3. s \in Seq(Nat) /\ 1 \in DOMAIN s /\ s[1] = id
  BY <1>2
<1>4. PICK d : d = Dir("online", b, s)
  OBVIOUS
<1>5. d \in Library /\ d[2] = b /\ d[3] = s
  BY <1>1, <1>3, <1>4, DirMade
<1> QED BY <1>2, <1>3, <1>4, <1>5 DEF Uses

\* What an import unpacks is a directory of its temporary place.
LEMMA TempMade ==
  ASSUME NEW p \in TempPlaces, NEW b \in Bases
  PROVE  LET d == Dir(p, b, <<>>) IN d \in Dirs /\ d[1] = p /\ d[2] = b /\ d[3] = <<>>
<1>1. PICK s : s = <<>>
  OBVIOUS
<1>2. s \in Seq(Nat) /\ p \in Shelves \cup TempPlaces
  BY <1>1
<1>3. PICK d : d = <<p, b, s>>
  OBVIOUS
<1>4. d \in (Shelves \cup TempPlaces) \X Bases \X Seq(Nat) /\ d[1] = p /\ d[2] = b /\ d[3] = s
  BY <1>2, <1>3
<1>5. d \in Dirs
  BY <1>1, <1>4 DEF Dirs
<1> QED BY <1>1, <1>3, <1>4, <1>5 DEF Dir


-----------------------------------------------------------------------------
\* The records of operations.
LEMMA JobIs ==
  ASSUME NEW op \in Managed \cup Imports
  PROVE  /\ op = [kind |-> op.kind, from |-> op.from, to |-> op.to, step |-> op.step, id |-> op.id,
                  temp |-> op.temp, zip |-> op.zip, todo |-> op.todo]
         /\ op.id \in Nat /\ op # Idle
         /\ op \in Imports <=> op.kind = "import"
         /\ op.kind # "import" =>
              /\ op.kind \in {"rename", "copy", "archive", "unarchive"} /\ op.from \in Library /\ op.to \in Library
              /\ op.step \in {"check", "target", "copy", "move", "remove"}
              /\ op.temp = "" /\ op.zip = {} /\ op.todo = {}
         /\ op.kind = "import" =>
              /\ op.from \in Dirs \cup {<<>>} /\ op.to \in Library \cup {<<>>}
              /\ op.step \in {"extract", "list", "next", "target", "move", "remove", "clean"}
              /\ op.temp \in TempPlaces /\ op.zip \in SUBSET ZipNames /\ op.todo \in SUBSET Dirs
<1>1. \A r \in Imports : r.kind = "import"
  BY DEF Imports
<1>2. Idle.kind = "idle"
  BY DEF Idle
<1>3. CASE op \in Managed
  <2>1. op = [kind |-> op.kind, from |-> op.from, to |-> op.to, step |-> op.step, id |-> op.id,
                  temp |-> op.temp, zip |-> op.zip, todo |-> op.todo]
    BY <1>3 DEF Managed
  <2>2. op.kind \in {"rename", "copy", "archive", "unarchive"} /\ op.id \in Nat
    BY <1>3 DEF Managed
  <2>3. /\ op.from \in Library /\ op.to \in Library /\ op.temp = "" /\ op.zip = {} /\ op.todo = {}
        /\ op.step \in {"check", "target", "copy", "move", "remove"}
    BY <1>3 DEF Managed
  <2> QED BY <1>1, <1>2, <2>1, <2>2, <2>3
<1>4. CASE op \in Imports
  <2>1. op = [kind |-> op.kind, from |-> op.from, to |-> op.to, step |-> op.step, id |-> op.id,
                  temp |-> op.temp, zip |-> op.zip, todo |-> op.todo]
    BY <1>4 DEF Imports
  <2>2. op.kind = "import" /\ op.id \in Nat
    BY <1>4 DEF Imports
  <2>3. /\ op.from \in Dirs \cup {<<>>} /\ op.to \in Library \cup {<<>>}
        /\ op.step \in {"extract", "list", "next", "target", "move", "remove", "clean"}
        /\ op.temp \in TempPlaces /\ op.zip \in SUBSET ZipNames /\ op.todo \in SUBSET Dirs
    BY <1>4 DEF Imports
  <2> QED BY <1>2, <1>4, <2>1, <2>2, <2>3
<1> QED BY <1>3, <1>4

\* An operation at another step is otherwise the same.
LEMMA StepIs ==
  ASSUME NEW op \in Managed \cup Imports, NEW step
  PROVE  LET n == [op EXCEPT !.step = step]
         IN /\ n.kind = op.kind /\ n.from = op.from /\ n.to = op.to /\ n.step = step /\ n.id = op.id
            /\ n.temp = op.temp /\ n.zip = op.zip /\ n.todo = op.todo
            /\ op.kind # "import" /\ step \in {"check", "target", "copy", "move", "remove"} =>
                  n \in Managed \cup Imports
            /\ op.kind = "import" /\ step \in {"extract", "list", "next", "target", "move", "remove", "clean"} =>
                  n \in Managed \cup Imports
<1>1. op = [kind |-> op.kind, from |-> op.from, to |-> op.to, step |-> op.step, id |-> op.id,
            temp |-> op.temp, zip |-> op.zip, todo |-> op.todo]
  BY JobIs
<1>2. PICK n : n = [op EXCEPT !.step = step]
  OBVIOUS
<1>3. n = [kind |-> op.kind, from |-> op.from, to |-> op.to, step |-> step, id |-> op.id,
            temp |-> op.temp, zip |-> op.zip, todo |-> op.todo]
  BY <1>1, <1>2
<1>4. /\ n.kind = op.kind /\ n.from = op.from /\ n.to = op.to /\ n.step = step /\ n.id = op.id
      /\ n.temp = op.temp /\ n.zip = op.zip /\ n.todo = op.todo
  BY <1>3
<1>5. ASSUME op.kind # "import", step \in {"check", "target", "copy", "move", "remove"} PROVE n \in Managed
  BY <1>3, <1>5, JobIs DEF Managed
<1>6. ASSUME op.kind = "import", step \in {"extract", "list", "next", "target", "move", "remove", "clean"}
      PROVE  n \in Imports
  BY <1>3, <1>6, JobIs DEF Imports
<1> QED BY <1>2, <1>4, <1>5, <1>6

-----------------------------------------------------------------------------
\* The operation of a worker goes on as n, or ends, when N is empty.
Takes(w, N) == \/ \E n \in Managed \cup Imports :
                     N = {n} /\ n.id = work[w].id /\ Continues(w, n)
               \/ N = {} /\ Ends(w)
Others(w) == {p \in Jobs : p.id # work[w].id}

\* The operation of a worker is one of those under way, through the queue the only
\* one that has started.
LEMMA WorkIs ==
  ASSUME SkillTypes, QueueInv, NEW w \in Workers, work[w].kind # "idle"
  PROVE  /\ w \in Busy /\ work[w] \in Jobs /\ work[w] \in Managed \cup Imports
         /\ serial => Busy = {w} /\ processing /\ \A p \in Others(w) : Waiting(p)
         /\ Jobs = {work[w]} \cup Others(w)
         /\ \A p \in Jobs : p \in Managed \cup Imports
<1>1. work[w] # Idle /\ w \in Busy /\ work[w] \in Jobs /\ work[w] \in Managed \cup Imports
  BY DEF Idle, Busy, Jobs, SkillTypes
<1>2. serial => Busy = {w} /\ processing
  BY <1>1 DEF QueueInv
<1>3. ASSUME NEW p \in Jobs PROVE p = work[w] \/ p.id # work[w].id
  <2>1. CASE \E v \in Busy : p = work[v]
    BY <1>1, <2>1 DEF QueueInv
  <2>2. CASE \E i \in DOMAIN operations : p = operations[i]
    BY <1>1, <2>2 DEF QueueInv
  <2> QED BY <1>3, <2>1, <2>2 DEF Jobs
<1>4. serial => \A p \in Others(w) : Waiting(p)
  BY <1>2 DEF QueueInv, Others, Jobs
<1>5. ASSUME NEW p \in Jobs PROVE p \in Managed \cup Imports
  <2>1. CASE \E v \in Busy : p = work[v]
    BY <2>1 DEF Busy, SkillTypes
  <2>2. CASE \E i \in DOMAIN operations : p = operations[i]
    BY <2>2 DEF SkillTypes
  <2> QED BY <1>5, <2>1, <2>2 DEF Jobs
<1>6. Jobs = {work[w]} \cup Others(w)
  BY <1>1, <1>3 DEF Others
<1> QED BY <1>1, <1>2, <1>4, <1>5, <1>6

\* When it goes on or ends, one of the queue may take its place, and the queue stays
\* as it should be.
LEMMA TakesIs ==
  ASSUME SkillTypes, QueueInv, NEW w \in Workers, work[w].kind # "idle", NEW N, Takes(w, N), serial' = serial
  PROVE  /\ operations' \in Seq(Managed \cup Imports)
         /\ work' \in [Workers -> Managed \cup Imports \cup {Idle}]
         /\ QueueInv'
         /\ Jobs' \subseteq N \cup Others(w)
         /\ \A n \in N : n \in Managed \cup Imports /\ n.id = work[w].id
<1>1. /\ w \in Busy /\ work[w] \in Jobs /\ work[w] \in Managed \cup Imports
      /\ serial => Busy = {w} /\ processing
  BY WorkIs
<1>2. operations \in Seq(Managed \cup Imports) /\ work \in [Workers -> Managed \cup Imports \cup {Idle}]
  BY DEF SkillTypes
<1>3. CASE N # {}
  <2>1. PICK n \in Managed \cup Imports : N = {n} /\ n.id = work[w].id /\ Continues(w, n)
    BY <1>3 DEF Takes
  <2>2. work' = [work EXCEPT ![w] = n] /\ operations' = operations /\ processing' = processing
    BY <2>1 DEF Continues
  <2>3. n # Idle
    BY JobIs
  <2>4. work' \in [Workers -> Managed \cup Imports \cup {Idle}] /\ work'[w] = n
        /\ \A v \in Workers \ {w} : work'[v] = work[v]
    BY <1>2, <2>2
  <2>5. Busy' = Busy
    BY <1>1, <2>3, <2>4 DEF Busy
  <2>6. \A v \in Busy : work'[v].id = work[v].id
    BY <2>1, <2>4 DEF Busy
  <2>7. QueueInv'
    BY <2>2, <2>5, <2>6 DEF QueueInv
  <2>8. ASSUME NEW p \in Jobs' PROVE p \in N \cup Others(w)
    <3>1. CASE \E v \in Busy : p = work'[v]
      <4>1. PICK v \in Busy : p = work'[v]
        BY <3>1
      <4>2. CASE v = w
        BY <2>1, <2>4, <4>1, <4>2
      <4>3. CASE v # w
        BY <1>1, <2>4, <4>1, <4>3 DEF Busy, Others, Jobs, QueueInv
      <4> QED BY <4>2, <4>3
    <3>2. CASE \E i \in DOMAIN operations : p = operations[i]
      BY <1>1, <3>2 DEF Others, Jobs, QueueInv
    <3> QED BY <2>2, <2>5, <2>8, <3>1, <3>2 DEF Jobs
  <2> QED BY <1>2, <2>1, <2>2, <2>4, <2>7, <2>8
<1>4. CASE N = {}
  <2>1. Ends(w)
    BY <1>4 DEF Takes
  <2>2. CASE serial /\ operations # <<>>
    <3>1. PICK h, t : h = Head(operations) /\ t = Tail(operations)
      OBVIOUS
    <3>2. work' = [work EXCEPT ![w] = h] /\ operations' = t /\ processing' = processing
      BY <2>1, <2>2, <3>1 DEF Ends
    <3>3. Len(operations) \in Nat /\ Len(operations) >= 1 /\ DOMAIN operations = 1..Len(operations)
      BY <1>2, <2>2
    <3>4. /\ h = operations[1] /\ 1 \in DOMAIN operations /\ h \in Managed \cup Imports
          /\ t \in Seq(Managed \cup Imports) /\ Len(t) = Len(operations) - 1
          /\ \A i \in 1..Len(operations) - 1 : t[i] = operations[i + 1]
      BY <1>2, <2>2, <3>1, <3>3
    <3>5. DOMAIN t = 1..Len(operations) - 1 /\ \A i \in DOMAIN t : i + 1 \in DOMAIN operations /\ i + 1 # 1
      BY <3>3, <3>4
    <3>6. h # Idle
      BY <3>4, JobIs
    <3>7. work' \in [Workers -> Managed \cup Imports \cup {Idle}] /\ work'[w] = h
          /\ \A v \in Workers \ {w} : work'[v] = work[v]
      BY <1>2, <3>2, <3>4
    <3>8. Busy' = {w} /\ Busy = {w}
      BY <1>1, <2>2, <3>6, <3>7 DEF Busy
    <3>9. \A i \in DOMAIN t : t[i] = operations[i + 1] /\ t[i].id # h.id
      BY <3>4, <3>5 DEF QueueInv
    <3>10. \A i, j \in DOMAIN t : t[i].id = t[j].id => i = j
      <4>1. ASSUME NEW i \in DOMAIN t, NEW j \in DOMAIN t, t[i].id = t[j].id PROVE i = j
        <5>1. i + 1 = j + 1 /\ i \in Nat /\ j \in Nat
          BY <3>3, <3>5, <3>9, <4>1 DEF QueueInv
        <5> QED BY <5>1
      <4> QED BY <4>1
    <3>11. QueueInv'
      <4>1. serial' /\ processing' /\ \E v \in Workers : Busy' = {v}
        BY <1>1, <2>2, <3>2, <3>8
      <4>2. \A v, u \in Busy' : work'[v].id = work'[u].id => v = u
        BY <3>8
      <4>3. \A v \in Busy', i \in DOMAIN operations' : work'[v].id # operations'[i].id
        BY <3>2, <3>7, <3>8, <3>9
      <4>4. \A i \in DOMAIN operations' : Waiting(operations'[i])
        BY <3>2, <3>5, <3>9 DEF QueueInv
      <4> QED BY <3>2, <3>10, <4>1, <4>2, <4>3, <4>4 DEF QueueInv
    <3>12. ASSUME NEW p \in Jobs' PROVE p \in Others(w)
      <4>1. \E i \in DOMAIN operations : p = operations[i]
        <5>1. CASE \E v \in Busy' : p = work'[v]
          BY <3>4, <3>7, <3>8, <5>1
        <5>2. CASE \E i \in DOMAIN t : p = t[i]
          BY <3>5, <3>9, <5>2
        <5> QED BY <3>2, <3>12, <5>1, <5>2 DEF Jobs
      <4> QED BY <1>1, <4>1 DEF Others, Jobs, QueueInv
    <3> QED BY <1>4, <3>2, <3>4, <3>7, <3>11, <3>12
  <2>3. CASE ~(serial /\ operations # <<>>)
    <3>1. work' = [work EXCEPT ![w] = Idle] /\ operations' = operations /\ ~processing'
      BY <2>1, <2>3 DEF Ends
    <3>2. work' \in [Workers -> Managed \cup Imports \cup {Idle}] /\ work'[w] = Idle
          /\ \A v \in Workers \ {w} : work'[v] = work[v]
      BY <1>2, <3>1
    <3>3. Busy' = Busy \ {w} /\ \A v \in Busy' : work'[v] = work[v] /\ v # w
      BY <3>2 DEF Busy
    <3>4. operations = <<>> /\ DOMAIN operations = {}
      BY <2>3 DEF QueueInv
    <3>5. QueueInv'
      <4>1. serial' => Busy' = {}
        BY <1>1, <3>3
      <4>2. \A v, u \in Busy' : work'[v].id = work'[u].id => v = u
        BY <3>3 DEF QueueInv
      <4> QED BY <3>1, <3>4, <4>1, <4>2 DEF QueueInv
    <3>6. ASSUME NEW p \in Jobs' PROVE p \in Others(w)
      <4>1. PICK v \in Busy' : p = work'[v]
        BY <3>1, <3>4, <3>6 DEF Jobs
      <4>2. v \in Busy /\ v # w /\ p = work[v]
        BY <3>3, <4>1
      <4> QED BY <1>1, <4>2 DEF Others, Jobs, QueueInv
    <3> QED BY <1>2, <1>4, <3>1, <3>2, <3>5, <3>6
  <2> QED BY <2>2, <2>3
<1> QED BY <1>3, <1>4

-----------------------------------------------------------------------------
\* A step of worker w: what it does with its operation, the names that it makes, and what it
\* leaves of the imports of others.
MayMake(op, d) == d = op.to /\ (op.kind = "import" => op.step \in {"target", "move", "remove"})
Follows(n, op) == /\ Handles(n) /\ n.kind = op.kind /\ (n.kind # "import" => n.to = op.to)
                  /\ \A d : Clear(op, d) => Clear(n, d)
LeavesOthers(w) == /\ \A s : Safe(s) => Safe(s)'
                   /\ ~serial => \A p \in Others(w) : p.kind = "import" =>
                        /\ \A n : Here(p, n) => Here(p, n)' \/ Safe(<<p.id, n>>)' \/ Doomed(p)'
                        /\ Doomed(p) => At(p.temp)' = {}

\* Where an import moves a directory from, and to.
LEMMA ImportTo ==
  ASSUME SkillTypes, NEW op \in Managed \cup Imports, Handles(op), op.kind = "import",
         op.step \in {"target", "move", "remove"}
  PROVE  /\ op.to \in Library /\ op.to[2] = op.from[2] /\ \A j : Uses(op.to, j) => j = op.id
         /\ op.from \in Dirs /\ op.from = Dir(op.temp, op.from[2], <<>>) /\ op.from[2] # "bad"
<1>1. /\ op.from \in Dirs /\ op.from[1] = op.temp /\ ~IsBad(op.from) /\ op.temp \in TempPlaces /\ op.id \in Nat
      /\ op.to \in {Dir("online", op.from[2], <<>>), Dir("online", op.from[2], <<op.id>>)}
  BY JobIs DEF Handles
<1>2. op.from[2] \in Bases /\ op.from[2] # "bad" /\ op.from = Dir(op.temp, op.from[2], <<>>)
  BY <1>1, DirIs DEF IsBad
<1> QED BY <1>1, <1>2, ImportNames

\* A temporary directory that is gone for good stays so.
LEMMA DoomedStays ==
  ASSUME NEW w \in Workers, NEW N, SkillTypes, QueueInv, work[w].kind # "idle", Takes(w, N),
         UNCHANGED <<serial, imported>>, NEW p, Doomed(p), At(p.temp)' = {}
  PROVE  Doomed(p)'
<1>1. Jobs' \subseteq N \cup Others(w) /\ \A n \in N : n.id = work[w].id
  BY TakesIs
<1>2. work[w] \in Jobs
  BY WorkIs
<1>3. \A q \in Jobs' : \E r \in Jobs : q.id = r.id
  BY <1>1, <1>2 DEF Others
<1>4. PICK b \in imported : b.temp = p.temp /\ b.id # p.id /\ \A q \in Jobs : q.id # b.id
  BY DEF Doomed
<1>5. b \in imported' /\ \A q \in Jobs' : q.id # b.id
  BY <1>3, <1>4
<1> QED BY <1>4, <1>5 DEF Doomed

\* What a step of one operation has to show: what it makes is its own name, and it
\* leaves the others theirs.
LEMMA StepKeeps ==
  ASSUME ShelfInv, NEW w \in Workers, work[w].kind # "idle", NEW N, Takes(w, N),
         UNCHANGED <<platform, serial, requested, imported>>,
         DOMAIN disk' \subseteq Dirs, \A d \in DOMAIN disk' : d[1] \in Shelves => d \in Library,
         \A d \in DOMAIN disk' \ DOMAIN disk : d[3] = <<>> \/ MayMake(work[w], d),
         \A n \in N : Follows(n, work[w]),
         \A n \in N : \A d \in DOMAIN disk' \ DOMAIN disk : Clear(n, d),
         serial => \A n \in N : FreeFor(n)',
         Handled => /\ \A n \in N : WholeOf(n)'
                    /\ \A s \in owed' : Safe(s)'
                    /\ LeavesOthers(w)
  PROVE  ShelfInv'
<1>1. /\ SkillTypes /\ QueueInv /\ ImportsKnown /\ NamesClear /\ TargetFree
      /\ \A op \in Jobs : Handles(op)
      /\ Handled => ImportsWhole /\ OwedSafe
  BY DEF ShelfInv
<1>2. /\ operations' \in Seq(Managed \cup Imports)
      /\ work' \in [Workers -> Managed \cup Imports \cup {Idle}]
      /\ QueueInv'
      /\ Jobs' \subseteq N \cup Others(w)
      /\ \A n \in N : n \in Managed \cup Imports /\ n.id = work[w].id
  BY <1>1, TakesIs
<1>3. /\ work[w] \in Jobs /\ work[w] \in Managed \cup Imports
      /\ serial => \A p \in Others(w) : Waiting(p)
      /\ \A p \in Jobs : p \in Managed \cup Imports
      /\ \A p \in Others(w) : p \in Jobs /\ p.id # work[w].id
  BY <1>1, WorkIs DEF Others
<1>4. SkillTypes'
  BY <1>1, <1>2 DEF SkillTypes
<1>5. ImportsKnown'
  BY <1>1 DEF ImportsKnown
<1>6. \A op \in Jobs' : Handles(op)'
  <2>1. \A op \in Jobs' : Handles(op)
    BY <1>1, <1>2, <1>3 DEF Follows
  <2> QED BY <2>1 DEF Handles
<1>7. NamesClear'
  <2>1. ASSUME NEW d \in DOMAIN disk' PROVE \A i \in DOMAIN d[3] : d[3][i] \in 1..requested
    <3>1. CASE d \in DOMAIN disk
      BY <1>1, <3>1 DEF NamesClear
    <3>2. CASE d[3] = <<>>
      BY <3>2
    <3>3. CASE MayMake(work[w], d)
      <4>1. CASE work[w].kind # "import"
        BY <1>1, <1>3, <3>3, <4>1 DEF NamesClear, MayMake
      <4>2. CASE work[w].kind = "import"
        <5>1. \A j : Uses(d, j) => j = work[w].id
          BY <1>1, <1>3, <3>3, <4>2, ImportTo DEF MayMake
        <5>2. work[w].id \in 1..requested
          BY <1>1, <1>3 DEF Handles
        <5> QED BY <5>1, <5>2 DEF Uses
      <4> QED BY <4>1, <4>2
    <3> QED BY <3>1, <3>2, <3>3
  <2>2. ASSUME NEW op \in Jobs', NEW d \in DOMAIN disk' PROVE Clear(op, d)
    <3>1. CASE d \in DOMAIN disk
      <4>1. \A p \in Jobs : Clear(p, d)
        BY <1>1, <3>1 DEF NamesClear
      <4>2. CASE op \in N
        BY <1>3, <4>1, <4>2 DEF Follows
      <4>3. CASE op \in Others(w)
        BY <1>3, <4>1, <4>3
      <4> QED BY <1>2, <4>2, <4>3
    <3>2. CASE d \notin DOMAIN disk
      <4>1. CASE op \in N
        BY <3>2, <4>1
      <4>2. CASE op \in Others(w)
        <5>1. CASE d[3] = <<>>
          BY <5>1, UsesNothing DEF Clear
        <5>2. CASE MayMake(work[w], d) /\ work[w].kind # "import"
          BY <1>1, <1>3, <4>2, <5>2 DEF MayMake, NamesClear
        <5>3. CASE MayMake(work[w], d) /\ work[w].kind = "import"
          <6>1. \A j : Uses(d, j) => j = work[w].id
            BY <1>1, <1>3, <5>3, ImportTo DEF MayMake
          <6> QED BY <1>3, <4>2, <6>1 DEF Clear
        <5> QED BY <3>2, <5>1, <5>2, <5>3
      <4> QED BY <1>2, <4>1, <4>2
    <3> QED BY <3>1, <3>2
  <2>3. ASSUME NEW op \in Jobs', NEW p \in Jobs', op.id # p.id, p.kind # "import" PROVE Clear(op, p.to)
    <3>1. PICK o \in Jobs : o.id = op.id /\ (Clear(o, p.to) => Clear(op, p.to))
      BY <1>2, <1>3 DEF Follows
    <3>2. PICK q \in Jobs : q.id = p.id /\ q.to = p.to /\ q.kind # "import"
      BY <1>2, <1>3, <2>3 DEF Follows
    <3> QED BY <1>1, <2>3, <3>1, <3>2 DEF NamesClear
  <2>4. ASSUME NEW p \in Jobs', p.kind # "import" PROVE \A i \in DOMAIN p.to[3] : p.to[3][i] \in 1..requested
    <3>1. PICK q \in Jobs : q.to = p.to /\ q.kind # "import"
      BY <1>2, <1>3, <2>4 DEF Follows
    <3> QED BY <1>1, <3>1 DEF NamesClear
  <2> QED BY <2>1, <2>2, <2>3, <2>4 DEF NamesClear, Clear, Remaining
<1>8. TargetFree'
  <2>1. ASSUME serial, NEW op \in Jobs' PROVE FreeFor(op)'
    <3>1. CASE op \in N
      BY <2>1, <3>1
    <3>2. CASE op \in Others(w)
      <4>1. op.step \in {"check", "extract"}
        BY <1>3, <2>1, <3>2 DEF Waiting
      <4> QED BY <4>1 DEF FreeFor
    <3> QED BY <1>2, <3>1, <3>2
  <2> QED BY <2>1 DEF TargetFree
<1>9. ASSUME Handled' PROVE ImportsWhole' /\ OwedSafe'
  <2>1. Handled
    BY <1>9 DEF Handled, Crowded
  <2>2. OwedSafe'
    BY <2>1 DEF OwedSafe
  <2>3. ASSUME NEW op \in Jobs' PROVE WholeOf(op)'
    <3>1. CASE op \in N
      BY <2>1, <3>1
    <3>2. CASE op \in Others(w) /\ serial
      <4>1. op.step \in {"check", "extract"} /\ op \in Managed \cup Imports
        BY <1>3, <3>2 DEF Waiting
      <4>2. ~(op.kind = "import" /\ op.step \notin {"extract", "clean"})
        BY <4>1, JobIs
      <4> QED BY <4>2 DEF WholeOf
    <3>3. CASE op \in Others(w) /\ ~serial
      <4>1. WholeOf(op)
        BY <1>1, <1>3, <2>1, <3>3 DEF ImportsWhole
      <4>2. SUFFICES ASSUME op.kind = "import", op.step \notin {"extract", "clean"}, NEW n \in op.zip
                     PROVE  \/ Safe(<<op.id, n>>)'
                            \/ /\ op.step # "list" => Dir(op.temp, n, <<>>) \in Remaining(op)
                               /\ Here(op, n)' \/ Doomed(op)'
        BY DEF WholeOf, Remaining
      <4>3. CASE Safe(<<op.id, n>>)
        BY <2>1, <4>3 DEF LeavesOthers
      <4>4. CASE ~Safe(<<op.id, n>>)
        <5>1. op.step # "list" => Dir(op.temp, n, <<>>) \in Remaining(op)
          BY <4>1, <4>2, <4>4 DEF WholeOf
        <5>2. CASE Here(op, n)
          BY <2>1, <3>3, <4>2, <5>1, <5>2 DEF LeavesOthers
        <5>3. CASE Doomed(op)
          <6>1. At(op.temp)' = {}
            BY <2>1, <3>3, <4>2, <5>3 DEF LeavesOthers
          <6>2. Doomed(op)'
            BY <1>1, <5>3, <6>1, DoomedStays
          <6> QED BY <5>1, <6>2
        <5> QED BY <4>1, <4>2, <4>4, <5>2, <5>3 DEF WholeOf
      <4> QED BY <4>3, <4>4
    <3> QED BY <1>2, <3>1, <3>2, <3>3
  <2> QED BY <2>2, <2>3 DEF ImportsWhole
<1> QED BY <1>2, <1>4, <1>5, <1>6, <1>7, <1>8, <1>9 DEF ShelfInv

-----------------------------------------------------------------------------
\* Operations that go on.
LEMMA ManagedGoesOn ==
  ASSUME ShelfInv, NEW op \in Jobs, op \in Managed \cup Imports, op.kind # "import", op.step # "remove",
         NEW step \in {"check", "target", "copy", "move", "remove"},
         op.kind = "copy" => step = "copy", op.kind = "archive" => step \in {"move", "remove"},
         op.kind \in {"rename", "unarchive"} => step \in {"target", "move", "remove"},
         platform = "posix" => step # "remove"
  PROVE  LET n == [op EXCEPT !.step = step]
         IN n \in Managed \cup Imports /\ Follows(n, op) /\ WholeOf(n)
<1>1. PICK n : n = [op EXCEPT !.step = step]
  OBVIOUS
<1>2. /\ n.kind = op.kind /\ n.from = op.from /\ n.to = op.to /\ n.step = step /\ n.id = op.id
      /\ n \in Managed \cup Imports
  BY <1>1, StepIs
<1>3. Handles(op)
  BY DEF ShelfInv
<1>4. op.kind \in {"rename", "copy", "archive", "unarchive"}
  BY JobIs
<1>5. Handles(n)
  BY <1>2, <1>3, <1>4 DEF Handles
<1>6. \A d : Clear(op, d) => Clear(n, d)
  BY <1>2 DEF Clear
<1>7. WholeOf(n)
  BY <1>2 DEF WholeOf
<1> QED BY <1>1, <1>2, <1>5, <1>6, <1>7 DEF Follows

\* An import that has no more to do than before takes no name from another.
LEMMA ImportFollows ==
  ASSUME NEW op \in Managed \cup Imports, NEW n \in Managed \cup Imports, op.kind = "import", n.kind = "import",
         n.id = op.id, Handles(n), n.step # "extract", n.step = "list" => op.step = "extract",
         op.step \notin {"extract", "list"} => Remaining(n) \subseteq Remaining(op)
  PROVE  Follows(n, op)
<1>1. \A d : Clear(op, d) => Clear(n, d)
  BY DEF Clear
<1> QED BY <1>1 DEF Follows

\* The import goes to another step with what it has to do.
LEMMA ImportGoesOn ==
  ASSUME NEW op \in Managed \cup Imports, Handles(op), op.kind = "import",
         NEW step \in {"list", "next", "move", "remove", "clean"},
         step = "list" => op.step = "extract", op.step = "extract" => step \in {"list", "clean"},
         step = "move" => op.step = "target", op.step = "list" => step = "clean",
         step = "remove" => op.step \in {"target", "move"},
         platform = "posix" => step # "remove"
  PROVE  LET n == [op EXCEPT !.step = step]
         IN n \in Managed \cup Imports /\ Follows(n, op)
<1>1. PICK n : n = [op EXCEPT !.step = step]
  OBVIOUS
<1>2. /\ n.kind = op.kind /\ n.from = op.from /\ n.to = op.to /\ n.step = step /\ n.id = op.id
      /\ n.todo = op.todo /\ n.temp = op.temp /\ n.zip = op.zip /\ n \in Managed \cup Imports
  BY <1>1, StepIs
<1>3. Handles(n)
  BY <1>2 DEF Handles
<1>4. op.step \notin {"extract", "list"} => Remaining(n) \subseteq Remaining(op)
  BY <1>2 DEF Remaining
<1> QED BY <1>1, <1>2, <1>3, <1>4, ImportFollows

\* The target of a copy or of archiving is never there already.
LEMMA NameOfItsOwn ==
  ASSUME ShelfInv, NEW op \in Jobs, op \in Managed \cup Imports, op.kind \in {"copy", "archive"}, op.step # "remove"
  PROVE  op.to \notin DOMAIN disk /\ op.to # op.from /\ Uses(op.to, op.id)
<1>1. op.from \in Library /\ op.to \in Library /\ op.id \in Nat /\ op.to[3] = Append(op.from[3], op.id)
  BY JobIs DEF ShelfInv, Handles
<1>2. PICK s, t : s = op.from[3] /\ t = op.to[3]
  OBVIOUS
<1>3. s \in Seq(Nat) /\ t = Append(s, op.id)
  BY <1>1, <1>2, LibraryIs, DirIs
<1>4. Len(s) + 1 \in DOMAIN t /\ t[Len(s) + 1] = op.id /\ Len(t) = Len(s) + 1 /\ Len(s) \in Nat
  BY <1>1, <1>3
<1>5. Uses(op.to, op.id)
  BY <1>2, <1>4 DEF Uses
<1>6. op.to # op.from
  BY <1>2, <1>4
<1>7. op.to \notin DOMAIN disk
  BY <1>5 DEF ShelfInv, NamesClear, Clear
<1> QED BY <1>5, <1>6, <1>7

-----------------------------------------------------------------------------
\* Steps that leave the directories as they are.
LEMMA QuietKeeps ==
  ASSUME ShelfInv, NEW w \in Workers, work[w].kind # "idle", NEW N, Takes(w, N),
         UNCHANGED <<platform, serial, requested, imported, disk>>,
         \A n \in N : Follows(n, work[w]),
         serial => \A n \in N : FreeFor(n),
         Handled => /\ \A n \in N : WholeOf(n)
                    /\ \A s \in owed' : Safe(s)
  PROVE  ShelfInv'
<1>1. SkillTypes /\ QueueInv
  BY DEF ShelfInv
<1>2. \A p : Doomed(p) => Doomed(p)'
  <2>1. ASSUME NEW p, Doomed(p) PROVE Doomed(p)'
    <3>1. At(p.temp)' = {}
      BY <2>1 DEF Doomed, At
    <3> QED BY <1>1, <2>1, <3>1, DoomedStays
  <2> QED BY <2>1
<1>3. \A s : Safe(s) => Safe(s)'
  BY DEF Safe
<1>4. \A p, n : Here(p, n) => Here(p, n)'
  BY DEF Here
<1>5. ASSUME NEW n, WholeOf(n) PROVE WholeOf(n)'
  BY <1>2, <1>3, <1>4, <1>5 DEF WholeOf, Remaining
<1>6. Handled => /\ \A n \in N : WholeOf(n)'
                 /\ \A s \in owed' : Safe(s)'
                 /\ LeavesOthers(w)
  <2>1. \A p : Doomed(p) => At(p.temp)' = {}
    BY <1>2 DEF Doomed
  <2> QED BY <1>3, <1>4, <1>5, <2>1 DEF LeavesOthers
<1>7. serial => \A n \in N : FreeFor(n)'
  BY DEF FreeFor
<1>8. DOMAIN disk' \subseteq Dirs /\ \A d \in DOMAIN disk' : d[1] \in Shelves => d \in Library
  BY <1>1 DEF SkillTypes
<1>9. DOMAIN disk' \ DOMAIN disk = {}
  OBVIOUS
<1> QED BY <1>6, <1>7, <1>8, <1>9, StepKeeps

\* CheckSource keeps the invariant.
LEMMA CheckSourceKeeps ==
  ASSUME ShelfInv, NEW w \in Workers, CheckSource(w)
  PROVE  ShelfInv'
<1>1. PICK op : op = work[w]
  OBVIOUS
<1>2. /\ op.kind # "idle" /\ op.step = "check"
      /\ UNCHANGED <<platform, serial, requested, imported, disk, owed>>
  BY <1>1 DEF CheckSource, Unmoved, Managing
<1>3. SkillTypes /\ QueueInv /\ Handles(op) /\ op \in Jobs /\ op \in Managed \cup Imports
  BY <1>1, <1>2, WorkIs DEF ShelfInv
<1>4. op.kind \in {"rename", "copy", "archive", "unarchive"}
  BY <1>2, <1>3, JobIs
<1>5. Handled => \A s \in owed' : Safe(s)
  BY <1>2 DEF ShelfInv, OwedSafe
<1>6. CASE ~FileExists(op.from)
  <2>1. Takes(w, {})
    BY <1>1, <1>6 DEF CheckSource, Takes
  <2> QED BY <1>1, <1>2, <1>5, <2>1, QuietKeeps
<1>7. CASE FileExists(op.from)
  <2>1. PICK step : step = CASE op.kind = "copy"    -> "copy"
                             [] op.kind = "archive" -> "move"
                             [] OTHER               -> "target"
    OBVIOUS
  <2>2. /\ step \in {"copy", "move", "target"} /\ (op.kind = "copy" => step = "copy")
        /\ (op.kind = "archive" <=> step = "move")
        /\ (op.kind \in {"rename", "unarchive"} => step = "target")
    BY <1>4, <2>1
  <2>3. PICK n : n = [op EXCEPT !.step = step]
    OBVIOUS
  <2>4. n \in Managed \cup Imports /\ Follows(n, op) /\ WholeOf(n)
    BY <1>2, <1>3, <1>4, <2>2, <2>3, ManagedGoesOn
  <2>5. n.id = op.id /\ n.step = step /\ n.to = op.to
    BY <1>3, <2>3, StepIs
  <2>6. Takes(w, {n})
    <3>1. Continues(w, n)
      BY <1>1, <1>7, <2>1, <2>3 DEF CheckSource, GoesTo
    <3> QED BY <1>1, <2>4, <2>5, <3>1 DEF Takes
  <2>7. FreeFor(n)
    BY <1>2, <1>3, <2>2, <2>5, NameOfItsOwn DEF FreeFor
  <2> QED BY <1>1, <1>2, <1>5, <2>4, <2>6, <2>7, QuietKeeps
<1> QED BY <1>6, <1>7

\* CheckTarget keeps it: the second name of an import is free.
LEMMA CheckTargetKeeps ==
  ASSUME ShelfInv, NEW w \in Workers, CheckTarget(w)
  PROVE  ShelfInv'
<1>1. PICK op : op = work[w]
  OBVIOUS
<1>2. /\ op.kind # "idle" /\ op.step = "target"
      /\ UNCHANGED <<platform, serial, requested, imported, disk, owed>>
  BY <1>1 DEF CheckTarget, Unmoved, Managing
<1>3. SkillTypes /\ QueueInv /\ Handles(op) /\ op \in Jobs /\ op \in Managed \cup Imports
  BY <1>1, <1>2, WorkIs DEF ShelfInv
<1>4. Handled => /\ \A s \in owed' : Safe(s)
                 /\ WholeOf(op)
  BY <1>2, <1>3 DEF ShelfInv, OwedSafe, ImportsWhole
<1>5. CASE ~FileExists(op.to)
  <2>1. PICK n : n = [op EXCEPT !.step = "move"]
    OBVIOUS
  <2>2. /\ n.kind = op.kind /\ n.from = op.from /\ n.to = op.to /\ n.step = "move" /\ n.id = op.id
        /\ n.temp = op.temp /\ n.zip = op.zip /\ n.todo = op.todo
    BY <1>3, <2>1, StepIs
  <2>3. n \in Managed \cup Imports /\ Follows(n, op) /\ (Handled => WholeOf(n))
    <3>1. CASE op.kind # "import"
      <4>1. op.kind \in {"rename", "unarchive"}
        BY <1>2, <1>3, <3>1, JobIs DEF Handles
      <4> QED BY <1>2, <1>3, <2>1, <3>1, <4>1, ManagedGoesOn
    <3>2. CASE op.kind = "import"
      <4>1. n \in Managed \cup Imports /\ Follows(n, op)
        BY <1>2, <1>3, <2>1, <3>2, ImportGoesOn
      <4>2. Remaining(n) = Remaining(op)
        BY <1>2, <2>2 DEF Remaining
      <4>3. WholeOf(op) => WholeOf(n)
        BY <1>2, <2>2, <4>2 DEF WholeOf, Here, Doomed
      <4> QED BY <1>4, <4>1, <4>3
    <3> QED BY <3>1, <3>2
  <2>4. Takes(w, {n})
    <3>1. Continues(w, n)
      BY <1>1, <1>5, <2>1 DEF CheckTarget, GoesTo
    <3> QED BY <1>1, <2>2, <2>3, <3>1 DEF Takes
  <2>5. FreeFor(n)
    BY <1>5, <2>2 DEF FreeFor, FileExists
  <2> QED BY <1>1, <1>2, <1>4, <2>3, <2>4, <2>5, QuietKeeps
<1>6. CASE FileExists(op.to) /\ op.kind = "import"
  <2>1. PICK e : e = Suffixed("online", op.to, op.id)
    OBVIOUS
  <2>2. PICK m : m = [op EXCEPT !.to = e]
    OBVIOUS
  <2>3. PICK n : n = [m EXCEPT !.step = "move"]
    OBVIOUS
  <2>4. /\ op.from \in Dirs \ op.todo /\ op.from[1] = op.temp /\ ~IsBad(op.from)
        /\ op.to = Dir("online", op.from[2], <<>>) /\ op.id \in Nat
    BY <1>2, <1>3, <1>6, JobIs DEF Handles
  <2>5. e = Dir("online", op.from[2], <<op.id>>)
    BY <2>1, <2>4 DEF Suffixed, Dir
  <2>6. op.from[2] \in Bases /\ op.from[2] # "bad"
    BY <2>4, DirIs DEF IsBad
  <2>7. e \in Library /\ e[2] = op.from[2] /\ Uses(e, op.id)
    <3>1. PICK b, k : b = op.from[2] /\ k = op.id
      OBVIOUS
    <3>2. b \in Bases /\ b # "bad" /\ k \in Nat /\ e = Dir("online", b, <<k>>)
      BY <2>4, <2>5, <2>6, <3>1
    <3> QED BY <3>1, <3>2, SecondName
  <2>8. m = [kind |-> op.kind, from |-> op.from, to |-> e, step |-> op.step, id |-> op.id,
             temp |-> op.temp, zip |-> op.zip, todo |-> op.todo]
    <3>1. op = [kind |-> op.kind, from |-> op.from, to |-> op.to, step |-> op.step, id |-> op.id,
                temp |-> op.temp, zip |-> op.zip, todo |-> op.todo]
      BY <1>3, JobIs
    <3> QED BY <2>2, <3>1
  <2>9. n = [kind |-> op.kind, from |-> op.from, to |-> e, step |-> "move", id |-> op.id,
             temp |-> op.temp, zip |-> op.zip, todo |-> op.todo]
    BY <2>3, <2>8
  <2>10. /\ n.kind = op.kind /\ n.from = op.from /\ n.to = e /\ n.step = "move" /\ n.id = op.id
         /\ n.temp = op.temp /\ n.zip = op.zip /\ n.todo = op.todo
    BY <2>9
  <2>11. n \in Managed \cup Imports
    <3>1. /\ op.kind = "import" /\ op.from \in Dirs \cup {<<>>} /\ op.id \in Nat
          /\ op.temp \in TempPlaces /\ op.zip \in SUBSET ZipNames /\ op.todo \in SUBSET Dirs
      BY <1>3, <1>6, JobIs
    <3> QED BY <2>7, <2>9, <3>1 DEF Imports
  <2>12. Handles(n)
    BY <1>2, <1>3, <1>6, <2>5, <2>10 DEF Handles
  <2>13. Remaining(n) = Remaining(op)
    BY <1>2, <2>10 DEF Remaining
  <2>14. Follows(n, op)
    BY <1>2, <1>3, <1>6, <2>10, <2>11, <2>12, <2>13, ImportFollows
  <2>15. WholeOf(op) => WholeOf(n)
    BY <1>2, <2>10, <2>13 DEF WholeOf, Here, Doomed
  <2>16. Takes(w, {n})
    <3>1. Continues(w, [op EXCEPT !.to = Suffixed("online", @, op.id), !.step = "move"])
      BY <1>1, <1>6 DEF CheckTarget
    <3>2. Continues(w, n)
      BY <2>1, <2>2, <2>3, <3>1
    <3> QED BY <1>1, <2>10, <2>11, <3>2 DEF Takes
  <2>17. FreeFor(n)
    <3>2. op.from \in Remaining(op)
      BY <1>2 DEF Remaining
    <3>3. e \notin DOMAIN disk
      BY <1>3, <1>6, <2>7, <3>2 DEF ShelfInv, NamesClear, Clear
    <3> QED BY <2>10, <3>3 DEF FreeFor
  <2> QED BY <1>1, <1>2, <1>4, <2>14, <2>15, <2>16, <2>17, QuietKeeps
<1>7. CASE FileExists(op.to) /\ op.kind # "import"
  <2>1. Takes(w, {})
    BY <1>1, <1>7 DEF CheckTarget, Takes
  <2> QED BY <1>1, <1>2, <1>4, <2>1, QuietKeeps
<1> QED BY <1>5, <1>6, <1>7

\* An import that fails cleans up, any other operation is over.
LEMMA FailsKeeps ==
  ASSUME ShelfInv, NEW w \in Workers, work[w].kind # "idle", Fails(w),
         UNCHANGED <<platform, serial, requested, imported, disk, owed>>
  PROVE  ShelfInv'
<1>1. PICK op : op = work[w]
  OBVIOUS
<1>2. SkillTypes /\ QueueInv /\ Handles(op) /\ op \in Jobs /\ op \in Managed \cup Imports
  BY <1>1, WorkIs DEF ShelfInv
<1>3. Handled => \A s \in owed' : Safe(s)
  BY DEF ShelfInv, OwedSafe
<1>4. CASE op.kind = "import"
  <2>1. PICK n : n = [op EXCEPT !.step = "clean"]
    OBVIOUS
  <2>2. n.step = "clean" /\ n.id = op.id
    BY <1>2, <2>1, StepIs
  <2>3. n \in Managed \cup Imports /\ Follows(n, op)
    BY <1>2, <1>4, <2>1, ImportGoesOn
  <2>4. Takes(w, {n})
    <3>1. Continues(w, n)
      BY <1>1, <1>4, <2>1 DEF Fails, GoesTo
    <3> QED BY <1>1, <2>2, <2>3, <3>1 DEF Takes
  <2>5. FreeFor(n) /\ WholeOf(n)
    BY <2>2 DEF FreeFor, WholeOf
  <2> QED BY <1>1, <1>3, <2>3, <2>4, <2>5, QuietKeeps
<1>5. CASE op.kind # "import"
  <2>1. Takes(w, {})
    BY <1>1, <1>5 DEF Fails, Takes
  <2> QED BY <1>3, <2>1, QuietKeeps
<1> QED BY <1>4, <1>5

\* ListZip: whatever the import unpacked is now in what it has to do.
LEMMA ListZipKeeps ==
  ASSUME ShelfInv, NEW w \in Workers, ListZip(w)
  PROVE  ShelfInv'
<1>1. PICK op : op = work[w]
  OBVIOUS
<1>2. /\ op.kind = "import" /\ op.step = "list"
      /\ UNCHANGED <<platform, serial, requested, imported, disk, owed>>
  BY <1>1 DEF ListZip, Unmoved, Managing
<1>3. SkillTypes /\ QueueInv /\ Handles(op) /\ op \in Jobs /\ op \in Managed \cup Imports
  BY <1>1, <1>2, WorkIs DEF ShelfInv
<1>4. Handled => /\ \A s \in owed' : Safe(s)
                 /\ WholeOf(op)
  BY <1>2, <1>3 DEF ShelfInv, OwedSafe, ImportsWhole
<1>5. PICK A, step : A = At(op.temp) /\ step = IF A = {} THEN "clean" ELSE "next"
  OBVIOUS
<1>6. PICK n : n = [op EXCEPT !.todo = A, !.step = step]
  OBVIOUS
<1>7. n = [kind |-> op.kind, from |-> op.from, to |-> op.to, step |-> step, id |-> op.id,
           temp |-> op.temp, zip |-> op.zip, todo |-> A]
  <2>1. op = [kind |-> op.kind, from |-> op.from, to |-> op.to, step |-> op.step, id |-> op.id,
              temp |-> op.temp, zip |-> op.zip, todo |-> op.todo]
    BY <1>3, JobIs
  <2> QED BY <1>6, <2>1
<1>8. /\ n.kind = op.kind /\ n.from = op.from /\ n.to = op.to /\ n.step = step /\ n.id = op.id
      /\ n.temp = op.temp /\ n.zip = op.zip /\ n.todo = A
  BY <1>7
<1>9. A \in SUBSET Dirs /\ \A d \in A : d[1] = op.temp
  BY <1>3, <1>5 DEF At, SkillTypes
<1>10. n \in Managed \cup Imports
  <2>1. /\ op.from \in Dirs \cup {<<>>} /\ op.to \in Library \cup {<<>>} /\ op.id \in Nat
        /\ op.temp \in TempPlaces /\ op.zip \in SUBSET ZipNames
    BY <1>2, <1>3, JobIs
  <2> QED BY <1>2, <1>5, <1>7, <1>9, <2>1 DEF Imports
<1>11. Handles(n)
  BY <1>2, <1>3, <1>5, <1>8, <1>9 DEF Handles
<1>12. Follows(n, op)
  BY <1>2, <1>3, <1>5, <1>8, <1>10, <1>11, ImportFollows
<1>13. Takes(w, {n})
  <2>1. Continues(w, [op EXCEPT !.todo = At(op.temp), !.step = IF At(op.temp) = {} THEN "clean" ELSE "next"])
    BY <1>1 DEF ListZip
  <2>2. Continues(w, n)
    BY <1>5, <1>6, <2>1
  <2> QED BY <1>1, <1>8, <1>10, <2>2 DEF Takes
<1>14. FreeFor(n)
  BY <1>5, <1>8 DEF FreeFor
<1>15. ASSUME Handled PROVE WholeOf(n)
  <2>1. SUFFICES ASSUME step = "next", NEW m \in op.zip, ~Safe(<<op.id, m>>)
                 PROVE  Dir(op.temp, m, <<>>) \in Remaining(n) /\ Here(n, m)
    BY <1>5, <1>8 DEF WholeOf
  <2>2. Here(op, m)
    <3>1. Here(op, m) \/ Doomed(op)
      BY <1>2, <1>4, <1>15, <2>1 DEF WholeOf
    <3> QED BY <1>5, <2>1, <3>1 DEF Doomed
  <2>3. Dir(op.temp, m, <<>>) \in A
    BY <1>5, <2>2 DEF Here, At, Dir
  <2> QED BY <1>8, <2>2, <2>3 DEF Here, Remaining
<1> QED BY <1>1, <1>2, <1>4, <1>12, <1>13, <1>14, <1>15, QuietKeeps

\* NextEntry: when nothing is left to do, all the import's skills are in the
\* library.
LEMMA NextEntryKeeps ==
  ASSUME ShelfInv, NEW w \in Workers, NextEntry(w)
  PROVE  ShelfInv'
<1>1. PICK op : op = work[w]
  OBVIOUS
<1>2. /\ op.kind = "import" /\ op.step = "next"
      /\ UNCHANGED <<platform, serial, requested, imported, disk>>
  BY <1>1 DEF NextEntry, Managing
<1>3. SkillTypes /\ QueueInv /\ Handles(op) /\ op \in Jobs /\ op \in Managed \cup Imports
  BY <1>1, <1>2, WorkIs DEF ShelfInv
<1>4. Handled => /\ \A s \in owed : Safe(s)
                 /\ WholeOf(op)
  BY <1>3 DEF ShelfInv, OwedSafe, ImportsWhole
<1>5. CASE op.todo = {} /\ GoesTo(w, "clean") /\ owed' = owed \cup {<<op.id, n>> : n \in op.zip}
  <2>1. PICK n : n = [op EXCEPT !.step = "clean"]
    OBVIOUS
  <2>2. n.step = "clean" /\ n.id = op.id
    BY <1>3, <2>1, StepIs
  <2>3. n \in Managed \cup Imports /\ Follows(n, op)
    BY <1>2, <1>3, <2>1, ImportGoesOn
  <2>4. Takes(w, {n})
    <3>1. Continues(w, n)
      BY <1>1, <1>5, <2>1 DEF GoesTo
    <3> QED BY <1>1, <2>2, <2>3, <3>1 DEF Takes
  <2>5. FreeFor(n) /\ WholeOf(n)
    BY <2>2 DEF FreeFor, WholeOf
  <2>6. Remaining(op) = {}
    BY <1>2, <1>5 DEF Remaining
  <2>7. ASSUME Handled PROVE \A s \in owed' : Safe(s)
    <3>1. \A m \in op.zip : Safe(<<op.id, m>>)
      BY <1>2, <1>4, <2>6, <2>7 DEF WholeOf
    <3> QED BY <1>4, <1>5, <2>7, <3>1
  <2> QED BY <1>1, <1>2, <2>3, <2>4, <2>5, <2>7, QuietKeeps
<1>6. CASE GoesTo(w, "clean") /\ UNCHANGED owed
  <2>1. Fails(w)
    BY <1>1, <1>2, <1>6 DEF Fails
  <2> QED BY <1>1, <1>2, <1>6, <2>1, FailsKeeps
<1>7. ASSUME NEW d \in op.todo, ~IsBad(d), UNCHANGED owed,
             Continues(w, [op EXCEPT !.from = d, !.to = In("online", d), !.todo = @ \ {d}, !.step = "target"])
      PROVE  ShelfInv'
  <2>1. PICK e, T : e = In("online", d) /\ T = op.todo \ {d}
    OBVIOUS
  <2>2. PICK n : n = [op EXCEPT !.from = d, !.to = e, !.todo = T, !.step = "target"]
    OBVIOUS
  <2>3. n = [kind |-> op.kind, from |-> d, to |-> e, step |-> "target", id |-> op.id,
             temp |-> op.temp, zip |-> op.zip, todo |-> T]
    <3>1. op = [kind |-> op.kind, from |-> op.from, to |-> op.to, step |-> op.step, id |-> op.id,
                temp |-> op.temp, zip |-> op.zip, todo |-> op.todo]
      BY <1>3, JobIs
    <3> QED BY <2>2, <3>1
  <2>4. /\ n.kind = op.kind /\ n.from = d /\ n.to = e /\ n.step = "target" /\ n.id = op.id
        /\ n.temp = op.temp /\ n.zip = op.zip /\ n.todo = T
    BY <2>3
  <2>5. /\ op.id \in Nat /\ op.temp \in TempPlaces /\ op.zip \in SUBSET ZipNames /\ op.todo \in SUBSET Dirs
        /\ d \in Dirs /\ d[1] = op.temp /\ T \in SUBSET Dirs
    BY <1>2, <1>3, <1>7, <2>1, JobIs DEF Handles
  <2>6. d[3] = <<>> /\ d[2] \in Bases /\ d[2] # "bad"
    BY <1>7, <2>5, DirIs DEF IsBad
  <2>7. e = Dir("online", d[2], <<>>)
    BY <2>1, <2>6 DEF In
  <2>8. e \in Library
    <3>1. PICK b, k : b = d[2] /\ k = op.id
      OBVIOUS
    <3> QED BY <2>5, <2>6, <2>7, <3>1, ImportNames
  <2>9. n \in Managed \cup Imports
    BY <1>2, <2>3, <2>5, <2>8 DEF Imports
  <2>10. Handles(n)
    BY <1>2, <1>3, <1>7, <2>1, <2>4, <2>5, <2>7 DEF Handles
  <2>11. Remaining(n) = Remaining(op)
    BY <1>2, <1>7, <2>1, <2>4 DEF Remaining
  <2>12. Follows(n, op)
    BY <1>2, <1>3, <2>4, <2>9, <2>10, <2>11, ImportFollows
  <2>13. WholeOf(op) => WholeOf(n)
    BY <1>2, <2>4, <2>11 DEF WholeOf, Here, Doomed
  <2>14. Takes(w, {n})
    <3>1. Continues(w, n)
      BY <1>7, <2>1, <2>2
    <3> QED BY <1>1, <2>4, <2>9, <3>1 DEF Takes
  <2>15. FreeFor(n)
    BY <2>4 DEF FreeFor
  <2> QED BY <1>1, <1>2, <1>4, <1>7, <2>12, <2>13, <2>14, <2>15, QuietKeeps
<1>8. \/ op.todo = {} /\ GoesTo(w, "clean") /\ owed' = owed \cup {<<op.id, n>> : n \in op.zip}
      \/ GoesTo(w, "clean") /\ UNCHANGED owed
      \/ \E d \in op.todo :
            /\ ~IsBad(d) /\ UNCHANGED owed
            /\ Continues(w, [op EXCEPT !.from = d, !.to = In("online", d), !.todo = @ \ {d}, !.step = "target"])
  BY <1>1 DEF NextEntry
<1> QED BY <1>5, <1>6, <1>7, <1>8

-----------------------------------------------------------------------------
\* Steps that change the directories.  A directory f is moved to e, copied there, or removed
\* when its copy is there.
Moving(e, f) ==
    /\ e \in Library /\ e \in DOMAIN disk'
    /\ DOMAIN disk' \subseteq DOMAIN disk \cup {e} /\ DOMAIN disk \ {f} \subseteq DOMAIN disk'
    /\ \A d \in DOMAIN disk \cap DOMAIN disk' : disk'[d] = disk[d]
    /\ f \in DOMAIN disk => disk'[e] = disk[f]

\* Moving a directory loses no skill, and takes from an import only what is in the
\* library then.
LEMMA MovingKeeps ==
  ASSUME NEW e, NEW f, Moving(e, f)
  PROVE  /\ \A s : Safe(s) => Safe(s)'
         /\ \A p, n : Here(p, n) => Safe(<<p.id, n>>)' \/ (Here(p, n)' /\ Dir(p.temp, n, <<>>) # f)
         /\ \A p : p.temp \notin Shelves /\ At(p.temp) = {} => At(p.temp)' = {}
<1>1. ASSUME NEW s, Safe(s) PROVE Safe(s)'
  <2>1. PICK d \in DOMAIN disk : d \in Library /\ disk[d] = s
    BY <1>1 DEF Safe
  <2>2. CASE d = f
    BY <2>1, <2>2 DEF Moving, Safe
  <2>3. CASE d # f
    BY <2>1, <2>3 DEF Moving, Safe
  <2> QED BY <2>2, <2>3
<1>2. ASSUME NEW p, NEW n, Here(p, n)
      PROVE  Safe(<<p.id, n>>)' \/ (Here(p, n)' /\ Dir(p.temp, n, <<>>) # f)
  <2>1. PICK d : d = Dir(p.temp, n, <<>>)
    OBVIOUS
  <2>2. d \in DOMAIN disk /\ disk[d] = <<p.id, n>>
    BY <1>2, <2>1 DEF Here
  <2>3. CASE d = f
    BY <2>2, <2>3 DEF Moving, Safe
  <2>4. CASE d # f
    BY <2>1, <2>2, <2>4 DEF Moving, Here
  <2> QED BY <2>3, <2>4
<1>3. ASSUME NEW p, p.temp \notin Shelves, At(p.temp) = {} PROVE At(p.temp)' = {}
  <2>1. e[1] \in Shelves
    BY LibraryIs DEF Moving
  <2> QED BY <1>3, <2>1 DEF Moving, At
<1> QED BY <1>1, <1>2, <1>3

\* It fills no temporary directory, either.
LEMMA MovingLeavesOthers ==
  ASSUME SkillTypes, QueueInv, NEW w \in Workers, work[w].kind # "idle", NEW e, NEW f, Moving(e, f)
  PROVE  LeavesOthers(w)
<1>1. ASSUME NEW p \in Others(w), p.kind = "import" PROVE p.temp \notin Shelves
  <2>1. p \in Managed \cup Imports
    BY <1>1, WorkIs DEF Others
  <2>2. p.temp \in TempPlaces
    BY <1>1, <2>1, JobIs
  <2> QED BY <2>2, SkillAssumption DEF Shelves
<1>2. \A p : Doomed(p) => At(p.temp) = {}
  BY DEF Doomed
<1> QED BY <1>1, <1>2, MovingKeeps DEF LeavesOthers

\* The operation w moves, and is at n then.
MovedTo(n, op, step) ==
    /\ n.kind = op.kind /\ n.from = op.from /\ n.to = op.to /\ n.step = step /\ n.id = op.id
    /\ n.temp = op.temp /\ n.zip = op.zip /\ n.todo = op.todo

\* An import that has moved a directory is still whole.
LEMMA ImportMoved ==
  ASSUME SkillTypes, QueueInv, NEW w \in Workers, work[w].kind = "import", work[w].step \in {"move", "remove"},
         UNCHANGED <<serial, imported>>, NEW N, Takes(w, N), Moving(work[w].to, work[w].from),
         work[w].step = "move" => work[w].from \in DOMAIN disk, Handles(work[w]), WholeOf(work[w]),
         NEW n, NEW step \in {"next", "remove"}, MovedTo(n, work[w], step)
  PROVE  WholeOf(n)'
<1>1. PICK op : op = work[w]
  OBVIOUS
<1>2. /\ n.kind = op.kind /\ n.from = op.from /\ n.to = op.to /\ n.step = step /\ n.id = op.id
      /\ n.temp = op.temp /\ n.zip = op.zip /\ n.todo = op.todo
  BY <1>1 DEF MovedTo
<1>3. op \in Managed \cup Imports
  BY <1>1, WorkIs
<1>4. op.temp \notin Shelves /\ op.from[1] = op.temp
  <2>1. op.temp \in TempPlaces
    BY <1>1, <1>3, JobIs
  <2> QED BY <1>1, <2>1, SkillAssumption DEF Shelves, Handles
<1>5. SUFFICES ASSUME NEW m \in op.zip
               PROVE  \/ Safe(<<op.id, m>>)'
                      \/ /\ Dir(op.temp, m, <<>>) \in op.todo
                         /\ Here(op, m)' \/ Doomed(op)'
  BY <1>2 DEF WholeOf, Remaining, Here, Doomed, At
<1>6. CASE Safe(<<op.id, m>>)
  BY <1>1, <1>6, MovingKeeps
<1>7. CASE ~Safe(<<op.id, m>>)
  <2>1. /\ Dir(op.temp, m, <<>>) \in op.todo \cup (IF op.step = "move" THEN {op.from} ELSE {})
        /\ Here(op, m) \/ Doomed(op)
    BY <1>1, <1>7 DEF WholeOf, Remaining
  <2>2. CASE Here(op, m)
    <3>1. Safe(<<op.id, m>>)' \/ (Here(op, m)' /\ Dir(op.temp, m, <<>>) # op.from)
      BY <1>1, <2>2, MovingKeeps
    <3> QED BY <2>1, <3>1
  <2>3. CASE Doomed(op)
    <3>1. At(op.temp) = {}
      BY <2>3 DEF Doomed
    <3>2. op.step # "move"
      BY <1>1, <1>4, <3>1 DEF At
    <3>3. At(op.temp)' = {}
      BY <1>1, <1>4, <3>1, MovingKeeps
    <3>4. Doomed(op)'
      BY <1>1, <2>3, <3>3, DoomedStays
    <3> QED BY <2>1, <3>2, <3>4
  <2> QED BY <2>1, <2>2, <2>3
<1> QED BY <1>6, <1>7

\* The target of an operation is in the library.
LEMMA ToIs ==
  ASSUME SkillTypes, NEW op \in Managed \cup Imports, Handles(op), op.step \in {"copy", "target", "move", "remove"}
  PROVE  op.to \in Library /\ MayMake(op, op.to)
<1>1. CASE op.kind = "import"
  <2>1. op.step \in {"target", "move", "remove"}
    BY <1>1, JobIs
  <2> QED BY <1>1, <2>1, ImportTo DEF MayMake
<1>2. CASE op.kind # "import"
  BY <1>2, JobIs DEF MayMake
<1> QED BY <1>1, <1>2

\* What has been moved has left what the import has to do.
LEMMA MovedClear ==
  ASSUME SkillTypes, NEW op \in Managed \cup Imports, Handles(op), op.step \in {"move", "remove"},
         NEW n, NEW step \in {"next", "remove"}, MovedTo(n, op, step),
         op.kind # "import" => step = "remove"
  PROVE  Clear(n, op.to)
<1>1. n.kind = op.kind /\ n.step = step /\ n.id = op.id /\ n.todo = op.todo
  BY DEF MovedTo
<1>2. CASE op.kind # "import"
  BY <1>1, <1>2 DEF Clear
<1>3. CASE op.kind = "import"
  <2>1. Remaining(n) = op.todo
    BY <1>1 DEF Remaining
  <2>2. op.to[2] = op.from[2] /\ op.from = Dir(op.temp, op.from[2], <<>>) /\ op.from \notin op.todo
    BY <1>3, ImportTo DEF Handles
  <2>3. ASSUME NEW e \in op.todo PROVE e[2] # op.to[2]
    <3>1. e \in Dirs /\ e[1] = op.temp /\ op.temp \in TempPlaces
      BY <1>3, <2>3, JobIs DEF Handles
    <3>2. e = Dir(op.temp, e[2], <<>>)
      BY <3>1, DirIs
    <3> QED BY <2>2, <3>2
  <2> QED BY <1>1, <1>3, <2>1, <2>3 DEF Clear
<1> QED BY <1>2, <1>3

\* CopySkill keeps the invariant.
LEMMA CopySkillKeeps ==
  ASSUME ShelfInv, NEW w \in Workers, CopySkill(w)
  PROVE  ShelfInv'
<1>1. PICK op : op = work[w]
  OBVIOUS
<1>2. /\ op.kind = "copy" /\ op.step = "copy" /\ Ends(w)
      /\ UNCHANGED <<platform, serial, requested, imported, owed>>
  BY <1>1 DEF CopySkill, Managing
<1>3. SkillTypes /\ QueueInv /\ Handles(op) /\ op \in Jobs /\ op \in Managed \cup Imports
  BY <1>1, <1>2, WorkIs DEF ShelfInv
<1>4. Takes(w, {})
  BY <1>2 DEF Takes
<1>5. Handled => \A s \in owed' : Safe(s)
  BY <1>2 DEF ShelfInv, OwedSafe
<1>6. CASE ~FileExists(op.from)
  <2>1. disk' = disk
    BY <1>1, <1>6 DEF CopySkill, DiskBecomes
  <2> QED BY <1>1, <1>2, <1>4, <1>5, <2>1, QuietKeeps
<1>7. CASE FileExists(op.from)
  <2>1. disk' = With(disk, op.to, disk[op.from])
    BY <1>1, <1>7 DEF CopySkill, DiskBecomes
  <2>2. op.to \notin DOMAIN disk
    BY <1>2, <1>3, NameOfItsOwn
  <2>3. op.to \in Library /\ MayMake(op, op.to)
    BY <1>2, <1>3, ToIs
  <2>4. DOMAIN disk' = DOMAIN disk \cup {op.to} /\ Moving(op.to, op.from)
    BY <1>7, <2>1, <2>2, <2>3 DEF With, Moving, FileExists
  <2>5. DOMAIN disk' \subseteq Dirs /\ \A d \in DOMAIN disk' : d[1] \in Shelves => d \in Library
    BY <1>3, <2>3, <2>4, LibraryIs DEF SkillTypes
  <2>6. Handled => (\A s \in owed' : Safe(s)') /\ LeavesOthers(w)
    BY <1>1, <1>2, <1>3, <1>5, <2>4, MovingKeeps, MovingLeavesOthers
  <2> QED BY <1>1, <1>2, <1>4, <2>3, <2>4, <2>5, <2>6, StepKeeps
<1> QED BY <1>6, <1>7

\* A directory has been moved, copied, or removed after it was copied.
LEMMA MovedKeeps ==
  ASSUME ShelfInv, NEW w \in Workers, work[w].kind # "idle", work[w].step \in {"move", "remove"},
         UNCHANGED <<platform, serial, requested, imported, owed>>,
         NEW step \in {"next", "remove"}, NEW N, Takes(w, N), \A n \in N : MovedTo(n, work[w], step),
         \A n \in N : n.kind # "import" => step = "remove",
         step = "remove" => platform # "posix",
         DOMAIN disk' \subseteq DOMAIN disk \cup {work[w].to},
         Handled => Moving(work[w].to, work[w].from)
                    /\ (work[w].step = "move" => work[w].from \in DOMAIN disk),
         serial => \A n \in N : FreeFor(n)'
  PROVE  ShelfInv'
<1>1. PICK op : op = work[w]
  OBVIOUS
<1>2. SkillTypes /\ QueueInv /\ Handles(op) /\ op \in Jobs /\ op \in Managed \cup Imports
  BY <1>1, WorkIs DEF ShelfInv
<1>3. op.to \in Library /\ MayMake(op, op.to)
  BY <1>1, <1>2, ToIs
<1>4. DOMAIN disk' \subseteq Dirs /\ \A d \in DOMAIN disk' : d[1] \in Shelves => d \in Library
  BY <1>1, <1>2, <1>3, LibraryIs DEF SkillTypes
<1>5. \A d \in DOMAIN disk' \ DOMAIN disk : d = op.to
  BY <1>1
<1>6. ASSUME NEW n \in N PROVE Follows(n, op) /\ Clear(n, op.to)
  <2>1. /\ n.kind = op.kind /\ n.from = op.from /\ n.to = op.to /\ n.step = step /\ n.id = op.id
        /\ n.temp = op.temp /\ n.zip = op.zip /\ n.todo = op.todo
    BY <1>1, <1>6 DEF MovedTo
  <2>2. n \in Managed \cup Imports
    BY <1>1, <1>2, <1>6, TakesIs
  <2>3. Clear(n, op.to)
    BY <1>1, <1>2, <1>6, <2>1, MovedClear
  <2>4. Handles(n)
    BY <1>1, <1>2, <1>6, <2>1, JobIs DEF Handles
  <2>5. CASE op.kind = "import"
    <3>1. Remaining(n) \subseteq Remaining(op)
      BY <2>1 DEF Remaining
    <3>2. Follows(n, op)
      BY <1>1, <1>2, <2>1, <2>2, <2>4, <2>5, <3>1, ImportFollows
    <3> QED BY <2>3, <3>2
  <2>6. CASE op.kind # "import"
    <3>1. step = "remove"
      BY <1>6, <2>1, <2>6
    <3> QED BY <2>1, <2>3, <2>4, <2>6, <3>1 DEF Follows, Clear
  <2> QED BY <2>5, <2>6
<1>7. ASSUME Handled
      PROVE  (\A n \in N : WholeOf(n)') /\ (\A s \in owed' : Safe(s)') /\ LeavesOthers(w)
  <2>1. (\A s \in owed' : Safe(s)') /\ LeavesOthers(w)
    BY <1>2, <1>7, MovingKeeps, MovingLeavesOthers DEF ShelfInv, OwedSafe
  <2>2. ASSUME NEW n \in N PROVE WholeOf(n)'
    <3>1. CASE op.kind = "import"
      <4>1. WholeOf(op)
        BY <1>2, <1>7 DEF ShelfInv, ImportsWhole
      <4> QED BY <1>1, <1>2, <1>7, <2>2, <3>1, <4>1, ImportMoved
    <3>2. CASE op.kind # "import"
      BY <1>1, <2>2, <3>2 DEF MovedTo, WholeOf
    <3> QED BY <3>1, <3>2
  <2> QED BY <2>1, <2>2
<1> QED BY <1>1, <1>3, <1>4, <1>5, <1>6, <1>7, StepKeeps

\* An operation that goes on to another step.
LEMMA GoesToIs ==
  ASSUME NEW w \in Workers, work[w] \in Managed \cup Imports, NEW step, GoesTo(w, step),
         [work[w] EXCEPT !.step = step] \in Managed \cup Imports
  PROVE  \E n \in Managed \cup Imports : Takes(w, {n}) /\ MovedTo(n, work[w], step)
<1>1. PICK op, n : op = work[w] /\ n = [op EXCEPT !.step = step]
  OBVIOUS
<1>2. MovedTo(n, op, step)
  BY <1>1, StepIs DEF MovedTo
<1>3. Continues(w, n)
  BY <1>1 DEF GoesTo
<1>4. Takes(w, {n})
  BY <1>1, <1>2, <1>3 DEF Takes, MovedTo
<1> QED BY <1>1, <1>2, <1>4

\* When the directory is moved, an import goes to the next one, and any other operation ends.
LEMMA MovedIs ==
  ASSUME SkillTypes, QueueInv, NEW w \in Workers, work[w].kind # "idle", Moved(w)
  PROVE  \E N : /\ Takes(w, N)
                /\ \A n \in N : MovedTo(n, work[w], "next") /\ n.kind = "import"
<1>1. PICK op : op = work[w]
  OBVIOUS
<1>2. op \in Managed \cup Imports
  BY <1>1, WorkIs
<1>3. CASE op.kind = "import"
  <2>1. [op EXCEPT !.step = "next"] \in Managed \cup Imports
    BY <1>2, <1>3, StepIs
  <2>2. GoesTo(w, "next")
    BY <1>1, <1>3 DEF Moved
  <2>3. PICK n \in Managed \cup Imports : Takes(w, {n}) /\ MovedTo(n, op, "next")
    BY <1>1, <1>2, <2>1, <2>2, GoesToIs
  <2> QED BY <1>1, <1>3, <2>3 DEF MovedTo
<1>4. CASE op.kind # "import"
  <2>1. Takes(w, {})
    BY <1>1, <1>4 DEF Moved, Takes
  <2> QED BY <2>1
<1> QED BY <1>3, <1>4

\* SafeRename keeps it: on POSIX the target is free, on Windows it is in the queue.
LEMMA SafeRenameKeeps ==
  ASSUME ShelfInv, NEW w \in Workers, SafeRename(w)
  PROVE  ShelfInv'
<1>1. PICK op : op = work[w]
  OBVIOUS
<1>2. op.kind # "idle" /\ op.step = "move" /\ UNCHANGED <<platform, serial, requested, imported>>
  BY <1>1 DEF SafeRename, Managing
<1>3. SkillTypes /\ QueueInv /\ Handles(op) /\ op \in Jobs /\ op \in Managed \cup Imports
  BY <1>1, <1>2, WorkIs DEF ShelfInv
<1>4. op.to \in Library
  BY <1>2, <1>3, ToIs
<1>5. \/ Fails(w) /\ Unmoved
      \/ /\ platform = "posix" /\ FileExists(op.from) /\ ~FileExists(op.to)
         /\ disk' = Without(With(disk, op.to, disk[op.from]), op.from)
         /\ Moved(w) /\ UNCHANGED owed
      \/ /\ platform # "posix" /\ FileExists(op.from)
         /\ disk' = With(disk, op.to, disk[op.from])
         /\ GoesTo(w, "remove") /\ UNCHANGED owed
  BY <1>1 DEF SafeRename, DiskBecomes
<1>6. CASE Fails(w) /\ Unmoved
  BY <1>1, <1>2, <1>6, FailsKeeps DEF Unmoved
<1>7. CASE /\ platform = "posix" /\ FileExists(op.from) /\ ~FileExists(op.to)
           /\ disk' = Without(With(disk, op.to, disk[op.from]), op.from)
           /\ Moved(w) /\ UNCHANGED owed
  <2>1. PICK N : Takes(w, N) /\ \A n \in N : MovedTo(n, op, "next") /\ n.kind = "import"
    BY <1>1, <1>2, <1>3, <1>7, MovedIs
  <2>2. op.from \in DOMAIN disk /\ op.to \notin DOMAIN disk
    BY <1>7 DEF FileExists
  <2>3. DOMAIN disk' = (DOMAIN disk \cup {op.to}) \ {op.from}
    BY <1>7 DEF Without, With
  <2>4. disk'[op.to] = disk[op.from] /\ \A d \in DOMAIN disk \cap DOMAIN disk' : disk'[d] = disk[d]
    BY <1>7, <2>2 DEF Without, With
  <2>5. Moving(op.to, op.from)
    BY <1>4, <2>2, <2>3, <2>4 DEF Moving
  <2>6. \A n \in N : FreeFor(n)'
    BY <2>1 DEF FreeFor, MovedTo
  <2>7. DOMAIN disk' \subseteq DOMAIN disk \cup {op.to}
    BY <2>3
  <2> QED BY <1>1, <1>2, <1>7, <2>1, <2>2, <2>5, <2>6, <2>7, MovedKeeps
<1>8. CASE /\ platform # "posix" /\ FileExists(op.from)
           /\ disk' = With(disk, op.to, disk[op.from])
           /\ GoesTo(w, "remove") /\ UNCHANGED owed
  <2>1. [op EXCEPT !.step = "remove"] \in Managed \cup Imports
    BY <1>3, StepIs
  <2>2. PICK n \in Managed \cup Imports : Takes(w, {n}) /\ MovedTo(n, op, "remove")
    BY <1>1, <1>3, <1>8, <2>1, GoesToIs
  <2>3. op.from \in DOMAIN disk
    BY <1>8 DEF FileExists
  <2>4. DOMAIN disk' = DOMAIN disk \cup {op.to}
    BY <1>8 DEF With
  <2>5. ASSUME serial PROVE Moving(op.to, op.from) /\ FreeFor(n)'
    <3>1. op.to \notin DOMAIN disk
      BY <1>2, <1>3, <2>5 DEF ShelfInv, TargetFree, FreeFor
    <3>2. disk'[op.to] = disk[op.from] /\ \A d \in DOMAIN disk \cap DOMAIN disk' : disk'[d] = disk[d]
      BY <1>8, <2>3, <3>1 DEF With
    <3>3. Moving(op.to, op.from)
      BY <1>4, <2>3, <2>4, <3>2 DEF Moving
    <3>4. op.to # op.from /\ op.to \in DOMAIN disk' /\ disk'[op.to] = disk'[op.from]
      BY <2>3, <2>4, <3>1, <3>2
    <3>5. FreeFor(n)'
      BY <2>2, <3>4 DEF FreeFor, MovedTo
    <3> QED BY <3>3, <3>5
  <2>6. Handled => serial
    BY <1>8 DEF Handled
  <2> QED BY <1>1, <1>2, <1>8, <2>2, <2>3, <2>4, <2>5, <2>6, MovedKeeps
<1> QED BY <1>5, <1>6, <1>7, <1>8

\* RemoveSource keeps it: outside the queue nothing is claimed of Windows.
LEMMA RemoveSourceKeeps ==
  ASSUME ShelfInv, NEW w \in Workers, RemoveSource(w)
  PROVE  ShelfInv'
<1>1. PICK op : op = work[w]
  OBVIOUS
<1>2. /\ op.kind # "idle" /\ op.step = "remove" /\ Moved(w) /\ disk' = Without(disk, op.from)
      /\ UNCHANGED <<platform, serial, requested, imported, owed>>
  BY <1>1 DEF RemoveSource, Managing, DiskBecomes
<1>3. SkillTypes /\ QueueInv /\ Handles(op) /\ op \in Jobs /\ op \in Managed \cup Imports
  BY <1>1, <1>2, WorkIs DEF ShelfInv
<1>4. op.to \in Library
  BY <1>2, <1>3, ToIs
<1>5. PICK N : Takes(w, N) /\ \A n \in N : MovedTo(n, op, "next") /\ n.kind = "import"
  BY <1>1, <1>2, <1>3, MovedIs
<1>6. DOMAIN disk' = DOMAIN disk \ {op.from} /\ \A d \in DOMAIN disk' : disk'[d] = disk[d]
  BY <1>2 DEF Without
<1>7. ASSUME Handled PROVE Moving(op.to, op.from)
  <2>1. serial
    BY <1>2, <1>3, <1>7 DEF Handled, Handles
  <2>2. FreeFor(op)
    BY <1>3, <2>1 DEF ShelfInv, TargetFree
  <2>3. /\ op.to \in DOMAIN disk /\ op.to # op.from
        /\ op.from \in DOMAIN disk => disk[op.to] = disk[op.from]
    BY <1>2, <2>2 DEF FreeFor
  <2> QED BY <1>4, <1>6, <2>3 DEF Moving
<1>8. \A n \in N : FreeFor(n)'
  BY <1>5 DEF FreeFor, MovedTo
<1>9. DOMAIN disk' \subseteq DOMAIN disk \cup {op.to}
  BY <1>6
<1> QED BY <1>1, <1>2, <1>5, <1>7, <1>8, <1>9, MovedKeeps

\* ExtractZip keeps it: nobody unpacks where another's directory was removed, but
\* for a third import in the same millisecond.
LEMMA ExtractZipKeeps ==
  ASSUME ShelfInv, NEW w \in Workers, ExtractZip(w)
  PROVE  ShelfInv'
<1>1. PICK op : op = work[w]
  OBVIOUS
<1>2. PICK dirs : dirs = {Dir(op.temp, n, <<>>) : n \in op.zip}
  OBVIOUS
<1>3. /\ op.kind = "import" /\ op.step = "extract" /\ dirs \cap DOMAIN disk = {} /\ GoesTo(w, "list")
      /\ disk' = [d \in DOMAIN disk \cup dirs |-> IF d \in dirs THEN <<op.id, d[2]>> ELSE disk[d]]
      /\ UNCHANGED <<platform, serial, requested, imported, owed>>
  BY <1>1, <1>2 DEF ExtractZip, Managing, DiskBecomes
<1>4. SkillTypes /\ QueueInv /\ Handles(op) /\ op \in Jobs /\ op \in Managed \cup Imports
  BY <1>1, <1>3, WorkIs DEF ShelfInv
<1>5. op.temp \in TempPlaces /\ op.temp \notin Shelves /\ op.zip \in SUBSET ZipNames
  <2>1. op.temp \in TempPlaces /\ op.zip \in SUBSET ZipNames
    BY <1>3, <1>4, JobIs
  <2> QED BY <2>1, SkillAssumption DEF Shelves
<1>6. ASSUME NEW n \in op.zip
      PROVE  Dir(op.temp, n, <<>>) \in Dirs /\ Dir(op.temp, n, <<>>)[2] = n
  <2>1. PICK temp : temp = op.temp
    OBVIOUS
  <2>2. temp \in TempPlaces /\ n \in Bases
    BY <1>5, <2>1 DEF Bases
  <2> QED BY <2>1, <2>2, TempMade
<1>7. \A d \in dirs : d \in Dirs /\ d[1] = op.temp /\ d[3] = <<>>
  BY <1>2, <1>6 DEF Dir
<1>8. [op EXCEPT !.step = "list"] \in Managed \cup Imports /\ Follows([op EXCEPT !.step = "list"], op)
  BY <1>3, <1>4, ImportGoesOn
<1>9. PICK n : n = [op EXCEPT !.step = "list"]
  OBVIOUS
<1>10. MovedTo(n, op, "list")
  BY <1>4, <1>9, StepIs DEF MovedTo
<1>11. Takes(w, {n})
  BY <1>1, <1>3, <1>8, <1>9, <1>10 DEF Takes, MovedTo, GoesTo
<1>12. DOMAIN disk' \subseteq Dirs /\ \A d \in DOMAIN disk' : d[1] \in Shelves => d \in Library
  BY <1>3, <1>4, <1>5, <1>7 DEF SkillTypes
<1>13. \A d \in DOMAIN disk' \ DOMAIN disk : d[3] = <<>>
  BY <1>3, <1>7
<1>14. \A d \in DOMAIN disk' \ DOMAIN disk : Clear(n, d)
  BY <1>13, UsesNothing DEF Clear
<1>15. FreeFor(n)'
  BY <1>10 DEF FreeFor, MovedTo
<1>16. \A d \in DOMAIN disk : d \in DOMAIN disk' /\ disk'[d] = disk[d]
  BY <1>3
<1>17. ASSUME Handled PROVE WholeOf(n)' /\ (\A s \in owed' : Safe(s)') /\ LeavesOthers(w)
  <2>1. ASSUME NEW m \in op.zip PROVE Here(op, m)'
    <3>1. PICK d : d = Dir(op.temp, m, <<>>)
      OBVIOUS
    <3>2. d \in dirs /\ d[2] = m
      BY <1>2, <1>6, <3>1
    <3>3. d \in DOMAIN disk' /\ disk'[d] = <<op.id, m>>
      BY <1>3, <3>2
    <3> QED BY <3>1, <3>3 DEF Here
  <2>2. WholeOf(n)'
    BY <1>10, <2>1 DEF WholeOf, MovedTo, Here
  <2>3. \A s : Safe(s) => Safe(s)'
    BY <1>16 DEF Safe
  <2>4. \A s \in owed' : Safe(s)'
    BY <1>3, <1>17, <2>3 DEF ShelfInv, OwedSafe
  <2>5. \A p, m : Here(p, m) => Here(p, m)'
    BY <1>16 DEF Here
  <2>6. ASSUME ~serial, NEW p \in Others(w), p.kind = "import", Doomed(p) PROVE At(p.temp)' = {}
    <3>1. CASE p.temp = op.temp
      <4>1. PICK b \in imported : b.temp = p.temp /\ b.id # p.id /\ \A q \in Jobs : q.id # b.id
        BY <2>6 DEF Doomed
      <4>2. p \in Jobs /\ p.id # op.id
        BY <1>1, <2>6 DEF Others
      <4>3. [id |-> p.id, temp |-> p.temp] \in imported /\ [id |-> op.id, temp |-> op.temp] \in imported
        BY <1>3, <1>4, <2>6, <4>2 DEF ShelfInv, Handles
      <4>4. PICK a, c : a = [id |-> p.id, temp |-> p.temp] /\ c = [id |-> op.id, temp |-> op.temp]
        OBVIOUS
      <4>5. /\ a \in imported /\ c \in imported /\ a.temp = b.temp /\ b.temp = c.temp
            /\ a.id # b.id /\ b.id # c.id /\ a.id # c.id
        BY <1>4, <3>1, <4>1, <4>2, <4>3, <4>4
      <4>6. a # b /\ b # c /\ a # c
        BY <4>5
      <4>7. Crowded
        BY <4>1, <4>5, <4>6 DEF Crowded
      <4> QED BY <1>17, <2>6, <4>7 DEF Handled
    <3>2. CASE p.temp # op.temp
      <4>1. At(p.temp) = {}
        BY <2>6 DEF Doomed
      <4> QED BY <1>3, <1>7, <3>2, <4>1 DEF At
    <3> QED BY <3>1, <3>2
  <2> QED BY <2>2, <2>3, <2>4, <2>5, <2>6 DEF LeavesOthers
<1> QED BY <1>1, <1>3, <1>8, <1>9, <1>11, <1>12, <1>13, <1>14, <1>15, <1>17, StepKeeps

\* CleanTemp keeps it: those who share the directory can only fail now.
LEMMA CleanTempKeeps ==
  ASSUME ShelfInv, NEW w \in Workers, CleanTemp(w)
  PROVE  ShelfInv'
<1>1. PICK op : op = work[w]
  OBVIOUS
<1>2. /\ op.kind = "import" /\ op.step = "clean" /\ Ends(w)
      /\ disk' = [d \in DOMAIN disk \ At(op.temp) |-> disk[d]]
      /\ UNCHANGED <<platform, serial, requested, imported, owed>>
  BY <1>1 DEF CleanTemp, Managing, DiskBecomes
<1>3. SkillTypes /\ QueueInv /\ Handles(op) /\ op \in Jobs /\ op \in Managed \cup Imports
  BY <1>1, <1>2, WorkIs DEF ShelfInv
<1>4. Takes(w, {})
  BY <1>2 DEF Takes
<1>5. op.temp \in TempPlaces
  BY <1>2, <1>3, JobIs
<1>6. DOMAIN disk' \subseteq DOMAIN disk /\ \A d \in DOMAIN disk : d[1] # op.temp => d \in DOMAIN disk' /\ disk'[d] = disk[d]
  BY <1>2 DEF At
<1>7. DOMAIN disk' \subseteq Dirs /\ \A d \in DOMAIN disk' : d[1] \in Shelves => d \in Library
  BY <1>3, <1>6 DEF SkillTypes
<1>8. At(op.temp)' = {}
  BY <1>2 DEF At
<1>9. \A s : Safe(s) => Safe(s)'
  <2>1. \A d \in Library : d[1] # op.temp
    BY <1>5, LibraryIs
  <2> QED BY <1>6, <2>1 DEF Safe
<1>10. ASSUME NEW p \in Others(w), p.kind = "import", NEW n, Here(p, n)
       PROVE  Here(p, n)' \/ Doomed(p)'
  <2>1. CASE p.temp # op.temp
    <3>1. Dir(p.temp, n, <<>>)[1] = p.temp
      BY DEF Dir
    <3> QED BY <1>6, <1>10, <2>1, <3>1 DEF Here
  <2>2. CASE p.temp = op.temp
    <3>1. [id |-> op.id, temp |-> op.temp] \in imported' /\ p.id # op.id
      BY <1>1, <1>2, <1>3, <1>10 DEF Handles, Others
    <3>2. \A q \in Jobs' : q.id # op.id
      BY <1>1, <1>2, <1>3, <1>4, TakesIs DEF Others
    <3>3. PICK b : b = [id |-> op.id, temp |-> op.temp]
      OBVIOUS
    <3>4. b.id = op.id /\ b.temp = op.temp
      BY <3>3
    <3> QED BY <1>8, <2>2, <3>1, <3>2, <3>3, <3>4 DEF Doomed
  <2> QED BY <2>1, <2>2
<1>11. ASSUME NEW p, Doomed(p) PROVE At(p.temp)' = {}
  BY <1>6, <1>11 DEF Doomed, At
<1>12. Handled => (\A s \in owed' : Safe(s)') /\ LeavesOthers(w)
  BY <1>2, <1>9, <1>10, <1>11 DEF ShelfInv, OwedSafe, LeavesOthers
<1>13. DOMAIN disk' \ DOMAIN disk = {}
  BY <1>6
<1> QED BY <1>1, <1>2, <1>4, <1>7, <1>12, <1>13, StepKeeps

-----------------------------------------------------------------------------
\* What is requested: a new number, and names that are clear of the operations under way.
OperationMade(op) ==
    /\ op \in Managed \cup Imports /\ op.id = requested + 1 /\ Waiting(op) /\ op.todo = {}
    /\ op.kind # "import" => op.step = "check"
    /\ op.kind = "import" => op.step = "extract"
    /\ op.kind \in {"copy", "archive"} => op.to[3] = Append(op.from[3], op.id)
    /\ op.kind # "import" =>
          \E d \in Library : /\ d \in DOMAIN disk \/ d[3] = <<>>
                             /\ op.to[2] = d[2]
                             /\ \A j : Uses(op.to, j) => j = requested + 1 \/ Uses(d, j)

\* A rename, a copy, archiving or restoring as it is requested.
LEMMA FreshMade ==
  ASSUME SkillTypes, NEW kind \in {"rename", "copy", "archive", "unarchive"}, NEW from \in Library,
         NEW to \in Library, kind \in {"copy", "archive"} => to[3] = Append(from[3], requested + 1),
         NEW d \in Library, d \in DOMAIN disk \/ d[3] = <<>>, to[2] = d[2],
         \A j : Uses(to, j) => j = requested + 1 \/ Uses(d, j)
  PROVE  OperationMade(Operation(kind, from, to))
<1>1. PICK op, k : op = Operation(kind, from, to) /\ k = requested + 1
  OBVIOUS
<1>2. op = [kind |-> kind, from |-> from, to |-> to, step |-> "check", id |-> k, temp |-> "", zip |-> {},
            todo |-> {}]
  BY <1>1 DEF Operation
<1>3. k \in Nat
  BY <1>1 DEF SkillTypes
<1>4. op \in Managed
  BY <1>2, <1>3 DEF Managed
<1>5. op.kind = kind /\ op.from = from /\ op.to = to /\ op.step = "check" /\ op.id = k /\ op.todo = {}
  BY <1>2
<1> QED BY <1>1, <1>4, <1>5 DEF OperationMade, Waiting

\* An import as it is requested.
LEMMA ImportMade ==
  ASSUME SkillTypes, NEW temp \in TempPlaces, NEW zip \in SUBSET ZipNames
  PROVE  OperationMade(Import(temp, zip))
<1>1. PICK op, k : op = Import(temp, zip) /\ k = requested + 1
  OBVIOUS
<1>2. op = [kind |-> "import", from |-> <<>>, to |-> <<>>, step |-> "extract", id |-> k, temp |-> temp,
            zip |-> zip, todo |-> {}]
  BY <1>1 DEF Import, Operation
<1>3. k \in Nat
  BY <1>1 DEF SkillTypes
<1>4. op \in Imports
  BY <1>2, <1>3 DEF Imports
<1>5. op.kind = "import" /\ op.step = "extract" /\ op.id = k /\ op.todo = {}
  BY <1>2
<1> QED BY <1>1, <1>4, <1>5 DEF OperationMade, Waiting

\* Whatever a user may ask for is one of these.
LEMMA OperationIs ==
  ASSUME SkillTypes, NEW op \in Operations
  PROVE  OperationMade(op)
<1>1. requested + 1 \in Nat /\ "online" \in Shelves /\ "archived" \in Shelves
  BY DEF SkillTypes, Shelves
<1>2. ASSUME NEW n \in OnlineNames
      PROVE  Dir("online", n, <<>>) \in Library /\ Dir("online", n, <<>>)[3] = <<>>
  <2>1. n \in Bases /\ n # "bad"
    BY SkillAssumption DEF Bases
  <2> QED BY <1>1, <2>1, ImportNames DEF Dir
<1>3. PICK online : online = At("online") \cup {Dir("online", n, <<>>) : n \in OnlineNames}
  OBVIOUS
<1>4. ASSUME NEW d \in online PROVE d \in Library /\ (d \in DOMAIN disk \/ d[3] = <<>>)
  BY <1>1, <1>2, <1>3, <1>4 DEF At, SkillTypes
<1>5. ASSUME NEW d \in online, NEW n \in OnlineNames, op = Operation("rename", d, Dir("online", n, <<>>))
      PROVE  OperationMade(op)
  <2>1. PICK to : to = Dir("online", n, <<>>)
    OBVIOUS
  <2>2. to \in Library /\ to[3] = <<>>
    BY <1>2, <2>1
  <2> QED BY <1>4, <1>5, <2>1, <2>2, FreshMade
<1>6. ASSUME NEW d \in online, NEW kind \in {"copy", "archive"}, NEW place \in Shelves,
             op = Operation(kind, d, Suffixed(place, d, requested + 1))
      PROVE  OperationMade(op)
  <2>1. PICK to, k : k = requested + 1 /\ to = Suffixed(place, d, k)
    OBVIOUS
  <2>2. to \in Library /\ to[2] = d[2] /\ to[3] = Append(d[3], k) /\ \A j : Uses(to, j) => j = k \/ Uses(d, j)
    <3>1. d \in Library /\ k \in Nat
      BY <1>1, <1>4, <2>1
    <3>2. Suffixed(place, d, k) \in Library /\ Suffixed(place, d, k)[2] = d[2]
      BY <3>1, SuffixedIs
    <3>3. \A j : Uses(Suffixed(place, d, k), j) => j = k \/ Uses(d, j)
      BY <3>1, SuffixedIs
    <3>4. Suffixed(place, d, k)[3] = Append(d[3], k)
      BY DEF Suffixed, Dir
    <3> QED BY <2>1, <3>2, <3>3, <3>4
  <2> QED BY <1>4, <1>6, <2>1, <2>2, FreshMade
<1>7. ASSUME NEW d \in At("archived"), op = Operation("unarchive", d, OriginalName(d))
      PROVE  OperationMade(op)
  <2>1. d \in Library /\ d \in DOMAIN disk
    BY <1>1 DEF At, SkillTypes
  <2>2. PICK to : to = OriginalName(d)
    OBVIOUS
  <2>3. to \in Library /\ to[2] = d[2] /\ \A j : Uses(to, j) => Uses(d, j)
    BY <2>1, <2>2, OriginalIs
  <2> QED BY <1>7, <2>1, <2>2, <2>3, FreshMade
<1>8. ASSUME NEW s \in ListArchivedSkills, op = Operation("unarchive", s.folderName, s.originalName)
      PROVE  OperationMade(op)
  <2>1. PICK d \in At("archived") :
           s = [folderName |-> d, originalName |-> OriginalName(d), skill |-> disk[d]]
    BY DEF ListArchivedSkills
  <2>2. s.folderName = d /\ s.originalName = OriginalName(d)
    BY <2>1
  <2> QED BY <1>7, <1>8, <2>2
<1>9. ASSUME NEW temp \in TempPlaces, NEW zip \in SUBSET ZipNames \ {{}}, op = Import(temp, zip)
      PROVE  OperationMade(op)
  BY <1>9, ImportMade
<1>10. \/ \E d \in online, n \in OnlineNames : op = Operation("rename", d, Dir("online", n, <<>>))
       \/ \E d \in online : op = Operation("copy", d, Suffixed("online", d, requested + 1))
       \/ \E d \in online : op = Operation("archive", d, Suffixed("archived", d, requested + 1))
       \/ \E s \in ListArchivedSkills : op = Operation("unarchive", s.folderName, s.originalName)
       \/ \E temp \in TempPlaces, zip \in SUBSET ZipNames \ {{}} : op = Import(temp, zip)
  BY <1>3 DEF Operations
<1> QED BY <1>1, <1>5, <1>6, <1>8, <1>9, <1>10

\* Where the new operation goes.
LEMMA RequestQueues ==
  ASSUME ShelfInv, NEW op, Request(op), OperationMade(op)
  PROVE  /\ operations' \in Seq(Managed \cup Imports)
         /\ work' \in [Workers -> Managed \cup Imports \cup {Idle}]
         /\ QueueInv' /\ Jobs' = Jobs \cup {op} /\ \A p \in Jobs : p.id # op.id /\ p \in Managed \cup Imports
<1>1. operations \in Seq(Managed \cup Imports) /\ work \in [Workers -> Managed \cup Imports \cup {Idle}]
      /\ QueueInv /\ requested \in Nat
  BY DEF ShelfInv, SkillTypes
<1>2. op \in Managed \cup Imports /\ op # Idle /\ op.id = requested + 1 /\ Waiting(op)
  BY JobIs DEF OperationMade
<1>3. ASSUME NEW p \in Jobs PROVE p.id # op.id /\ p \in Managed \cup Imports
  <2>1. p.id \in 1..requested
    BY <1>3 DEF ShelfInv, Handles
  <2>2. p \in Managed \cup Imports
    BY <1>1, <1>3 DEF Jobs, Busy
  <2> QED BY <1>1, <1>2, <2>1, <2>2
<1>4. serial' = serial
  BY DEF Request
<1>5. (\A w \in Busy : work[w].id # op.id) /\ (\A i \in DOMAIN operations : operations[i].id # op.id)
  BY <1>3 DEF Jobs
<1>6. ASSUME NEW w \in Workers, work[w] = Idle, work' = [work EXCEPT ![w] = op], UNCHANGED operations,
             operations = <<>>, serial => Busy = {} /\ processing'
      PROVE  QueueInv' /\ Jobs' = Jobs \cup {op} /\ work' \in [Workers -> Managed \cup Imports \cup {Idle}]
  <2>1. work' \in [Workers -> Managed \cup Imports \cup {Idle}] /\ work'[w] = op
        /\ \A v \in Workers \ {w} : work'[v] = work[v]
    BY <1>1, <1>2, <1>6
  <2>2. Busy' = Busy \cup {w} /\ w \notin Busy /\ \A v \in Busy : work'[v] = work[v]
    BY <1>2, <1>6, <2>1 DEF Busy
  <2>3. DOMAIN operations = {}
    BY <1>6
  <2>4. Jobs' = Jobs \cup {op}
    BY <1>6, <2>1, <2>2, <2>3 DEF Jobs
  <2>5. serial => Busy' = {w} /\ processing'
    BY <1>6, <2>2
  <2>6. \A v, u \in Busy' : work'[v].id = work'[u].id => v = u
    BY <1>1, <1>5, <2>1, <2>2 DEF QueueInv
  <2> QED BY <1>4, <1>6, <2>1, <2>3, <2>4, <2>5, <2>6 DEF QueueInv
<1>7. CASE ~serial
  <2>1. FreeWorkers # {} /\ work' = [work EXCEPT ![CHOOSE w \in FreeWorkers : TRUE] = op] /\ UNCHANGED operations
    BY <1>7 DEF Request
  <2>2. PICK w : w = CHOOSE v \in FreeWorkers : TRUE
    OBVIOUS
  <2>3. w \in Workers /\ work[w] = Idle
    BY <2>1, <2>2 DEF FreeWorkers
  <2>4. operations = <<>>
    BY <1>1, <1>7 DEF QueueInv
  <2> QED BY <1>1, <1>3, <1>6, <1>7, <2>1, <2>2, <2>3, <2>4
<1>8. CASE serial /\ ~processing
  <2>1. /\ work' = [work EXCEPT ![CHOOSE w \in FreeWorkers : TRUE] = op] /\ processing' = TRUE
        /\ UNCHANGED operations
    BY <1>8 DEF Request
  <2>2. Busy = {} /\ operations = <<>>
    BY <1>1, <1>8 DEF QueueInv
  <2>3. FreeWorkers = Workers /\ Workers # {}
    BY <2>2, SkillAssumption DEF FreeWorkers, Busy
  <2>4. PICK w : w = CHOOSE v \in FreeWorkers : TRUE
    OBVIOUS
  <2>5. w \in Workers /\ work[w] = Idle
    BY <2>3, <2>4 DEF FreeWorkers
  <2> QED BY <1>1, <1>3, <1>6, <2>1, <2>2, <2>4, <2>5
<1>9. CASE serial /\ processing
  <2>1. operations' = Append(operations, op) /\ UNCHANGED <<processing, work>>
    BY <1>9 DEF Request
  <2>2. PICK q : q = Append(operations, op)
    OBVIOUS
  <2>3. /\ q \in Seq(Managed \cup Imports) /\ Len(q) = Len(operations) + 1 /\ q[Len(operations) + 1] = op
        /\ \A i \in 1..Len(operations) : q[i] = operations[i]
        /\ DOMAIN q = 1..Len(operations) + 1 /\ DOMAIN operations = 1..Len(operations) /\ Len(operations) \in Nat
    BY <1>1, <1>2, <2>2, AppendProperties
  <2>4. DOMAIN q = DOMAIN operations \cup {Len(operations) + 1} /\ Len(operations) + 1 \notin DOMAIN operations
    BY <2>3
  <2>5. Busy' = Busy
    BY <2>1 DEF Busy
  <2>6. Jobs' = Jobs \cup {op}
    BY <2>1, <2>2, <2>3, <2>4, <2>5 DEF Jobs
  <2>7. \A i, j \in DOMAIN q : q[i].id = q[j].id => i = j
    BY <1>1, <1>5, <2>3, <2>4 DEF QueueInv
  <2>8. \A w \in Busy, i \in DOMAIN q : work[w].id # q[i].id
    BY <1>1, <1>5, <2>3, <2>4 DEF QueueInv
  <2>9. \A i \in DOMAIN q : Waiting(q[i])
    BY <1>1, <1>2, <2>3, <2>4 DEF QueueInv
  <2>10. QueueInv'
    BY <1>1, <1>4, <1>9, <2>1, <2>2, <2>5, <2>7, <2>8, <2>9 DEF QueueInv
  <2> QED BY <1>1, <1>3, <2>1, <2>2, <2>3, <2>6, <2>10
<1> QED BY <1>7, <1>8, <1>9

\* Its number is in no name there is, and its target has the suffixes of no
\* operation that has still to use them.
LEMMA RequestedClear ==
  ASSUME ShelfInv, NEW op, OperationMade(op)
  PROVE  /\ \A d \in DOMAIN disk : Clear(op, d)
         /\ \A p \in Jobs : p.kind # "import" => Clear(op, p.to)
         /\ op.kind # "import" => /\ \A p \in Jobs : p.id # op.id => Clear(p, op.to)
                                  /\ \A i \in DOMAIN op.to[3] : op.to[3][i] \in 1..requested + 1
<1>1. requested \in Nat /\ op.id = requested + 1 /\ op.id \notin 1..requested
  BY DEF ShelfInv, SkillTypes, OperationMade
<1>2. \A d \in DOMAIN disk : ~Uses(d, op.id)
  BY <1>1 DEF ShelfInv, NamesClear, Uses
<1>3. \A p \in Jobs : p.kind # "import" => ~Uses(p.to, op.id)
  BY <1>1 DEF ShelfInv, NamesClear, Uses
<1>4. ASSUME op.kind # "import"
      PROVE  /\ \A p \in Jobs : p.id # op.id => Clear(p, op.to)
             /\ \A i \in DOMAIN op.to[3] : op.to[3][i] \in 1..requested + 1
  <2>1. PICK d \in Library : /\ d \in DOMAIN disk \/ d[3] = <<>>
                             /\ op.to[2] = d[2]
                             /\ \A j : Uses(op.to, j) => j = requested + 1 \/ Uses(d, j)
    BY <1>4 DEF OperationMade
  <2>2. ASSUME NEW j, Uses(d, j) PROVE d \in DOMAIN disk
    BY <2>1, <2>2, UsesNothing
  <2>3. ASSUME NEW p \in Jobs, p.id # op.id PROVE Clear(p, op.to)
    <3>1. CASE Uses(d, p.id)
      <4>1. Clear(p, d)
        BY <2>2, <3>1 DEF ShelfInv, NamesClear
      <4> QED BY <2>1, <3>1, <4>1 DEF Clear
    <3>2. CASE ~Uses(d, p.id)
      BY <1>1, <2>1, <2>3, <3>2 DEF Clear
    <3> QED BY <3>1, <3>2
  <2>4. ASSUME NEW i \in DOMAIN op.to[3] PROVE op.to[3][i] \in 1..requested + 1
    <3>1. PICK j : j = op.to[3][i]
      OBVIOUS
    <3>2. j = requested + 1 \/ Uses(d, j)
      BY <2>1, <3>1 DEF Uses
    <3>3. Uses(d, j) => j \in 1..requested
      <4>1. SUFFICES ASSUME Uses(d, j) PROVE j \in 1..requested
        OBVIOUS
      <4>2. d \in DOMAIN disk
        BY <2>2, <4>1
      <4> QED BY <4>1, <4>2 DEF ShelfInv, NamesClear, Uses
    <3>4. j \in 1..requested + 1
      BY <1>1, <3>2, <3>3
    <3> QED BY <3>1, <3>4
  <2> QED BY <2>3, <2>4
<1> QED BY <1>2, <1>3, <1>4 DEF Clear

\* Request keeps the invariant.
LEMMA RequestKeeps ==
  ASSUME ShelfInv, NEW op \in Operations, Request(op)
  PROVE  ShelfInv'
<1>1. /\ SkillTypes /\ QueueInv /\ ImportsKnown /\ NamesClear /\ TargetFree
      /\ \A p \in Jobs : Handles(p)
      /\ Handled => ImportsWhole /\ OwedSafe
  BY DEF ShelfInv
<1>2. /\ requested' = requested + 1 /\ UNCHANGED <<platform, serial, disk, owed>>
      /\ imported' = imported \cup (IF op.kind = "import" THEN {[id |-> op.id, temp |-> op.temp]} ELSE {})
  BY DEF Request
<1>3. OperationMade(op)
  BY <1>1, OperationIs
<1>4. /\ op \in Managed \cup Imports /\ op.id = requested + 1 /\ Waiting(op) /\ op.todo = {}
      /\ op.kind # "import" => op.step = "check"
      /\ op.kind = "import" => op.step = "extract"
      /\ op.kind \in {"copy", "archive"} => op.to[3] = Append(op.from[3], op.id)
  BY <1>3 DEF OperationMade
<1>5. /\ operations' \in Seq(Managed \cup Imports)
      /\ work' \in [Workers -> Managed \cup Imports \cup {Idle}]
      /\ QueueInv' /\ Jobs' = Jobs \cup {op} /\ \A p \in Jobs : p.id # op.id /\ p \in Managed \cup Imports
  BY <1>3, RequestQueues
<1>6. requested \in Nat /\ op.id \in 1..requested' /\ 1..requested \subseteq 1..requested'
  BY <1>1, <1>2, <1>4 DEF SkillTypes
<1>7. SkillTypes'
  BY <1>1, <1>2, <1>5 DEF SkillTypes
<1>8. ImportsKnown'
  <2>1. \A a \in imported : a = [id |-> a.id, temp |-> a.temp] /\ a.id \in 1..requested'
    BY <1>1, <1>6 DEF ImportsKnown
  <2>2. ASSUME NEW a \in imported' \ imported PROVE a = [id |-> a.id, temp |-> a.temp] /\ a.id \in 1..requested'
    <3>1. a = [id |-> op.id, temp |-> op.temp]
      BY <1>2, <2>2
    <3> QED BY <1>6, <3>1
  <2> QED BY <2>1, <2>2 DEF ImportsKnown
<1>9. ASSUME NEW p \in Jobs PROVE Handles(p)'
  <2>1. Handles(p) /\ imported \subseteq imported'
    BY <1>1, <1>2, <1>9
  <2> QED BY <1>2, <1>6, <2>1 DEF Handles
<1>10. Handles(op)'
  <2>1. op.kind = "import" => [id |-> op.id, temp |-> op.temp] \in imported'
    BY <1>2
  <2>2. op.kind # "import" => op.kind \in {"rename", "copy", "archive", "unarchive"}
    BY <1>4, JobIs
  <2> QED BY <1>4, <1>6, <2>1, <2>2 DEF Handles
<1>11. NamesClear'
  <2>1. \A d \in DOMAIN disk' : \A i \in DOMAIN d[3] : d[3][i] \in 1..requested'
    BY <1>1, <1>2, <1>6 DEF NamesClear
  <2>2. \A p \in Jobs' : \A d \in DOMAIN disk' : Clear(p, d)
    BY <1>1, <1>2, <1>3, <1>5, RequestedClear DEF NamesClear
  <2>3. ASSUME NEW q \in Jobs', NEW p \in Jobs', q.id # p.id, p.kind # "import" PROVE Clear(q, p.to)
    <3>1. CASE p \in Jobs /\ q \in Jobs
      BY <1>1, <2>3, <3>1 DEF NamesClear
    <3>2. CASE p \in Jobs /\ q = op
      BY <1>3, <2>3, <3>2, RequestedClear
    <3>3. CASE p = op /\ q \in Jobs
      BY <1>3, <2>3, <3>3, RequestedClear
    <3> QED BY <1>5, <2>3, <3>1, <3>2, <3>3
  <2>4. ASSUME NEW p \in Jobs', p.kind # "import" PROVE \A i \in DOMAIN p.to[3] : p.to[3][i] \in 1..requested'
    <3>1. CASE p \in Jobs
      BY <1>1, <1>6, <2>4, <3>1 DEF NamesClear
    <3>2. CASE p = op
      BY <1>2, <1>3, <2>4, <3>2, RequestedClear
    <3> QED BY <1>5, <3>1, <3>2
  <2> QED BY <2>1, <2>2, <2>3, <2>4 DEF NamesClear, Clear, Remaining
<1>12. TargetFree'
  <2>1. FreeFor(op)'
    BY <1>4 DEF Waiting, FreeFor
  <2>2. serial => \A p \in Jobs : FreeFor(p)'
    BY <1>1, <1>2 DEF TargetFree, FreeFor
  <2> QED BY <1>2, <1>5, <2>1, <2>2 DEF TargetFree
<1>13. ASSUME Handled' PROVE ImportsWhole' /\ OwedSafe'
  <2>1. Handled
    BY <1>2, <1>13 DEF Handled, Crowded
  <2>2. OwedSafe'
    BY <1>1, <1>2, <2>1 DEF OwedSafe, Safe
  <2>3. WholeOf(op)'
    BY <1>4 DEF WholeOf
  <2>4. ASSUME NEW p \in Jobs PROVE WholeOf(p)'
    <3>1. WholeOf(p)
      BY <1>1, <2>1, <2>4 DEF ImportsWhole
    <3>2. \A s : Safe(s) => Safe(s)'
      BY <1>2 DEF Safe
    <3>3. \A n : Here(p, n) => Here(p, n)'
      BY <1>2 DEF Here
    <3>4. ASSUME Doomed(p) PROVE Doomed(p)'
      <4>1. PICK b \in imported : b.temp = p.temp /\ b.id # p.id /\ \A q \in Jobs : q.id # b.id
        BY <3>4 DEF Doomed
      <4>2. b.id # op.id /\ b \in imported'
        BY <1>1, <1>2, <1>4, <1>6, <4>1 DEF ImportsKnown
      <4>3. \A q \in Jobs' : q.id # b.id
        BY <1>5, <4>1, <4>2
      <4> QED BY <1>2, <3>4, <4>1, <4>2, <4>3 DEF Doomed, At
    <3> QED BY <3>1, <3>2, <3>3, <3>4 DEF WholeOf, Remaining
  <2> QED BY <1>5, <2>2, <2>3, <2>4 DEF ImportsWhole
<1> QED BY <1>5, <1>7, <1>8, <1>9, <1>10, <1>11, <1>12, <1>13 DEF ShelfInv

\* Fewer operations, and nothing else.
LEMMA FewerKeep ==
  ASSUME ShelfInv, UNCHANGED <<platform, serial, disk, processing, work, requested, imported, owed>>,
         operations' = operations \/ (operations' = <<>> /\ serial)
  PROVE  ShelfInv'
<1>1. /\ SkillTypes /\ QueueInv /\ ImportsKnown /\ NamesClear /\ TargetFree
      /\ \A p \in Jobs : Handles(p)
      /\ Handled => ImportsWhole /\ OwedSafe
  BY DEF ShelfInv
<1>2. PICK q : q = operations'
  OBVIOUS
<1>3. Busy' = Busy
  BY DEF Busy
<1>4. q \in Seq(Managed \cup Imports) /\ (q = operations \/ DOMAIN q = {})
  <2>1. q = operations \/ q = <<>>
    BY <1>2
  <2>2. CASE q = operations
    BY <1>1, <2>2 DEF SkillTypes
  <2>3. CASE q = <<>>
    BY <2>3
  <2> QED BY <2>1, <2>2, <2>3
<1>5. Jobs' \subseteq Jobs
  BY <1>2, <1>3, <1>4 DEF Jobs
<1>6. SkillTypes'
  BY <1>1, <1>2, <1>4 DEF SkillTypes
<1>7. QueueInv'
  BY <1>1, <1>2, <1>3, <1>4 DEF QueueInv
<1>8. ImportsKnown' /\ \A p \in Jobs' : Handles(p)'
  BY <1>1, <1>5 DEF ImportsKnown, Handles
<1>9. NamesClear'
  BY <1>1, <1>5 DEF NamesClear, Clear, Remaining
<1>10. TargetFree'
  BY <1>1, <1>5 DEF TargetFree, FreeFor
<1>11. ASSUME Handled' PROVE ImportsWhole' /\ OwedSafe'
  <2>1. Handled
    BY <1>11 DEF Handled, Crowded
  <2>2. OwedSafe'
    BY <1>1, <2>1 DEF OwedSafe, Safe
  <2>3. ASSUME NEW p \in Jobs' PROVE WholeOf(p)'
    <3>1. WholeOf(p)
      BY <1>1, <1>5, <2>1, <2>3 DEF ImportsWhole
    <3>2. \A s : Safe(s) => Safe(s)'
      BY DEF Safe
    <3>3. \A n : Here(p, n) => Here(p, n)'
      BY DEF Here
    <3>4. Doomed(p) => Doomed(p)'
      BY <1>5 DEF Doomed, At
    <3> QED BY <3>1, <3>2, <3>3, <3>4 DEF WholeOf, Remaining
  <2> QED BY <2>2, <2>3 DEF ImportsWhole
<1> QED BY <1>6, <1>7, <1>8, <1>9, <1>10, <1>11 DEF ShelfInv

\* The invariant holds at first, ...
LEMMA ShelfFirst ==
  ASSUME SkillInit
  PROVE  ShelfInv
<1>1. /\ serial \in BOOLEAN /\ operations = <<>> /\ processing = FALSE /\ requested = 0 /\ imported = {}
      /\ work = [w \in Workers |-> Idle] /\ owed = {Own(n) : n \in OnlineNames}
      /\ disk = [d \in {Dir("online", n, <<>>) : n \in OnlineNames} |-> Own(d[2])]
  BY DEF SkillInit
<1>2. Busy = {} /\ DOMAIN operations = {} /\ Jobs = {}
  BY <1>1 DEF Busy, Jobs
<1>3. ASSUME NEW n \in OnlineNames
      PROVE  /\ Dir("online", n, <<>>) \in Library /\ Dir("online", n, <<>>)[3] = <<>>
             /\ Dir("online", n, <<>>)[2] = n
  <2>1. n \in Bases /\ n # "bad"
    BY SkillAssumption DEF Bases
  <2>2. 0 \in Nat
    OBVIOUS
  <2> QED BY <2>1, <2>2, ImportNames DEF Dir
<1>4. DOMAIN disk = {Dir("online", n, <<>>) : n \in OnlineNames}
  BY <1>1
<1>5. \A d \in DOMAIN disk : d \in Library /\ d \in Dirs /\ d[3] = <<>>
  BY <1>3, <1>4, LibraryIs
<1>6. SkillTypes
  BY <1>1, <1>5 DEF SkillTypes
<1>7. QueueInv
  BY <1>1, <1>2 DEF QueueInv
<1>8. NamesClear
  BY <1>2, <1>5 DEF NamesClear
<1>9. OwedSafe
  <2>1. ASSUME NEW n \in OnlineNames PROVE Safe(Own(n))
    <3>1. PICK d : d = Dir("online", n, <<>>)
      OBVIOUS
    <3>2. d \in DOMAIN disk /\ d \in Library /\ d[2] = n
      BY <1>3, <1>4, <3>1
    <3>3. disk[d] = Own(n)
      BY <1>1, <1>4, <3>2
    <3> QED BY <3>2, <3>3 DEF Safe
  <2> QED BY <1>1, <2>1 DEF OwedSafe
<1> QED BY <1>1, <1>2, <1>6, <1>7, <1>8, <1>9 DEF ShelfInv, ImportsKnown, TargetFree, ImportsWhole

\* ... and every step keeps it.
LEMMA ShelfStep ==
  ASSUME ShelfInv, [SkillNext]_skillVars
  PROVE  ShelfInv'
<1>1. CASE UNCHANGED skillVars
  BY <1>1, FewerKeep DEF skillVars
<1>2. CASE \E op \in Operations : Request(op)
  BY <1>2, RequestKeeps
<1>3. CASE ClearQueue
  <2>1. serial
    BY <1>3 DEF ClearQueue, ShelfInv, QueueInv
  <2> QED BY <1>3, <2>1, FewerKeep DEF ClearQueue
<1>4. ASSUME NEW w \in Workers,
             \/ CheckSource(w) \/ CheckTarget(w) \/ CopySkill(w)
             \/ SafeRename(w) \/ RemoveSource(w)
             \/ ExtractZip(w) \/ ListZip(w) \/ NextEntry(w) \/ CleanTemp(w)
      PROVE  ShelfInv'
  BY <1>4, CheckSourceKeeps, CheckTargetKeeps, CopySkillKeeps, SafeRenameKeeps, RemoveSourceKeeps,
     ExtractZipKeeps, ListZipKeeps, NextEntryKeeps, CleanTempKeeps
<1>5. CASE Loading
  BY <1>5, FewerKeep DEF Loading
<1>6. ASSUME NEW l \in Loaders,
             \/ \E name \in OnlineNames : LoadSkill(l, name)
             \/ ListSkills(l) \/ ScanSkill(l) \/ GetSkill(l)
      PROVE  Loading
  BY <1>6 DEF LoadSkill, ListSkills, ScanSkill, GetSkill
<1> QED BY <1>1, <1>2, <1>3, <1>4, <1>5, <1>6 DEF SkillNext

-----------------------------------------------------------------------------
\* The loads.
LEMMA LoadUndisturbed ==
  ASSUME LoadInv, UNCHANGED <<restricted, cache>>, NEW dirs, DiskBecomes(dirs)
  PROVE  LoadInv'
<1>1. load \in [Loaders -> LoadTypes \cup {Idle}]
  BY DEF LoadInv
<1>2. disk' = dirs
  BY DEF DiskBecomes
<1>3. ASSUME NEW l \in Loaders
      PROVE  \/ load'[l] = load[l] /\ (load[l].kind \in {"list", "scan"} => Wanted(l) \in DOMAIN disk')
             \/ load[l].kind \in {"list", "scan"} /\ load'[l] = [load[l] EXCEPT !.steady = FALSE]
  BY <1>2 DEF DiskBecomes
<1>4. load' = [l \in Loaders |-> load'[l]]
  BY DEF DiskBecomes
<1>5. Idle.kind = "idle"
  BY DEF Idle
<1>6. ASSUME NEW l \in Loaders
      PROVE  /\ load'[l] \in LoadTypes \cup {Idle}
             /\ load[l].kind \in {"list", "scan"} /\ load'[l].steady =>
                   load'[l] = load[l] /\ Wanted(l) \in DOMAIN disk'
             /\ load[l].kind \notin {"list", "scan"} => load'[l] = load[l]
             /\ load'[l].kind = load[l].kind
  <2>1. CASE load'[l] = load[l] /\ (load[l].kind \in {"list", "scan"} => Wanted(l) \in DOMAIN disk')
    BY <1>1, <2>1
  <2>2. CASE load[l].kind \in {"list", "scan"} /\ load'[l] = [load[l] EXCEPT !.steady = FALSE]
    <3>1. PICK r : r = load[l]
      OBVIOUS
    <3>2. r \in LoadTypes
      BY <1>1, <1>5, <2>2, <3>1
    <3>3. PICK s : s = [r EXCEPT !.steady = FALSE]
      OBVIOUS
    <3>4. s \in LoadTypes /\ ~s.steady /\ s.kind = r.kind
      BY <3>2, <3>3 DEF LoadTypes
    <3> QED BY <2>2, <3>1, <3>3, <3>4
  <2> QED BY <1>3, <2>1, <2>2
<1>7. load' \in [Loaders -> LoadTypes \cup {Idle}]
  BY <1>4, <1>6
<1>8. ASSUME NEW l \in Loaders, load'[l] = load[l] PROVE Wanted(l)' = Wanted(l)
  BY <1>8 DEF Wanted
<1>9. ASSUME NEW l \in Loaders
      PROVE  /\ load'[l].kind \in {"list", "scan"} /\ load'[l].steady => Wanted(l)' \in DOMAIN disk'
             /\ load'[l].kind = "scan" /\ load'[l].steady /\ load'[l].alone /\ Allowed(Wanted(l))' =>
                   Wanted(l)' \in load'[l].todo \cup cache'
             /\ load'[l].kind = "done" /\ load'[l].steady /\ load'[l].alone /\ Allowed(Wanted(l))' =>
                   load'[l].found
  <2>1. CASE load'[l] = load[l]
    <3>1. Wanted(l)' = Wanted(l)
      BY <1>8, <2>1
    <3>2. PICK e : e = Wanted(l)
      OBVIOUS
    <3>3. Allowed(e)' = Allowed(e)
      BY DEF Allowed
    <3>4. Allowed(Wanted(l))' = Allowed(e)'
      BY <3>1, <3>2 DEF Allowed
    <3> QED BY <1>6, <2>1, <3>1, <3>2, <3>3, <3>4 DEF LoadInv, LoadFinds
  <2>2. CASE load'[l] # load[l]
    BY <1>6, <2>2
  <2> QED BY <2>1, <2>2
<1> QED BY <1>7, <1>9 DEF LoadInv, LoadFinds

\* A step that leaves the directories, the cache and the loads alone.
LEMMA LoadSame ==
  ASSUME LoadInv, UNCHANGED <<restricted, disk, cache, load>>
  PROVE  LoadInv'
BY DEF LoadInv, LoadFinds, Wanted, Allowed

\* The loads but l are as they were, or a new load has emptied their cache.
LEMMA LoadOf ==
  ASSUME LoadInv, UNCHANGED <<restricted, disk>>, NEW l \in Loaders, NEW r \in LoadTypes,
         load' \in [Loaders -> LoadTypes \cup {Idle}], load'[l] = r,
         \A m \in Loaders \ {l} :
            \/ load'[m] = load[m] /\ (load[m].kind = "scan" => cache \subseteq cache')
            \/ ~load'[m].alone /\ load'[m].kind \in {"list", "scan"} /\ load[m].kind \in {"list", "scan"}
               /\ load'[m].steady = load[m].steady /\ load'[m].name = load[m].name,
         LET e == Dir("online", r.name, <<>>)
         IN /\ r.kind \in {"list", "scan"} /\ r.steady => e \in DOMAIN disk
            /\ r.kind = "scan" /\ r.steady /\ r.alone /\ Allowed(e) => e \in r.todo \cup cache'
            /\ r.kind = "done" /\ r.steady /\ r.alone /\ Allowed(e) => r.found
  PROVE  LoadInv'
<1>1. \A e : Allowed(e)' = Allowed(e)
  BY DEF Allowed
<1>2. ASSUME NEW m \in Loaders
      PROVE  /\ load'[m].kind \in {"list", "scan"} /\ load'[m].steady => Wanted(m)' \in DOMAIN disk
             /\ load'[m].kind = "scan" /\ load'[m].steady /\ load'[m].alone /\ Allowed(Wanted(m)') =>
                   Wanted(m)' \in load'[m].todo \cup cache'
             /\ load'[m].kind = "done" /\ load'[m].steady /\ load'[m].alone /\ Allowed(Wanted(m)') =>
                   load'[m].found
  <2>1. CASE m = l
    <3>1. Wanted(m)' = Dir("online", r.name, <<>>)
      BY <2>1 DEF Wanted
    <3> QED BY <2>1, <3>1
  <2>2. CASE m # l /\ load'[m] = load[m] /\ (load[m].kind = "scan" => cache \subseteq cache')
    <3>1. Wanted(m)' = Wanted(m)
      BY <2>2 DEF Wanted
    <3> QED BY <2>2, <3>1 DEF LoadInv, LoadFinds
  <2>3. CASE m # l /\ ~load'[m].alone /\ load'[m].kind \in {"list", "scan"} /\ load[m].kind \in {"list", "scan"}
               /\ load'[m].steady = load[m].steady /\ load'[m].name = load[m].name
    <3>1. Wanted(m)' = Wanted(m)
      BY <2>3 DEF Wanted
    <3> QED BY <2>3, <3>1 DEF LoadInv
  <2> QED BY <2>1, <2>2, <2>3
<1>3. \A m \in Loaders : Allowed(Wanted(m))' = Allowed(Wanted(m)')
  BY DEF Allowed
<1> QED BY <1>2, <1>3 DEF LoadInv, LoadFinds

\* LoadSkill: those whose cache it empties are not alone any more.
LEMMA LoadSkillKeeps ==
  ASSUME LoadInv, NEW l \in Loaders, NEW name \in OnlineNames, LoadSkill(l, name)
  PROVE  LoadInv'
<1>1. PICK busy : busy = {m \in Loaders : load[m].kind \in {"list", "scan"}}
  OBVIOUS
<1>2. PICK r : r = [kind |-> "list", name |-> name, todo |-> {}, found |-> FALSE,
                    steady |-> FileExists(Dir("online", name, <<>>)), alone |-> busy = {}]
  OBVIOUS
<1>3. load' = [m \in Loaders |-> IF m = l THEN r ELSE IF m \in busy THEN [load[m] EXCEPT !.alone = FALSE] ELSE load[m]]
      /\ UNCHANGED <<restricted, disk>>
  BY <1>1, <1>2 DEF LoadSkill, Loading
<1>4. r \in LoadTypes
  <2>1. FileExists(Dir("online", name, <<>>)) \in BOOLEAN /\ (busy = {}) \in BOOLEAN
    BY DEF FileExists
  <2> QED BY <1>2, <2>1 DEF LoadTypes
<1>5. r.kind = "list" /\ r.name = name /\ (r.steady => Dir("online", name, <<>>) \in DOMAIN disk)
  BY <1>2 DEF FileExists
<1>6. ASSUME NEW m \in Loaders \ {l}
      PROVE  /\ load'[m] \in LoadTypes \cup {Idle}
             /\ \/ load'[m] = load[m] /\ load[m].kind \notin {"list", "scan"}
                \/ ~load'[m].alone /\ load'[m].kind \in {"list", "scan"} /\ load[m].kind \in {"list", "scan"}
                   /\ load'[m].steady = load[m].steady /\ load'[m].name = load[m].name
  <2>1. CASE m \notin busy
    BY <1>1, <1>3, <1>6, <2>1 DEF LoadInv
  <2>2. CASE m \in busy
    <3>1. PICK s, t : s = load[m] /\ t = [s EXCEPT !.alone = FALSE]
      OBVIOUS
    <3>2. s \in LoadTypes /\ s.kind \in {"list", "scan"}
      BY <1>1, <2>2, <3>1 DEF LoadInv, Idle
    <3>3. t \in LoadTypes /\ ~t.alone /\ t.kind = s.kind /\ t.steady = s.steady /\ t.name = s.name
      BY <3>1, <3>2 DEF LoadTypes
    <3>4. load'[m] = t
      BY <1>3, <1>6, <2>2, <3>1
    <3> QED BY <3>1, <3>2, <3>3, <3>4
  <2> QED BY <2>1, <2>2
<1>7. load'[l] = r /\ load' \in [Loaders -> LoadTypes \cup {Idle}]
  BY <1>3, <1>4, <1>6
<1> QED BY <1>3, <1>4, <1>5, <1>6, <1>7, LoadOf

\* ListSkills: a skill that is there is in what has to be read.
LEMMA ListSkillsKeeps ==
  ASSUME SkillTypes, LoadInv, NEW l \in Loaders, ListSkills(l)
  PROVE  LoadInv'
<1>1. PICK s, T : s = load[l] /\ T = At("online") \cup At("archived")
  OBVIOUS
<1>2. PICK r : r = [s EXCEPT !.todo = T, !.kind = "scan"]
  OBVIOUS
<1>3. s.kind = "list" /\ load' = [load EXCEPT ![l] = r] /\ UNCHANGED <<restricted, disk, cache>>
  BY <1>1, <1>2 DEF ListSkills, Loading
<1>4. s \in LoadTypes
  BY <1>1, <1>3 DEF LoadInv, Idle
<1>5. T \in SUBSET Dirs
  BY <1>1 DEF SkillTypes, At
<1>6. r \in LoadTypes /\ r.kind = "scan" /\ r.todo = T /\ r.steady = s.steady /\ r.name = s.name
  BY <1>2, <1>4, <1>5 DEF LoadTypes
<1>7. load' \in [Loaders -> LoadTypes \cup {Idle}] /\ load'[l] = r /\ \A m \in Loaders \ {l} : load'[m] = load[m]
  BY <1>3, <1>6 DEF LoadInv
<1>8. PICK e : e = Dir("online", r.name, <<>>)
  OBVIOUS
<1>9. r.steady => e \in DOMAIN disk /\ e \in T
  <2>1. e[1] = "online"
    BY <1>8 DEF Dir
  <2>2. r.steady => e \in DOMAIN disk
    BY <1>1, <1>3, <1>6, <1>8 DEF LoadInv, Wanted
  <2> QED BY <1>1, <2>1, <2>2 DEF At
<1> QED BY <1>3, <1>6, <1>7, <1>8, <1>9, LoadOf

\* ScanSkill: what was read and is allowed is in the cache.
LEMMA ScanSkillKeeps ==
  ASSUME LoadInv, NEW l \in Loaders, ScanSkill(l)
  PROVE  LoadInv'
<1>1. PICK s : s = load[l]
  OBVIOUS
<1>2. PICK d \in s.todo : /\ cache' = IF FileExists(d) /\ Allowed(d) THEN cache \cup {d} ELSE cache
                          /\ load' = [load EXCEPT ![l].todo = @ \ {d}]
  BY <1>1 DEF ScanSkill
<1>3. PICK r : r = [s EXCEPT !.todo = @ \ {d}]
  OBVIOUS
<1>4. s.kind = "scan" /\ load' = [load EXCEPT ![l] = r] /\ UNCHANGED <<restricted, disk>>
  BY <1>1, <1>2, <1>3 DEF ScanSkill, Loading
<1>5. s \in LoadTypes
  BY <1>1, <1>4 DEF LoadInv, Idle
<1>6. /\ r \in LoadTypes /\ r.kind = "scan" /\ r.todo = s.todo \ {d} /\ r.steady = s.steady /\ r.name = s.name
      /\ r.alone = s.alone
  BY <1>3, <1>4, <1>5 DEF LoadTypes
<1>7. load' \in [Loaders -> LoadTypes \cup {Idle}] /\ load'[l] = r /\ \A m \in Loaders \ {l} : load'[m] = load[m]
  BY <1>4, <1>6 DEF LoadInv
<1>8. cache \subseteq cache'
  BY <1>2
<1>9. PICK e : e = Dir("online", r.name, <<>>)
  OBVIOUS
<1>10. /\ s.steady => e \in DOMAIN disk
       /\ s.steady /\ s.alone /\ Allowed(e) => e \in s.todo \cup cache
  BY <1>1, <1>4, <1>6, <1>9 DEF LoadInv, Wanted
<1>11. r.steady /\ r.alone /\ Allowed(e) => e \in r.todo \cup cache'
  <2>1. CASE e = d
    BY <1>2, <1>6, <1>10, <2>1 DEF FileExists
  <2>2. CASE e # d
    BY <1>6, <1>8, <1>10, <2>2
  <2> QED BY <2>1, <2>2
<1> QED BY <1>4, <1>6, <1>7, <1>8, <1>9, <1>10, <1>11, LoadOf

\* GetSkill finds it there.
LEMMA GetSkillKeeps ==
  ASSUME LoadInv, NEW l \in Loaders, GetSkill(l)
  PROVE  LoadInv'
<1>1. PICK s, found : s = load[l] /\ found = (Wanted(l) \in cache /\ FileExists(Wanted(l)))
  OBVIOUS
<1>2. PICK r : r = [s EXCEPT !.kind = "done", !.found = found]
  OBVIOUS
<1>3. s.kind = "scan" /\ s.todo = {} /\ load' = [load EXCEPT ![l] = r] /\ UNCHANGED <<restricted, disk, cache>>
  BY <1>1, <1>2 DEF GetSkill, Loading
<1>4. s \in LoadTypes /\ found \in BOOLEAN
  BY <1>1, <1>3 DEF LoadInv, Idle
<1>5. /\ r \in LoadTypes /\ r.kind = "done" /\ r.found = found /\ r.steady = s.steady /\ r.name = s.name
      /\ r.alone = s.alone
  BY <1>2, <1>4 DEF LoadTypes
<1>6. load' \in [Loaders -> LoadTypes \cup {Idle}] /\ load'[l] = r /\ \A m \in Loaders \ {l} : load'[m] = load[m]
  BY <1>3, <1>5 DEF LoadInv
<1>7. PICK e : e = Dir("online", r.name, <<>>)
  OBVIOUS
<1>8. r.steady /\ r.alone /\ Allowed(e) => r.found
  <2>1. e = Wanted(l)
    BY <1>1, <1>5, <1>7 DEF Wanted
  <2>2. s.steady /\ s.alone /\ Allowed(e) => e \in DOMAIN disk /\ e \in cache
    BY <1>1, <1>3, <2>1 DEF LoadInv
  <2> QED BY <1>1, <1>5, <2>1, <2>2 DEF FileExists
<1> QED BY <1>3, <1>5, <1>6, <1>7, <1>8, LoadOf

\* No load is under way at first, ...
LEMMA LoadFirst ==
  ASSUME SkillInit
  PROVE  LoadInv
<1>1. load = [l \in Loaders |-> Idle] /\ Idle.kind = "idle"
  BY DEF SkillInit, Idle
<1> QED BY <1>1 DEF LoadInv, LoadFinds

\* ... and every step keeps what the loads rely on.
LEMMA LoadStep ==
  ASSUME SkillTypes, LoadInv, [SkillNext]_skillVars
  PROVE  LoadInv'
<1>1. CASE UNCHANGED skillVars
  BY <1>1, LoadSame DEF skillVars
<1>2. CASE \E op \in Operations : Request(op)
  BY <1>2, LoadSame DEF Request
<1>3. CASE ClearQueue
  BY <1>3, LoadSame DEF ClearQueue
<1>4. ASSUME NEW w \in Workers,
             \/ CheckSource(w) \/ CheckTarget(w) \/ CopySkill(w)
             \/ SafeRename(w) \/ RemoveSource(w)
             \/ ExtractZip(w) \/ ListZip(w) \/ NextEntry(w) \/ CleanTemp(w)
      PROVE  LoadInv'
  <2>1. UNCHANGED <<restricted, cache>>
    BY <1>4 DEF CheckSource, CheckTarget, CopySkill, SafeRename, RemoveSource, ExtractZip, ListZip, NextEntry,
                CleanTemp, Managing
  <2>2. CASE CheckSource(w) \/ CheckTarget(w) \/ ListZip(w) \/ NextEntry(w)
    <3>1. UNCHANGED <<disk, load>>
      BY <2>2 DEF CheckSource, CheckTarget, ListZip, NextEntry, Unmoved
    <3> QED BY <2>1, <3>1, LoadSame
  <2>3. CASE CopySkill(w)
    BY <2>1, <2>3, LoadUndisturbed DEF CopySkill
  <2>4. CASE SafeRename(w)
    <3>1. UNCHANGED <<disk, load>> \/ \E dirs : DiskBecomes(dirs)
      BY <2>4 DEF SafeRename, Unmoved
    <3> QED BY <2>1, <3>1, LoadSame, LoadUndisturbed
  <2>5. CASE RemoveSource(w)
    BY <2>1, <2>5, LoadUndisturbed DEF RemoveSource
  <2>6. CASE ExtractZip(w)
    BY <2>1, <2>6, LoadUndisturbed DEF ExtractZip
  <2>7. CASE CleanTemp(w)
    BY <2>1, <2>7, LoadUndisturbed DEF CleanTemp
  <2> QED BY <1>4, <2>2, <2>3, <2>4, <2>5, <2>6, <2>7
<1>5. ASSUME NEW l \in Loaders,
             \/ \E name \in OnlineNames : LoadSkill(l, name)
             \/ ListSkills(l) \/ ScanSkill(l) \/ GetSkill(l)
      PROVE  LoadInv'
  BY <1>5, LoadSkillKeeps, ListSkillsKeeps, ScanSkillKeeps, GetSkillKeeps
<1> QED BY <1>1, <1>2, <1>3, <1>4, <1>5 DEF SkillNext

\* The invariant says that the skills are kept.
LEMMA ShelfKeepsSkills ==
  ASSUME ShelfInv, LoadInv
  PROVE  SkillsKept
<1>1. NoSkillLost
  <2>1. ASSUME Handled, NEW s \in owed PROVE \E r \in ListOnline \cup ListArchivedSkills : r.skill = s
    <3>1. PICK d \in DOMAIN disk : d \in Library /\ disk[d] = s
      BY <2>1 DEF ShelfInv, OwedSafe, Safe
    <3>2. (d[1] = "online" \/ d[1] = "archived") /\ ~IsBad(d)
      BY <3>1 DEF Library, Shelves
    <3>3. CASE d[1] = "online"
      <4>1. PICK r : r = [folderName |-> d, skill |-> disk[d]]
        OBVIOUS
      <4>2. r \in ListOnline
        BY <3>2, <3>3, <4>1 DEF ListOnline, At
      <4> QED BY <3>1, <4>1, <4>2
    <3>4. CASE d[1] = "archived"
      <4>1. PICK r : r = [folderName |-> d, originalName |-> OriginalName(d), skill |-> disk[d]]
        OBVIOUS
      <4>2. r \in ListArchivedSkills
        BY <3>2, <3>4, <4>1 DEF ListArchivedSkills, At
      <4> QED BY <3>1, <4>1, <4>2
    <3> QED BY <3>2, <3>3, <3>4
  <2> QED BY <2>1 DEF NoSkillLost, Handled
<1>2. QueueMoves
  <2>1. QueueInv
    BY DEF ShelfInv
  <2>2. operations # <<>> => processing
    BY <2>1 DEF QueueInv
  <2>3. ASSUME serial PROVE Cardinality(Busy) = IF processing THEN 1 ELSE 0
    <3>1. CASE processing
      <4>1. PICK w \in Workers : Busy = {w}
        BY <2>1, <2>3, <3>1 DEF QueueInv
      <4> QED BY <3>1, <4>1, FS_Singleton
    <3>2. CASE ~processing
      BY <2>1, <2>3, <3>2, FS_EmptySet DEF QueueInv
    <3> QED BY <3>1, <3>2
  <2> QED BY <2>2, <2>3 DEF QueueMoves, Busy
<1> QED BY <1>1, <1>2 DEF SkillsKept, LoadInv

\* Managing skills loses none, whatever else goes on at the time - but for three imports in one
\* millisecond, and for a move by copying outside the queue: see NoSkillLost; the queue does not
\* stop; and a load finds the skill that was there all the time (SkillsManagementManager,
\* OperationQueue, SkillsManager).
THEOREM SkillsHold == SkillSpec => []SkillsKept
<1>1. SkillInit => ShelfInv /\ LoadInv
  BY ShelfFirst, LoadFirst
<1>2. ShelfInv /\ LoadInv /\ [SkillNext]_skillVars => (ShelfInv /\ LoadInv)'
  <2>1. SUFFICES ASSUME ShelfInv, LoadInv, [SkillNext]_skillVars PROVE ShelfInv' /\ LoadInv'
    OBVIOUS
  <2>2. ShelfInv'
    BY <2>1, ShelfStep
  <2>3. LoadInv'
    BY <2>1, LoadStep DEF ShelfInv
  <2> QED BY <2>2, <2>3
<1>3. ShelfInv /\ LoadInv => SkillsKept
  BY ShelfKeepsSkills
<1> QED BY <1>1, <1>2, <1>3, PTL DEF SkillSpec
=============================================================================
