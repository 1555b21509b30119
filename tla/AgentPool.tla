------------------------------ MODULE AgentPool -----------------------------
(***************************************************************************)
(* src/core/pool.ts: the map of live agents of one process, the calls that *)
(* fill and empty it, the shutdown that lists its agents, and the next     *)
(* process, which resumes them from that list.                             *)
(*                                                                         *)
(* create() and resume() test the map, build an agent over several awaits  *)
(* (Agent.create and Agent.resume of src/core/agent.ts), and only then     *)
(* write the map.  One action is the code from one await to the next, so   *)
(* calls, deletions and the shutdown interleave at every await.            *)
(***************************************************************************)
EXTENDS Integers, SequencesExt

CONSTANTS Ids,          \* agent ids
          NoId,         \* none of them
          Callers,      \* the callers that may use the pool at the same time
          MaxAgents,    \* opts.maxAgents
          MaxCalls,     \* bound: calls of create, resume, delete and the batches
          MaxRestarts,  \* bound: ends of the process, by a crash or an exit
          MaxFaults     \* bound: agents, store operations, interrupts that fail

ASSUME IdsAssumption == IsFiniteSet(Ids) /\ NoId \notin Ids
ASSUME CallersAssumption == IsFiniteSet(Callers) /\ Callers # {}
ASSUME PoolAssumption ==
    MaxAgents \in Nat \ {0} /\ MaxCalls \in Nat /\ MaxRestarts \in Nat /\ MaxFaults \in Nat

VARIABLES
    agents,   \* the keys of the map this.agents, in insertion order
    call,     \* Callers -> where the call of each caller is
    down,     \* gracefulShutdown()
    stored,   \* ids whose session the store holds, with its metadata
    list,     \* the agents listed under '__pool_meta__', {} if there is no list
    past,     \* history: what the saved list still owes, and whether it may stay owed
    env       \* how much of the bounds is used up

vars == <<agents, call, down, stored, list, past, env>>

\* Awaits of a call: the store's exists(); loadInfo(); the rest of the agent's
\* construction up to its persistInfo(), and behind it; between two agents of a
\* batch; the store's delete() of a session, and of the list.
Building == {"exists", "load", "build", "settle"}
CallPcs == Building \cup {"idle", "next", "remove", "clear"}
Batches == {"one", "all", "listed"}    \* a single call, resumeAll, resumeFromShutdown
Calls == [pc : CallPcs, batch : Batches, id : Ids \cup {NoId}, rest : SUBSET Ids]
NoCall == [pc |-> "idle", batch |-> "one", id |-> NoId, rest |-> {}]

Outcomes == {"completed", "interrupted", "failed"}
Sighting == [id : Ids, state : Outcomes \cup {"ready", "working"}]
Up == [pc |-> "up", ids |-> {}, kept |-> {}, pos |-> 0, seen |-> <<>>]

TypeOK ==
    /\ agents \in Seq(Ids) /\ IsInjective(agents)
    /\ call \in [Callers -> Calls]
    /\ \A w \in Callers : call[w].pc \in Building \cup {"remove"} => call[w].id \in Ids
    /\ down \in [pc : {"up", "visiting", "waiting", "done"}, ids : SUBSET Ids,
                 kept : SUBSET Ids, pos : Nat, seen : Seq(Sighting)]
    /\ down.pos <= Len(agents)
    /\ stored \subseteq Ids /\ list \subseteq Ids
    /\ past \in [owed : SUBSET Ids, excused : BOOLEAN]
    /\ env \in [calls : Nat, restarts : Nat, faults : Nat]

Init ==
    /\ agents = <<>>
    /\ call = [w \in Callers |-> NoCall]
    /\ down = Up
    /\ stored \in SUBSET Ids
    /\ list = {}
    /\ past = [owed |-> {}, excused |-> FALSE]
    /\ env = [calls |-> 0, restarts |-> 0, faults |-> 0]

Pooled == ToSet(agents)
Full == Len(agents) >= MaxAgents

\* Faulty variant: a second entry for an agent that another call has put there.
PutAgain(id) == Append(agents, id)

\* this.agents.set(): a key that is there keeps its place.
Put(id) == IF id \in Pooled THEN agents ELSE Append(agents, id)

Fault ==
    /\ env.faults < MaxFaults
    /\ env' = [env EXCEPT !.faults = @ + 1]

StartCall ==
    /\ env.calls < MaxCalls
    /\ env' = [env EXCEPT !.calls = @ + 1]

Goto(w, pc) == call' = [call EXCEPT ![w].pc = pc]

\* A call for one agent is over: so is the caller's, unless it is a batch.
Return(w) ==
    call' = [call EXCEPT ![w] = IF @.batch = "one" THEN NoCall
                                ELSE [@ EXCEPT !.pc = "next", !.id = NoId]]

\* resumeFromShutdown() has dealt with an agent of its list.
DealtWith(w, id) ==
    past' = IF call[w].batch = "listed" THEN [past EXCEPT !.owed = @ \ {id}] ELSE past

----------------------------------------------------------------------------
\* create(), to its first await.  A present agent or a full pool throws.
Create(w, id) ==
    /\ call[w].pc = "idle" /\ StartCall
    /\ id \notin Pooled /\ ~Full
    /\ call' = [call EXCEPT ![w] = [NoCall EXCEPT !.pc = "build", !.id = id]]
    /\ UNCHANGED <<agents, down, stored, list, past>>

\* Faulty variant: the capacity is left to create().
ResumeUnlimited(w, id) ==
    /\ call[w].pc = "idle" /\ StartCall
    /\ id \notin Pooled
    /\ call' = [call EXCEPT ![w] = [NoCall EXCEPT !.pc = "exists", !.id = id]]
    /\ UNCHANGED <<agents, down, stored, list, past>>

\* resume(), to its first await.  A present agent is returned as it is.
Resume(w, id) ==
    /\ call[w].pc = "idle" /\ StartCall
    /\ id \notin Pooled /\ ~Full
    /\ call' = [call EXCEPT ![w] = [NoCall EXCEPT !.pc = "exists", !.id = id]]
    /\ UNCHANGED <<agents, down, stored, list, past>>

\* resumeAll() with the answer of store.list().
ResumeAll(w) ==
    /\ call[w].pc = "idle" /\ StartCall
    /\ call' = [call EXCEPT ![w] = [pc |-> "next", batch |-> "all", id |-> NoId, rest |-> stored]]
    /\ UNCHANGED <<agents, down, stored, list, past>>

\* Faulty variant: the list is consumed when it is read.
ResumeFromShutdownOnce(w) ==
    /\ call[w].pc = "idle" /\ StartCall
    /\ list # {}
    /\ call' = [call EXCEPT ![w] = [pc |-> "next", batch |-> "listed", id |-> NoId, rest |-> list]]
    /\ list' = {}
    /\ UNCHANGED <<agents, down, stored, past>>

\* resumeFromShutdown() with the list that loadRunningAgentsList() has read.
ResumeFromShutdown(w) ==
    /\ call[w].pc = "idle" /\ StartCall
    /\ list # {}
    /\ call' = [call EXCEPT ![w] = [pc |-> "next", batch |-> "listed", id |-> NoId, rest |-> list]]
    /\ UNCHANGED <<agents, down, stored, list, past>>

\* The resume() of the next agent of a batch, to its first await.
Attempt(c, id) == [c EXCEPT !.pc = "exists", !.id = id, !.rest = @ \ {id}]

\* The head of the loop of either batch.  A full pool ends the batch with
\* agents left; resumeFromShutdown() clears its list after that as well.
NextOfBatch(w) ==
    /\ call[w].pc = "next"
    /\ \/ /\ call[w].rest = {} \/ Full
          /\ past' = [past EXCEPT !.excused =
                           @ \/ (call[w].batch = "listed" /\ call[w].rest # {})]
          /\ IF call[w].batch = "listed" THEN Goto(w, "clear")
             ELSE call' = [call EXCEPT ![w] = NoCall]
       \/ /\ ~Full
          /\ \E id \in call[w].rest :
                IF id \in Pooled
                THEN /\ call' = [call EXCEPT ![w].rest = @ \ {id}]
                     /\ DealtWith(w, id)
                ELSE /\ call' = [call EXCEPT ![w] = Attempt(call[w], id)]
                     /\ UNCHANGED past
    /\ UNCHANGED <<agents, down, stored, list, env>>

\* The call of one agent throws, and a batch logs it and goes on.
Throws(w) ==
    /\ Return(w)
    /\ DealtWith(w, call[w].id)
    /\ UNCHANGED <<agents, down, stored, list>>

\* store.exists() has answered, then loadInfo(): a session that is gone throws.
Exists(w) ==
    /\ call[w].pc = "exists"
    /\ \/ /\ call[w].id \in stored /\ Goto(w, "load")
          /\ UNCHANGED <<agents, down, stored, list, past, env>>
       \/ call[w].id \notin stored /\ Throws(w) /\ UNCHANGED env

Loaded(w) ==
    /\ call[w].pc = "load"
    /\ \/ /\ call[w].id \in stored /\ Goto(w, "build")
          /\ UNCHANGED <<agents, down, stored, list, past, env>>
       \/ call[w].id \notin stored /\ Throws(w) /\ UNCHANGED env

\* persistInfo() at the end of Agent.initialize(): the session is in the store,
\* again if it was deleted since.
Persisted(w) ==
    /\ call[w].pc = "build" /\ Goto(w, "settle")
    /\ stored' = stored \cup {call[w].id}
    /\ UNCHANGED <<agents, down, list, past, env>>

\* The agent is there: this.agents.set().
Registered(w) ==
    /\ call[w].pc = "settle" /\ Return(w)
    /\ agents' = Put(call[w].id)
    /\ DealtWith(w, call[w].id)
    /\ UNCHANGED <<down, stored, list, env>>

\* A template, sandbox, tool or store that fails.
BuildFails(w) == call[w].pc \in Building /\ Fault /\ Throws(w)

----------------------------------------------------------------------------
\* Faulty variant: the iteration counts on positions that a deletion shifts.
UnshiftedPosition(i) == down.pos

\* An iterator over the map loses nothing when an entry it has passed goes.
ShiftedPosition(i) == IF i <= down.pos THEN down.pos - 1 ELSE down.pos

\* delete(), to its await: the map forgets the agent at once.
Delete(w, id) ==
    /\ call[w].pc = "idle" /\ StartCall
    /\ call' = [call EXCEPT ![w] = [NoCall EXCEPT !.pc = "remove", !.id = id]]
    /\ \/ id \notin Pooled /\ UNCHANGED <<agents, down>>
       \/ \E i \in 1..Len(agents) :
              /\ agents[i] = id
              /\ agents' = RemoveAt(agents, i)
              /\ down' = [down EXCEPT !.pos = ShiftedPosition(i), !.kept = @ \ {id}]
    /\ UNCHANGED <<stored, list, past>>

\* store.delete() has removed the session, or failed.
Removed(w) ==
    /\ call[w].pc = "remove"
    /\ call' = [call EXCEPT ![w] = NoCall]
    /\ \/ stored' = stored \ {call[w].id} /\ UNCHANGED env
       \/ Fault /\ UNCHANGED stored
    /\ UNCHANGED <<agents, down, list, past>>

\* clearRunningAgentsList(), which ignores a failure.
Cleared(w) ==
    /\ call[w].pc = "clear"
    /\ call' = [call EXCEPT ![w] = NoCall]
    /\ \/ list' = {} /\ UNCHANGED env
       \/ Fault /\ UNCHANGED list
    /\ UNCHANGED <<agents, down, stored, past>>

----------------------------------------------------------------------------
\* gracefulShutdown().  Nothing stops the calls that are in progress or that
\* start while it runs.  The ids to list are taken here; the first turn of the
\* loop follows at once, and that others may come before it only adds behaviours.
BeginShutdown ==
    /\ down.pc = "up"
    /\ down' = [Up EXCEPT !.pc = "visiting", !.ids = Pooled, !.kept = Pooled]
    /\ UNCHANGED <<agents, call, stored, list, past, env>>

\* One turn of the loop over the live map, with the await of status().
Visit ==
    /\ down.pc = "visiting" /\ down.pos < Len(agents)
    /\ \E state \in {"ready", "working"} :
          down' = [down EXCEPT !.pos = @ + 1,
                               !.seen = Append(@, [id |-> agents[down.pos + 1], state |-> state])]
    /\ UNCHANGED <<agents, call, stored, list, past, env>>

\* The map is exhausted; persistAgentState() does nothing, so every agent that
\* was found ready has completed.
VisitedAll ==
    /\ down.pc = "visiting" /\ down.pos >= Len(agents)
    /\ down' = [down EXCEPT !.pc = "waiting", !.pos = 0,
                   !.seen = [i \in DOMAIN @ |-> IF @[i].state = "ready"
                                                THEN [@[i] EXCEPT !.state = "completed"] ELSE @[i]]]
    /\ UNCHANGED <<agents, call, stored, list, past, env>>

WaitsFor(i) == down.pc = "waiting" /\ i \in DOMAIN down.seen /\ down.seen[i].state = "working"
Resolve(i, outcome) == down' = [down EXCEPT !.seen[i].state = outcome]

\* A poll of waitForAgentReady() finds the agent not WORKING any more.
AgentReady(i) ==
    /\ WaitsFor(i) /\ Resolve(i, "completed")
    /\ UNCHANGED <<agents, call, stored, list, past, env>>

\* Faulty variant: after the interrupt it goes on polling.
TimesOutAndPolls(i) ==
    /\ WaitsFor(i) /\ Resolve(i, "working")
    /\ UNCHANGED <<agents, call, stored, list, past, env>>

\* The timeout: the agent is interrupted, or left as it is (forceInterrupt).
TimesOut(i) ==
    /\ WaitsFor(i) /\ Resolve(i, "interrupted")
    /\ UNCHANGED <<agents, call, stored, list, past, env>>

\* interrupt() rejects.
InterruptFails(i) ==
    /\ WaitsFor(i) /\ Fault /\ Resolve(i, "failed")
    /\ UNCHANGED <<agents, call, stored, list, past>>

AllResolved == down.pc = "waiting" /\ \A i \in DOMAIN down.seen : down.seen[i].state # "working"

\* saveRunningAgentsList() has written the ids taken at the start.  A
\* resumeFromShutdown() in progress will clear the new list in place of its own.
ListSaved ==
    /\ AllResolved /\ down' = [down EXCEPT !.pc = "done"]
    /\ list' = down.ids
    /\ past' = [owed |-> down.ids, excused |-> \E w \in Callers : call[w].batch = "listed"]
    /\ UNCHANGED <<agents, call, stored, env>>

\* No list: saveRunningList is false, or the save fails, which is only logged.
ListNotSaved ==
    /\ AllResolved /\ down' = [down EXCEPT !.pc = "done"]
    /\ UNCHANGED <<agents, call, stored, list, past, env>>

\* The process ends, by the exit after a shutdown or by a crash at any await,
\* and another one starts with an empty pool.
Restart ==
    /\ env.restarts < MaxRestarts
    /\ env' = [env EXCEPT !.restarts = @ + 1]
    /\ agents' = <<>> /\ call' = [w \in Callers |-> NoCall] /\ down' = Up
    /\ UNCHANGED <<stored, list, past>>

CallStep(w) ==
    \/ \E id \in Ids : Create(w, id) \/ Resume(w, id) \/ Delete(w, id)
    \/ ResumeAll(w) \/ ResumeFromShutdown(w) \/ NextOfBatch(w)
    \/ Exists(w) \/ Loaded(w) \/ Persisted(w) \/ Registered(w) \/ BuildFails(w)
    \/ Removed(w) \/ Cleared(w)

ShutdownStep ==
    \/ BeginShutdown \/ Visit \/ VisitedAll \/ ListSaved \/ ListNotSaved
    \/ \E i \in DOMAIN down.seen : AgentReady(i) \/ TimesOut(i) \/ InterruptFails(i)

Next == (\E w \in Callers : CallStep(w)) \/ ShutdownStep \/ Restart

Spec == Init /\ [][Next]_vars

\* Microtasks, the timers of the polls and interrupt() come to an end; that an
\* agent ever becomes ready is not assumed.
PoolFairness ==
    /\ WF_vars(Visit) /\ WF_vars(VisitedAll) /\ WF_vars(ListSaved \/ ListNotSaved)
    /\ WF_vars(\E i \in DOMAIN down.seen : TimesOut(i))

FairSpec == Spec /\ PoolFairness

----------------------------------------------------------------------------
Built == {w \in Callers : call[w].pc \in Building}

\* The test of the capacity is stale when the agent enters the map: a pool can
\* exceed maxAgents, but never by as many agents as there are callers at a
\* time, those under construction included.  For one caller it is the limit.
CapacityKept == Len(agents) + Cardinality(Built) < MaxAgents + Cardinality(Callers)

\* Whatever calls add and remove during gracefulShutdown(), an agent that stays
\* in the pool while it runs is reported, once and with an outcome.
ShutdownAccounts ==
    down.pc = "done" =>
        \A id \in down.kept :
            \E i \in DOMAIN down.seen :
                /\ down.seen[i].state \in Outcomes
                /\ \A j \in DOMAIN down.seen : down.seen[j].id = id <=> j = i

\* The list goes only after resumeFromShutdown() has put every agent on it back
\* or failed to, in whichever process and after whichever crash; unless the
\* pool was full, or a shutdown saved its list while one was at work.
RestoreComplete == list = {} /\ ~past.excused => past.owed = {}

\* The pool exceeds its limit by no more than calls in progress explain, and
\* its shutdown and the restoration that follows leave no agent unaccounted for.
PoolKept == CapacityKept /\ ShutdownAccounts /\ RestoreComplete

\* gracefulShutdown() returns, though no agent ever becomes ready.
ShutdownEnds == down.pc # "up" ~> down.pc \in {"up", "done"}
=============================================================================
