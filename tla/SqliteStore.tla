---------------------------- MODULE SqliteStore ----------------------------
(***************************************************************************)
(* SqliteStore (src/infra/db/sqlite/sqlite-store.ts): tables and, for      *)
(* events and the other files, a JSONStore beside the database.  Every     *)
(* statement and every transaction runs synchronously, so one call is one  *)
(* action; what interleaves are the awaits between the calls: an agent     *)
(* saves its messages and then its info, delete() removes rows and then    *)
(* files, and batchFork() reads three times before it writes.              *)
(*                                                                         *)
(* An agent in memory is what Agent.create or Agent.resume makes of the    *)
(* stored one.  Messages are counted, not named; a record's id is a        *)
(* sequence, <<c>> for the call c of the model and Append(id, i) for the   *)
(* copy that batchFork names `${id}_fork_${i}`.                            *)
(***************************************************************************)
EXTENDS Naturals, Sequences, FiniteSets, FiniteSetsExt, Functions

CONSTANTS Agents,       \* agent ids, those generateAgentId may return included
          SqliteCalls,  \* ids the model gives to tool calls
          SnapshotIds,  \* labels that snapshots are taken with
          MaxStored,    \* bound: messages of one agent
          MaxForks,     \* bound: the count of a batchFork
          MaxLive,      \* bound: agents in memory at a time
          MaxCrashes,   \* bound: ends of the process
          NoRow         \* no row in the table agents

ASSUME SqliteAssumption == /\ NoRow \notin Nat
                           /\ IsFiniteSet(Agents)
                           /\ {MaxStored, MaxForks, MaxLive, MaxCrashes} \subseteq Nat

VARIABLES agentRow,     \* agents: the message_count of each, or NoRow
          messageRows,  \* messages: how many rows each agent has
          callRows,     \* tool_calls: the ids of each agent's rows
          snapshotRows, \* snapshots: the ids of each agent's rows
          knownIds,     \* ids that were ever given to an agent
          live,         \* the agents in memory
          batch,        \* the batchFork under way, and how the last one ended
          sqliteCrashes

tables == <<agentRow, messageRows, callRows, snapshotRows>>
sqliteVars == <<tables, knownIds, live, batch, sqliteCrashes>>

Down == [up |-> FALSE, messages |-> 0, calls |-> {}, next |-> "rest",
         unsaved |-> FALSE, deleted |-> FALSE]
NoBatch == [stage |-> "none"]

SqliteInit ==
    /\ agentRow = [a \in Agents |-> NoRow]
    /\ messageRows = [a \in Agents |-> 0]
    /\ callRows = [a \in Agents |-> {}]
    /\ snapshotRows = [a \in Agents |-> {}]
    /\ knownIds = {} /\ sqliteCrashes = 0
    /\ live = [a \in Agents |-> Down]
    /\ batch = NoBatch
-----------------------------------------------------------------------------
(* What the reading calls return.                                          *)

LoadInfo(a) == agentRow[a]
LoadMessages(a) == messageRows[a]
LoadToolCallRecords(a) == callRows[a]
LoadSnapshot(a, id) == id \in snapshotRows[a]
ListSnapshots(a) == {id \in SnapshotIds : LoadSnapshot(a, id)}
Exists(a) == agentRow[a] # NoRow
List == {a \in Agents : Exists(a)}

AggregateStats(a) == [messages  |-> messageRows[a],
                      toolCalls |-> Cardinality(callRows[a]),
                      snapshots |-> Cardinality(ListSnapshots(a))]

GetMetrics == [messages  |-> MapThenSumSet(LoadMessages, Agents),
               toolCalls |-> Cardinality(UNION Range(callRows))]

CheckConsistency(a) == Exists(a) /\ LoadInfo(a) = LoadMessages(a)
-----------------------------------------------------------------------------
(* Agents and the calls by which they save themselves.                     *)

\* Agent.create and Agent.resume: the stored state is loaded, and
\* initialize() goes on to save the info.
Start(a) ==
    /\ ~live[a].up
    /\ Cardinality({b \in Agents : live[b].up}) < MaxLive
    /\ Exists(a) \/ a \notin knownIds
    /\ live' = [live EXCEPT ![a] = [Down EXCEPT !.up = TRUE, !.next = "info",
                                                !.messages = LoadMessages(a),
                                                !.calls = LoadToolCallRecords(a)]]
    /\ knownIds' = knownIds \cup {a}
    /\ UNCHANGED <<tables, batch, sqliteCrashes>>

\* A step of the agent adds a message, which persistMessages is to save.
Push(a) ==
    /\ live[a].up /\ live[a].messages < MaxStored
    /\ live' = [live EXCEPT ![a].messages = @ + 1, ![a].unsaved = TRUE]
    /\ UNCHANGED <<tables, knownIds, batch, sqliteCrashes>>

\* One transaction: the old rows go, the new ones are inserted, which needs
\* the agent's row, and the count follows.
SaveMessages(a) ==
    /\ live[a].up /\ live[a].next = "rest" /\ live[a].unsaved
    /\ IF Exists(a)
       THEN /\ messageRows' = [messageRows EXCEPT ![a] = live[a].messages]
            /\ agentRow' = [agentRow EXCEPT ![a] = live[a].messages]
            /\ live' = [live EXCEPT ![a].next = "info", ![a].unsaved = FALSE,
                                    ![a].deleted = FALSE]
       ELSE UNCHANGED <<messageRows, agentRow, live>>
    /\ UNCHANGED <<callRows, snapshotRows, knownIds, batch, sqliteCrashes>>

\* persistInfo: an upsert with the count the agent has by now.
SaveInfo(a) ==
    /\ live[a].up /\ live[a].next = "info"
    /\ agentRow' = [agentRow EXCEPT ![a] = live[a].messages]
    /\ live' = [live EXCEPT ![a].next = "rest"]
    /\ UNCHANGED <<messageRows, callRows, snapshotRows, knownIds, batch, sqliteCrashes>>

\* A tool call begins and its record is saved with the others, in a
\* transaction that an id of another agent's rows aborts.
SaveToolCallRecords(a) ==
    \E c \in SqliteCalls :
        /\ live[a].up /\ Exists(a)
        /\ \A b \in Agents : <<c>> \notin live[b].calls \cup callRows[b]
        /\ live' = [live EXCEPT ![a].calls = @ \cup {<<c>>}]
        /\ callRows' = IF \E b \in Agents \ {a} :
                              callRows[b] \cap live'[a].calls # {}
                       THEN callRows
                       ELSE [callRows EXCEPT ![a] = live'[a].calls]
        /\ UNCHANGED <<agentRow, messageRows, snapshotRows, knownIds, batch, sqliteCrashes>>

\* A snapshot is taken: an upsert by its id, which needs the agent's row.
SaveSnapshot(a) ==
    \E id \in SnapshotIds :
        /\ live[a].up /\ Exists(a)
        /\ snapshotRows' = [snapshotRows EXCEPT ![a] = @ \cup {id}]
        /\ UNCHANGED <<agentRow, messageRows, callRows, knownIds, live, batch, sqliteCrashes>>

\* Faulty variant: foreign keys are not enforced, so nothing cascades.
DeleteRowOnly(a) ==
    /\ Exists(a)
    /\ agentRow' = [agentRow EXCEPT ![a] = NoRow]
    /\ live' = IF live[a].up THEN [live EXCEPT ![a].deleted = TRUE] ELSE live
    /\ UNCHANGED <<messageRows, callRows, snapshotRows, knownIds, batch, sqliteCrashes>>

\* delete(): the row, and by ON DELETE CASCADE the rows that refer to it.  An
\* agent in memory is not told.
Delete(a) ==
    /\ Exists(a)
    /\ agentRow' = [agentRow EXCEPT ![a] = NoRow]
    /\ messageRows' = [messageRows EXCEPT ![a] = 0]
    /\ callRows' = [callRows EXCEPT ![a] = {}]
    /\ snapshotRows' = [snapshotRows EXCEPT ![a] = {}]
    /\ live' = IF live[a].up THEN [live EXCEPT ![a].deleted = TRUE] ELSE live
    /\ UNCHANGED <<knownIds, batch, sqliteCrashes>>

\* The process ends; every call has committed or has not begun to write.
SqliteCrash ==
    /\ sqliteCrashes < MaxCrashes
    /\ sqliteCrashes' = sqliteCrashes + 1
    /\ live' = [a \in Agents |-> Down]
    /\ batch' = NoBatch
    /\ UNCHANGED <<tables, knownIds>>
-----------------------------------------------------------------------------
(* batchFork(a, count): three awaited reads, then one transaction.         *)

ForkInfo(a) ==
    \E count \in 1..MaxForks :
        /\ batch.stage # "messages" /\ batch.stage # "calls"
        /\ Exists(a)
        /\ batch' = [stage |-> "messages", source |-> a, count |-> count,
                     info |-> LoadInfo(a)]
        /\ UNCHANGED <<tables, knownIds, live, sqliteCrashes>>

ForkMessages ==
    /\ batch.stage = "messages"
    /\ batch' = [stage |-> "calls", source |-> batch.source, count |-> batch.count,
                 info |-> batch.info, messages |-> LoadMessages(batch.source)]
    /\ UNCHANGED <<tables, knownIds, live, sqliteCrashes>>

\* The names the copies of the records `ids` get in the i-th new agent.
ForkedIds(ids, i) == {Append(id, i) : id \in ids}

\* The records are read, and the next turn of the event loop runs the whole
\* transaction: all new agents, or none when an id is taken.
ForkCommit ==
    /\ batch.stage = "calls"
    /\ LET ids == LoadToolCallRecords(batch.source)
           taken == UNION Range(callRows)
       IN \E new \in [0..(batch.count - 1) -> Agents \ knownIds] :
            /\ IsInjective(new)
            /\ IF \E i \in DOMAIN new : ForkedIds(ids, i) \cap taken # {}
               THEN /\ batch' = [stage |-> "rejected"]
                    /\ UNCHANGED <<agentRow, messageRows, callRows, knownIds>>
               ELSE /\ batch' = [stage |-> "done"]
                    /\ agentRow' = [a \in Agents |-> IF a \in Range(new)
                                                     THEN batch.info ELSE agentRow[a]]
                    /\ messageRows' = [a \in Agents |-> IF a \in Range(new)
                                                        THEN batch.messages
                                                        ELSE messageRows[a]]
                    /\ callRows' = [a \in Agents |->
                                      IF a \in Range(new)
                                      THEN ForkedIds(ids, Inverse(new, DOMAIN new, Agents)[a])
                                      ELSE callRows[a]]
                    /\ knownIds' = knownIds \cup Range(new)
    /\ UNCHANGED <<snapshotRows, live, sqliteCrashes>>
-----------------------------------------------------------------------------
SqliteNext ==
    \/ \E a \in Agents : \/ Start(a) \/ Push(a) \/ SaveMessages(a) \/ SaveInfo(a)
                         \/ SaveToolCallRecords(a) \/ SaveSnapshot(a) \/ Delete(a) \/ ForkInfo(a)
    \/ ForkMessages \/ ForkCommit \/ SqliteCrash

SqliteSpec == SqliteInit /\ [][SqliteNext]_sqliteVars

SqliteTypeOK ==
    /\ agentRow \in [Agents -> (0..MaxStored) \cup {NoRow}]
    /\ messageRows \in [Agents -> 0..MaxStored]
    /\ snapshotRows \in [Agents -> SUBSET SnapshotIds]
    /\ callRows \in [Agents -> SUBSET Seq(SqliteCalls \cup (0..MaxForks))]
    /\ knownIds \subseteq Agents
    /\ sqliteCrashes \in 0..MaxCrashes

\* An agent at rest: in memory, with nothing left to save.
AtRest(a) == live[a].up /\ live[a].next = "rest" /\ ~live[a].unsaved

\* An agent that has nothing left to save passes checkConsistency, whatever
\* was torn before it started: a crash between its two saves, a message added
\* between them, a batchFork that read its count before and its messages after
\* a save.  Only a delete under the running agent excepts it, until it saves
\* its messages again.
ConsistentAtRest ==
    \A a \in Agents : AtRest(a) /\ ~live[a].deleted => CheckConsistency(a)

\* Every row belongs to an agent that list() names: the counts of getMetrics
\* over whole tables are the sums of aggregateStats over the listed agents, and
\* an agent that is not listed has no snapshots left, also when an agent goes
\* on saving after it was deleted.
RowsHaveAgents ==
    LET messagesOf(a) == AggregateStats(a).messages
        callsOf(a) == AggregateStats(a).toolCalls
    IN /\ GetMetrics.messages = MapThenSumSet(messagesOf, List)
       /\ GetMetrics.toolCalls = MapThenSumSet(callsOf, List)
       /\ \A a \in Agents \ List : AggregateStats(a).snapshots = 0

\* The tables agree whenever an agent of the process is at rest, and hold
\* rows of listed agents only: torn saves, forks of a moving agent and deletes
\* under a running one are made good by the agent's next save.
TablesAgree == ConsistentAtRest /\ RowsHaveAgents

\* Each batchFork gives its caller the new agents it asked for.
EveryForkSucceeds == batch.stage # "rejected"
=============================================================================
