--------------------------- MODULE PostgresStore ---------------------------
(***************************************************************************)
(* PostgresStore (src/infra/db/postgres/postgres-store.ts): every call     *)
(* takes a client of the pool, runs its statements one await at a time and *)
(* gives the client back.  Several callers, of one process or of many, are *)
(* at work on the same tables under READ COMMITTED: a DELETE removes the   *)
(* rows that were committed when it began and waits for those another      *)
(* transaction is deleting, an INSERT waits for, or fails on, a row with   *)
(* its (agent_id, seq), a row of agents is locked against the transactions *)
(* that refer to it, and the server aborts one of a circle of waiters.     *)
(*                                                                         *)
(* A message is a place and the number of the call that saved it.  Saved   *)
(* lists are not empty, as those of an agent are: after two overlapping    *)
(* saves, one of them of no messages, rows would stay beside a count of 0. *)
(***************************************************************************)
EXTENDS Naturals, FiniteSets

CONSTANTS Callers,      \* concurrent users of the store
          Sessions,     \* ids of agents that callers know from the start
          NewSessions,  \* ids that generateAgentId may return
          PoolSize,     \* clients in the pool (config.max)
          MaxRows,      \* bound: messages in a saved list
          MaxCalls,     \* bound: calls of all callers
          NoSession     \* no row in the table agents

ASSUME PostgresAssumption == /\ {PoolSize, MaxCalls} \subseteq Nat \ {0}
                             /\ MaxRows \in Nat
                             /\ NoSession \notin Nat \cup Sessions \cup NewSessions
                             /\ Sessions \cap NewSessions = {}

VARIABLES counts,  \* agents: the committed message_count, or NoSession
          rows,    \* messages: the committed rows of each agent
          job,     \* what each caller has under way
          idle,    \* clients in the pool that nobody holds
          fresh,   \* ids that were not generated yet
          calls    \* calls made so far

postgresVars == <<counts, rows, job, idle, fresh, calls>>

AllSessions == Sessions \cup NewSessions

NoJob == [at |-> "none"]

\* A call for agent a: a list or count of `size`; what the transaction saw,
\* deleted and inserted; the id of the agent that a batchFork makes.
Job(op, a, size, new) == [op |-> op, at |-> "connect", agent |-> a, size |-> size,
                          seen |-> {}, gone |-> {}, put |-> 0, new |-> new,
                          number |-> calls + 1]

PostgresInit == /\ counts \in {c \in [AllSessions -> {0, NoSession}] :
                                 \A a \in NewSessions : c[a] = NoSession}
                /\ rows = [a \in AllSessions |-> {}]
                /\ fresh = NewSessions
                /\ job = [w \in Callers |-> NoJob]
                /\ idle = PoolSize
                /\ calls = 0
-----------------------------------------------------------------------------
(* The locks of the server.                                                *)

At(w, stages) == job[w].at \in stages
Rivals(w) == {v \in Callers \ {w} : job[v].at # "none" /\ job[v].agent = job[w].agent}

\* Whoever has the agents row of w's agent for update, or holds it for share
\* because it inserted messages that refer to it.
Updating(w) == {v \in Rivals(w) : At(v, {"commit", "cascade"})}
Sharing(w) == {v \in Rivals(w) : job[v].put > 0}
Deleting(w, set) == {v \in Rivals(w) : job[v].gone \cap set # {}}

\* The transactions that the statement w has sent is waiting for.
WaitsFor(w) ==
    CASE At(w, {"deleting"}) -> Deleting(w, job[w].seen)
      [] At(w, {"insert"})   -> {v \in Rivals(w) :
                                    \/ job[v].put > job[w].put
                                    \/ \E row \in job[v].gone \cap rows[job[w].agent] :
                                          row[1] = job[w].put
                                    \/ At(v, {"cascade"})}
      [] At(w, {"count", "upsert"}) -> Updating(w)
      [] At(w, {"row"})      -> Updating(w) \cup Sharing(w)
      [] At(w, {"cascade"})  -> Deleting(w, rows[job[w].agent])
      [] OTHER -> {}

\* Callers that wait for each other in a circle: every part of them waits for
\* some of the rest.
Circle(S) == /\ \A v \in S : WaitsFor(v) \cap S # {}
             /\ \A T \in (SUBSET S) \ {{}, S} : \E v \in T : WaitsFor(v) \cap (S \ T) # {}

InCircle(w) == \E S \in SUBSET Callers : w \in S /\ Circle(S)

Goes(w, stage) == job' = [job EXCEPT ![w].at = stage]

\* The call is over and its client, if it has one, is back in the pool.
Ends(w) == job' = [job EXCEPT ![w] = NoJob] /\ idle' = idle + 1
-----------------------------------------------------------------------------
(* The calls.                                                              *)

Call(w) ==
    /\ job[w] = NoJob /\ calls < MaxCalls
    /\ \E a \in Sessions \cup {b \in NewSessions : counts[b] # NoSession} :
          \/ \E op \in {"save", "info"}, size \in 1..MaxRows :
                /\ job' = [job EXCEPT ![w] = Job(op, a, size, NoSession)]
                /\ fresh' = fresh
          \/ /\ job' = [job EXCEPT ![w] = Job("delete", a, 0, NoSession)]
             /\ fresh' = fresh
          \/ \E b \in fresh :
                /\ job' = [job EXCEPT ![w] = Job("fork", a, 0, b)]
                /\ fresh' = fresh \ {b}
    /\ calls' = calls + 1
    /\ UNCHANGED <<counts, rows, idle>>

\* pool.connect()
Connect(w) ==
    /\ At(w, {"connect"}) /\ idle > 0
    /\ idle' = idle - 1
    /\ Goes(w, CASE job[w].op = "save" -> "delete"
                 [] job[w].op = "info" -> "upsert"
                 [] job[w].op = "delete" -> "row"
                 [] OTHER -> job[w].op)
    /\ UNCHANGED <<counts, rows, fresh, calls>>

\* No client within connectionTimeoutMillis: the call is rejected.
ConnectTimeout(w) ==
    /\ At(w, {"connect"}) /\ idle = 0
    /\ job' = [job EXCEPT ![w] = NoJob]
    /\ UNCHANGED <<counts, rows, idle, fresh, calls>>

\* saveMessages: BEGIN, and DELETE FROM messages reaches the server ...
StartDelete(w) ==
    /\ At(w, {"delete"})
    /\ job' = [job EXCEPT ![w].at = "deleting", ![w].seen = rows[job[w].agent]]
    /\ UNCHANGED <<counts, rows, idle, fresh, calls>>

\* ... and removes the rows it saw that are still there.
FinishDelete(w) ==
    /\ At(w, {"deleting"}) /\ WaitsFor(w) = {}
    /\ job' = [job EXCEPT ![w].at = "insert",
                          ![w].seen = {},
                          ![w].gone = job[w].seen \cap rows[job[w].agent]]
    /\ UNCHANGED <<counts, rows, idle, fresh, calls>>

\* Faulty variant: no UNIQUE (agent_id, seq), so only the foreign key refuses.
RefusedByKeyOnly(w) == counts[job[w].agent] = NoSession

\* An INSERT per message: refused when its place is taken or the agent has no
\* row.
Refused(w) == \/ counts[job[w].agent] = NoSession
              \/ \E row \in rows[job[w].agent] \ job[w].gone : row[1] = job[w].put

Insert(w) ==
    /\ At(w, {"insert"}) /\ WaitsFor(w) = {} /\ ~Refused(w)
    /\ job' = [job EXCEPT ![w].put = @ + 1,
                          ![w].at = IF job[w].put + 1 = job[w].size
                                    THEN "count" ELSE "insert"]
    /\ UNCHANGED <<counts, rows, idle, fresh, calls>>

\* Faulty variant: the catch clause forgets client.release().
InsertFailsUnreleased(w) ==
    /\ At(w, {"insert"}) /\ WaitsFor(w) = {} /\ Refused(w)
    /\ job' = [job EXCEPT ![w] = NoJob]
    /\ UNCHANGED <<counts, rows, idle, fresh, calls>>

\* The catch clause: ROLLBACK, release, and the error goes on.
InsertFails(w) ==
    /\ At(w, {"insert"}) /\ WaitsFor(w) = {} /\ Refused(w)
    /\ Ends(w)
    /\ UNCHANGED <<counts, rows, fresh, calls>>

UpdateCount(w) ==
    /\ At(w, {"count"}) /\ WaitsFor(w) = {}
    /\ Goes(w, "commit")
    /\ UNCHANGED <<counts, rows, idle, fresh, calls>>

Commit(w) ==
    /\ At(w, {"commit"})
    /\ LET a == job[w].agent
           new == {<<k, job[w].number>> : k \in 0..(job[w].put - 1)}
       IN /\ rows' = [rows EXCEPT ![a] = (@ \ job[w].gone) \cup new]
          /\ counts' = [counts EXCEPT ![a] = IF @ = NoSession THEN @ ELSE job[w].size]
    /\ Ends(w)
    /\ UNCHANGED <<fresh, calls>>

\* saveInfo: one INSERT ... ON CONFLICT DO UPDATE.
SaveInfoRow(w) ==
    /\ At(w, {"upsert"}) /\ WaitsFor(w) = {}
    /\ counts' = [counts EXCEPT ![job[w].agent] = job[w].size]
    /\ Ends(w)
    /\ UNCHANGED <<rows, fresh, calls>>

\* delete: one statement that locks the row of agents ...
DeleteAgentRow(w) ==
    /\ At(w, {"row"}) /\ WaitsFor(w) = {}
    /\ Goes(w, IF counts[job[w].agent] = NoSession THEN "files" ELSE "cascade")
    /\ UNCHANGED <<counts, rows, idle, fresh, calls>>

\* ... and then deletes the messages that refer to it.
Cascade(w) ==
    /\ At(w, {"cascade"}) /\ WaitsFor(w) = {}
    /\ rows' = [rows EXCEPT ![job[w].agent] = {}]
    /\ counts' = [counts EXCEPT ![job[w].agent] = NoSession]
    /\ Goes(w, "files")
    /\ UNCHANGED <<idle, fresh, calls>>

\* The directory of the agent is removed while the client is still held.
DeleteFiles(w) ==
    /\ At(w, {"files"})
    /\ Ends(w)
    /\ UNCHANGED <<counts, rows, fresh, calls>>

\* batchFork: loadInfo and loadMessages with a client each ...
ForkReadsInfo(w) ==
    /\ At(w, {"fork"})
    /\ IF counts[job[w].agent] = NoSession
       THEN job' = [job EXCEPT ![w] = NoJob]
       ELSE job' = [job EXCEPT ![w].op = "fork messages", ![w].at = "connect",
                               ![w].size = counts[job[w].agent]]
    /\ idle' = idle + 1
    /\ UNCHANGED <<counts, rows, fresh, calls>>

ForkReadsMessages(w) ==
    /\ At(w, {"fork messages"})
    /\ job' = [job EXCEPT ![w].op = "fork write", ![w].at = "connect",
                          ![w].seen = rows[job[w].agent]]
    /\ idle' = idle + 1
    /\ UNCHANGED <<counts, rows, fresh, calls>>

\* ... and a transaction that inserts an agent nobody else knows yet.
ForkCommits(w) ==
    /\ At(w, {"fork write"})
    /\ counts' = [counts EXCEPT ![job[w].new] = job[w].size]
    /\ rows' = [rows EXCEPT ![job[w].new] = job[w].seen]
    /\ Ends(w)
    /\ UNCHANGED <<fresh, calls>>

\* The server aborts one of those that wait for each other; its catch clause
\* rolls back.
DeadlockDetected(w) ==
    /\ InCircle(w)
    /\ Ends(w)
    /\ UNCHANGED <<counts, rows, fresh, calls>>

\* The callers' process ends; the server rolls their transactions back.
CallersCrash ==
    /\ job' = [w \in Callers |-> NoJob]
    /\ idle' = PoolSize
    /\ UNCHANGED <<counts, rows, fresh, calls>>
-----------------------------------------------------------------------------
Statement(w) ==
    \/ Connect(w) \/ ConnectTimeout(w)
    \/ StartDelete(w) \/ FinishDelete(w) \/ Insert(w) \/ InsertFails(w)
    \/ UpdateCount(w) \/ Commit(w) \/ SaveInfoRow(w)
    \/ DeleteAgentRow(w) \/ Cascade(w) \/ DeleteFiles(w)
    \/ ForkReadsInfo(w) \/ ForkReadsMessages(w) \/ ForkCommits(w)
    \/ DeadlockDetected(w)

PostgresNext == CallersCrash \/ \E w \in Callers : Call(w) \/ Statement(w)

\* Statements are answered and timers fire: every started call goes on.
PostgresFairness == \A w \in Callers : WF_postgresVars(Statement(w))

PostgresSpec == PostgresInit /\ [][PostgresNext]_postgresVars /\ PostgresFairness

\* Saves, forks and deletes of one agent may overlap in any way: the committed
\* tables are those of a store in which each takes effect at once or fails.
Table == INSTANCE SessionTable WITH Agents <- AllSessions, Writers <- 1..MaxCalls,
                                    MaxMessages <- MaxRows, NoRow <- NoSession,
                                    count <- counts, messages <- rows
ImplementsTable == Table!Spec

\* A call whose statement the server answers: it waits for nobody, or is one
\* of those that wait for each other.
GetsAnswer(w) == job[w] # NoJob /\ (WaitsFor(w) = {} \/ InCircle(w))

\* While calls are under way one of them can go on, with the others waiting for
\* it: neither a circle of waiters nor a pool without idle clients stops them
\* all; and every client is in the pool or held by a call that will return it.
CallsGoOn ==
    /\ (\E w \in Callers : job[w] # NoJob) => \E w \in Callers : GetsAnswer(w)
    /\ idle + Cardinality({w \in Callers : ~At(w, {"none", "connect"})}) = PoolSize

\* A call that is answered has a step.
AnsweredGoOn == \A w \in Callers : GetsAnswer(w) => ENABLED Statement(w)
=============================================================================
