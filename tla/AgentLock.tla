----------------------------- MODULE AgentLock -----------------------------
(***************************************************************************)
(* acquireAgentLock of the two SQL stores, for one agent.  A lock has a    *)
(* deadline, at which a timer takes it back without telling its worker:    *)
(* the worker may finish, and release, late.                               *)
(*                                                                         *)
(* SQLite keeps a map entry with the timer of whoever made it.  PostgreSQL *)
(* keeps an advisory lock of a session, that is of a client of the pool,   *)
(* and `client` and `client.release` outlive the check-out: pg makes the   *)
(* release function of a client anew each time it leaves the pool.         *)
(***************************************************************************)
EXTENDS Naturals, FiniteSets

CONSTANTS Workers,
          Clients,     \* clients of the PostgreSQL pool
          LockStores,  \* subset of {"sqlite", "postgres"}
          Nobody       \* no worker, no client

ASSUME LockAssumption == Nobody \notin Workers \cup Clients

VARIABLES lockStore,
          workerPhase,  \* worker: out, holding in time, or holding late
          held,         \* SQLite: the worker whose entry is in the map
                        \* PostgreSQL: the client whose session has the lock
          clientOf,     \* PostgreSQL: the client each worker was given
          checkedOut,   \* PostgreSQL: clients that are not in the pool
          released      \* somebody has released after its deadline

lockVars == <<lockStore, workerPhase, held, clientOf, checkedOut, released>>

LockInit == /\ lockStore \in LockStores
            /\ workerPhase = [w \in Workers |-> "out"]
            /\ held = Nobody
            /\ clientOf = [w \in Workers |-> Nobody]
            /\ checkedOut = {}
            /\ released = FALSE

Becomes(w, p) == workerPhase' = [workerPhase EXCEPT ![w] = p]
-----------------------------------------------------------------------------
SqliteAcquire(w) ==
    /\ lockStore = "sqlite" /\ workerPhase[w] = "out" /\ held = Nobody
    /\ held' = w
    /\ Becomes(w, "in")
    /\ UNCHANGED <<lockStore, clientOf, checkedOut, released>>

\* The timer deletes the entry, unless a release has cleared it before.
SqliteDeadline(w) ==
    /\ lockStore = "sqlite" /\ workerPhase[w] = "in"
    /\ held' = IF held = w THEN Nobody ELSE held
    /\ Becomes(w, "late")
    /\ UNCHANGED <<lockStore, clientOf, checkedOut, released>>

\* The release function deletes the entry that is there, and its timer.
SqliteRelease(w) ==
    /\ lockStore = "sqlite" /\ workerPhase[w] # "out"
    /\ held' = Nobody
    /\ released' = (released \/ workerPhase[w] = "late")
    /\ Becomes(w, "out")
    /\ UNCHANGED <<lockStore, clientOf, checkedOut>>
-----------------------------------------------------------------------------
\* pg_try_advisory_lock; when it fails the client goes back at once.
PostgresAcquire(w) ==
    \E k \in Clients \ checkedOut :
        /\ lockStore = "postgres" /\ workerPhase[w] = "out"
        /\ held \in {Nobody, k}
        /\ held' = k
        /\ clientOf' = [clientOf EXCEPT ![w] = k]
        /\ checkedOut' = checkedOut \cup {k}
        /\ Becomes(w, "in")
        /\ UNCHANGED <<lockStore, released>>

\* pg_advisory_unlock frees what the session of the client holds, and
\* client.release() puts the client in the pool, whoever has it by now.
UnlockAndReturn(w) ==
    /\ held' = IF held = clientOf[w] THEN Nobody ELSE held
    /\ checkedOut' = checkedOut \ {clientOf[w]}

\* Faulty variant: the timer gives the client back but does not unlock.
DeadlineWithoutUnlock(w) ==
    /\ lockStore = "postgres" /\ workerPhase[w] = "in"
    /\ checkedOut' = checkedOut \ {clientOf[w]}
    /\ Becomes(w, "late")
    /\ UNCHANGED <<lockStore, held, clientOf, released>>

\* The timer; a release clears it.
PostgresDeadline(w) ==
    /\ lockStore = "postgres" /\ workerPhase[w] = "in"
    /\ UnlockAndReturn(w)
    /\ Becomes(w, "late")
    /\ UNCHANGED <<lockStore, clientOf, released>>

PostgresRelease(w) ==
    /\ lockStore = "postgres" /\ workerPhase[w] # "out"
    /\ UnlockAndReturn(w)
    /\ released' = (released \/ workerPhase[w] = "late")
    /\ clientOf' = [clientOf EXCEPT ![w] = Nobody]
    /\ Becomes(w, "out")
    /\ UNCHANGED lockStore
-----------------------------------------------------------------------------
LockNext == \E w \in Workers :
    \/ SqliteAcquire(w) \/ SqliteDeadline(w) \/ SqliteRelease(w)
    \/ PostgresAcquire(w) \/ PostgresDeadline(w) \/ PostgresRelease(w)

LockSpec == LockInit /\ [][LockNext]_lockVars

InTime == {w \in Workers : workerPhase[w] = "in"}

\* Workers that are within the time they asked for never share the agent, also
\* while others work on past theirs, as long as none of those releases.
ExclusiveUntilLateRelease == ~released => Cardinality(InTime) <= 1

\* Workers that are within the time they asked for never share the agent.
PunctualExclusive == Cardinality(InTime) <= 1

\* The entry or the session that has the lock is of a worker in time, so that
\* an agent cannot stay locked; a late release may take a lock, not leave one.
NoLockWithoutHolder ==
    held # Nobody => \E w \in InTime : held \in {w, clientOf[w]}

\* A lock keeps punctual workers apart as long as nobody releases late, and is
\* never left behind by one who overstays.
LockHolds == ExclusiveUntilLateRelease /\ NoLockWithoutHolder
=============================================================================
