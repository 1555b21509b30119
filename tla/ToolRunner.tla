----------------------------- MODULE ToolRunner -----------------------------
(***************************************************************************)
(* src/core/agent/tool-runner.ts: the bounded runner every tool call of an *)
(* agent goes through.  A task is one closure handed to run().  Its        *)
(* promise settles in one turn of the event loop (Settle); the .finally    *)
(* callback that gives the slot back runs in a later turn (Release), so    *)
(* run() and clear() may come in between.                                  *)
(***************************************************************************)
EXTENDS Integers, Sequences, FiniteSets

CONSTANTS Tasks,        \* the closures handed to run() during the history
          Concurrency   \* maxToolConcurrency

\* The constructor throws for a limit that is not positive.
ASSUME ConcurrencyAssumption == Concurrency \in Nat \ {0}
ASSUME TasksAssumption == IsFiniteSet(Tasks)

VARIABLES active,   \* this.active
          queue,    \* this.queue, the execute() closures that wait
          status    \* what has become of each task

runnerVars == <<active, queue, status>>

Statuses == {"new", "queued", "running", "releasing", "done", "dropped"}

RunnerTypeOK ==
    /\ active \in Nat
    /\ queue \in Seq(Tasks)
    /\ status \in [Tasks -> Statuses]

RunnerInit ==
    /\ active = 0
    /\ queue = <<>>
    /\ status = [t \in Tasks |-> "new"]

\* Faulty variant: the limit is off by one.
RunOneMore(t) ==
    /\ status[t] = "new"
    /\ \/ /\ active <= Concurrency
          /\ active' = active + 1
          /\ status' = [status EXCEPT ![t] = "running"]
          /\ UNCHANGED queue
       \/ /\ active > Concurrency
          /\ queue' = Append(queue, t)
          /\ status' = [status EXCEPT ![t] = "queued"]
          /\ UNCHANGED active

\* run(): start at once when a slot is free, else join the queue.
Run(t) ==
    /\ status[t] = "new"
    /\ \/ /\ active < Concurrency
          /\ active' = active + 1
          /\ status' = [status EXCEPT ![t] = "running"]
          /\ UNCHANGED queue
       \/ /\ active >= Concurrency
          /\ queue' = Append(queue, t)
          /\ status' = [status EXCEPT ![t] = "queued"]
          /\ UNCHANGED active

\* task().then(resolve, reject): the caller's promise settles; the slot is
\* still counted in `active`.
Settle(t) ==
    /\ status[t] = "running"
    /\ status' = [status EXCEPT ![t] = "releasing"]
    /\ UNCHANGED <<active, queue>>

\* Faulty variants: no call of flush(); flush() reads the head and leaves it in
\* the queue.
ReleaseOnly(t) ==
    /\ status[t] = "releasing"
    /\ active' = active - 1
    /\ status' = [status EXCEPT ![t] = "done"]
    /\ UNCHANGED queue

ReleaseAndPeek(t) ==
    /\ status[t] = "releasing"
    /\ IF queue # <<>>
       THEN /\ status' = [status EXCEPT ![t] = "done", ![Head(queue)] = "running"]
            /\ UNCHANGED <<active, queue>>
       ELSE /\ active' = active - 1
            /\ status' = [status EXCEPT ![t] = "done"]
            /\ UNCHANGED queue

\* .finally(...) with its call of flush(): the slot is given back and at most
\* one queued task takes it.
Release(t) ==
    /\ status[t] = "releasing"
    /\ \/ /\ queue # <<>>
          /\ active - 1 < Concurrency
          /\ active' = active - 1 + 1
          /\ queue' = Tail(queue)
          /\ status' = [status EXCEPT ![t] = "done", ![Head(queue)] = "running"]
       \/ /\ queue = <<>> \/ active - 1 >= Concurrency
          /\ active' = active - 1
          /\ status' = [status EXCEPT ![t] = "done"]
          /\ UNCHANGED queue

\* Faulty variant: clear() also resets the counter.
ClearAll ==
    /\ queue' = <<>>
    /\ active' = 0
    /\ status' = [t \in Tasks |-> IF status[t] = "queued" THEN "dropped" ELSE status[t]]

\* clear(): the queue is truncated; no promise of a cleared task is settled.
Clear ==
    /\ queue' = <<>>
    /\ status' = [t \in Tasks |-> IF status[t] = "queued" THEN "dropped" ELSE status[t]]
    /\ UNCHANGED active

RunnerStep == \E t \in Tasks : Run(t) \/ Settle(t) \/ Release(t)

RunnerNext == RunnerStep \/ Clear

RunnerSpec == RunnerInit /\ [][RunnerNext]_runnerVars

\* A tool call in progress ends (runTool races it against its abort signal and
\* its timeout) and the event loop runs every callback that is due.
Fairness == \A t \in Tasks : WF_runnerVars(Settle(t)) /\ WF_runnerVars(Release(t))

RunnerFairSpec == RunnerSpec /\ Fairness

----------------------------------------------------------------------------

Occupied == {t \in Tasks : status[t] \in {"running", "releasing"}}

\* Never more tasks at work than the limit, and a counter that is exact although
\* run(), clear() and the finally callbacks change it in any order.
WithinLimit == active = Cardinality(Occupied) /\ active <= Concurrency

\* flush() starts at most one task per freed slot; that is enough for no slot
\* to stay free while a task waits, so run() never overtakes the queue.
NoIdleSlot == queue # <<>> => active = Concurrency

\* The closures in the queue are the tasks that wait, each of them once: none
\* is started twice and none is forgotten.
QueueIsWaiting ==
    /\ \A t \in Tasks : status[t] = "queued" <=> \E i \in 1..Len(queue) : queue[i] = t
    /\ \A i, j \in 1..Len(queue) : queue[i] = queue[j] => i = j

\* The runner's books are exact under every order of its callbacks: the counter,
\* the use of its slots and its queue.
RunnerExact == WithinLimit /\ NoIdleSlot /\ QueueIsWaiting

\* A submitted task gives its slot back in the end, or clear() drops it.
EverySubmissionEnds ==
    \A t \in Tasks : (status[t] # "new") ~> (status[t] \in {"done", "dropped"})

\* The runner implements the pool its caller thinks of: the callback that still
\* has to run after settlement is invisible from outside.
PhaseOf(s) ==
    CASE s = "queued" -> "waiting"
      [] s \in {"releasing", "done"} -> "settled"
      [] OTHER -> s

Pool == INSTANCE TaskPool
            WITH Limit <- Concurrency, phase <- [t \in Tasks |-> PhaseOf(status[t])]

ImplementsPool == Pool!Spec

=============================================================================
