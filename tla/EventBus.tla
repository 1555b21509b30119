------------------------------ MODULE EventBus ------------------------------
(***************************************************************************)
(* src/core/events.ts: events get consecutive sequence numbers, are kept   *)
(* in a timeline, handed to subscribers and appended to a store.  Critical *)
(* events whose append failed wait in a buffer and are tried again in      *)
(* batches.  A subscriber may ask for a replay of the store first.         *)
(* An event is its sequence number (the first is 1).  The store is         *)
(* external: an append succeeds or fails as a whole, in any order.         *)
(***************************************************************************)
EXTENDS Integers, Sequences, FiniteSets

CONSTANTS Live,           \* subscribers without `since`
          Replaying,      \* subscribers with `since`
          MaxEvents,      \* bound: events emitted
          MaxFaults,      \* bound: operations of the store that fail
          RetryBatch,     \* events one retry takes out of the buffer
          MaxFailedBuffer,
          TimelineLimit, TimelineKeep

ASSUME BusAssumption ==
    /\ Live \cap Replaying = {}
    /\ MaxEvents \in Nat /\ MaxFaults \in Nat
    /\ RetryBatch \in Nat \ {0} /\ MaxFailedBuffer \in Nat \ {0}
    /\ TimelineKeep \in Nat /\ TimelineLimit \in Nat /\ TimelineKeep <= TimelineLimit

Subscribers == Live \cup Replaying
Events == 1..MaxEvents

VARIABLES
    seq,        \* events emitted so far
    critical,   \* those of a critical type whose append has failed
    timeline,
    saving,     \* events whose first appendEvent is in flight
    log,        \* the store
    failed,     \* failedEvents
    retries,    \* retryFailedEvents in progress: who called it, what is left of its batch
    flush,      \* flushFailedEvents: "no", "retrying" or "sleeping"
    sub,        \* Subscribers -> the subscriber and its replay
    faults

storeVars == <<saving, log, failed, retries, flush, faults>>
vars == <<seq, critical, timeline, storeVars, sub>>

LastOf(q, n) == IF Len(q) > n THEN SubSeq(q, Len(q) - n + 1, Len(q)) ELSE q
FirstOf(q, n) == IF Len(q) > n THEN SubSeq(q, 1, n) ELSE q
Without(q, n) == SubSeq(q, n + 1, Len(q))
Elements(q) == {q[i] : i \in 1..Len(q)}

\* The events of q behind the bookmark e, in their order.
After(q, e) ==
    LET upTo[n \in 0..Len(q)] ==
            IF n = 0 THEN <<>>
            ELSE IF q[n] > e THEN Append(upTo[n - 1], q[n]) ELSE upTo[n - 1]
    IN  upTo[Len(q)]

SubStates == [state : {"none", "live", "closed"},
              since : 0..MaxEvents,       \* the bookmark asked for
              at : -1..MaxEvents,         \* seq at subscription
              queue : Seq(Events),
              waiting : BOOLEAN,          \* a next() waits for an event
              replay : {"no", "reading", "pushing"},
              todo : Seq(Events),         \* read from the store and not pushed yet
              read : SUBSET Events,       \* history: what a replay that has not failed has read
              got : Seq(Events)]          \* what next() has returned

TypeOK ==
    /\ seq \in 0..MaxEvents
    /\ critical \subseteq 1..seq
    /\ timeline \in Seq(Events) /\ Len(timeline) <= TimelineLimit
    /\ saving \subseteq 1..seq
    /\ log \in Seq(1..seq)
    /\ failed \in Seq(critical)
    /\ retries \subseteq [by : {"append", "flush"}, batch : Seq(critical) \ {<<>>}]
    /\ flush \in {"no", "retrying", "sleeping"}
    /\ sub \in [Subscribers -> SubStates]
    /\ faults \in 0..MaxFaults

NoSubscriber == [state |-> "none", since |-> 0, at |-> -1, queue |-> <<>>, waiting |-> FALSE,
                 replay |-> "no", todo |-> <<>>, read |-> {}, got |-> <<>>]

Init ==
    /\ seq = 0 /\ critical = {} /\ timeline = <<>>
    /\ saving = {} /\ log = <<>> /\ failed = <<>> /\ retries = {} /\ flush = "no"
    /\ sub = [s \in Subscribers |-> NoSubscriber]
    /\ faults = 0

----------------------------------------------------------------------------
(* Subscribers.                                                             *)

\* push() of the events of q, one after the other: the first resolves a next()
\* that waits, the others are queued.
Pushed(S, q) ==
    IF S.state # "live" \/ q = <<>> THEN S
    ELSE IF S.waiting
         THEN [S EXCEPT !.waiting = FALSE, !.got = Append(@, Head(q)), !.queue = @ \o Tail(q)]
         ELSE [S EXCEPT !.queue = @ \o q]

Subscribe(s) ==
    /\ sub[s].state = "none"
    /\ \/ /\ s \in Live
          /\ sub' = [sub EXCEPT ![s] = [@ EXCEPT !.state = "live", !.at = seq]]
       \/ /\ s \in Replaying
          /\ \E e \in 0..seq :
                sub' = [sub EXCEPT ![s] = [@ EXCEPT !.state = "live", !.at = seq, !.since = e,
                                                    !.replay = "reading"]]
    /\ UNCHANGED <<seq, critical, timeline, storeVars>>

\* Faulty variant: next() leaves what it returns in the queue.
AskPeeking(s) ==
    /\ sub[s].state = "live" /\ ~sub[s].waiting
    /\ \/ /\ sub[s].queue # <<>>
          /\ Len(sub[s].got) < MaxEvents
          /\ sub' = [sub EXCEPT ![s].got = Append(@, Head(sub[s].queue))]
       \/ /\ sub[s].queue = <<>>
          /\ sub' = [sub EXCEPT ![s].waiting = TRUE]
    /\ UNCHANGED <<seq, critical, timeline, storeVars>>

\* next(): the head of the queue, or a promise for the next push.
Ask(s) ==
    LET S == sub[s] IN
    /\ S.state = "live" /\ ~S.waiting
    /\ \/ /\ S.queue # <<>>
          /\ sub' = [sub EXCEPT ![s] = [S EXCEPT !.queue = Tail(S.queue), !.got = Append(S.got, Head(S.queue))]]
       \/ S.queue = <<>> /\ sub' = [sub EXCEPT ![s].waiting = TRUE]
    /\ UNCHANGED <<seq, critical, timeline, storeVars>>

\* return(): a next() that waits is told the end; later pushes are ignored.
Close(s) ==
    /\ sub[s].state = "live"
    /\ sub' = [sub EXCEPT ![s] = [@ EXCEPT !.state = "closed", !.waiting = FALSE]]
    /\ UNCHANGED <<seq, critical, timeline, storeVars>>

\* Faulty variant: a replay takes the place of the live feed.
ReplayAlone(s) ==
    /\ sub[s].replay = "reading"
    /\ LET past == After(log, sub[s].since) IN
       sub' = [sub EXCEPT ![s] = [@ EXCEPT !.replay = "pushing", !.todo = past,
                                           !.read = Elements(past), !.queue = <<>>]]
    /\ UNCHANGED <<seq, critical, timeline, storeVars>>

\* replayHistory: the store is read (each entry is pushed in a turn of its own).
ReplayRead(s) ==
    /\ sub[s].replay = "reading"
    /\ LET past == After(log, sub[s].since) IN
       sub' = [sub EXCEPT ![s] = [@ EXCEPT !.replay = "pushing", !.todo = past,
                                           !.read = Elements(past)]]
    /\ UNCHANGED <<seq, critical, timeline, storeVars>>

ReplayPush(s) ==
    LET S == sub[s] IN
    /\ S.replay = "pushing"
    /\ sub' = [sub EXCEPT ![s] =
                  IF S.todo = <<>> THEN [S EXCEPT !.replay = "no"]
                  ELSE Pushed([S EXCEPT !.todo = Tail(@)], <<Head(S.todo)>>)]
    /\ UNCHANGED <<seq, critical, timeline, storeVars>>

\* The store cannot be read (any more): the timeline is pushed instead, at once.
ReplayFails(s) ==
    /\ sub[s].replay \in {"reading", "pushing"}
    /\ faults < MaxFaults
    /\ faults' = faults + 1
    /\ sub' = [sub EXCEPT ![s] = [Pushed(sub[s], After(timeline, sub[s].since))
                                    EXCEPT !.replay = "no", !.todo = <<>>, !.read = {}]]
    /\ UNCHANGED <<seq, critical, timeline, saving, log, failed, retries, flush>>

----------------------------------------------------------------------------
(* Emission and the store.                                                  *)

\* Faulty variants: the timeline is not trimmed; only subscribers with a pending next() are notified.
EmitUntrimmed ==
    /\ seq < MaxEvents
    /\ seq' = seq + 1
    /\ timeline' = Append(timeline, seq')
    /\ saving' = saving \cup {seq'}
    /\ sub' = [s \in Subscribers |-> Pushed(sub[s], <<seq'>>)]
    /\ UNCHANGED <<critical, log, failed, retries, flush, faults>>

EmitToWaiting ==
    /\ seq < MaxEvents
    /\ seq' = seq + 1
    /\ timeline' = IF Len(timeline) + 1 > TimelineLimit
                   THEN LastOf(Append(timeline, seq'), TimelineKeep) ELSE Append(timeline, seq')
    /\ saving' = saving \cup {seq'}
    /\ sub' = [s \in Subscribers |-> IF sub[s].waiting THEN Pushed(sub[s], <<seq'>>) ELSE sub[s]]
    /\ UNCHANGED <<critical, log, failed, retries, flush, faults>>

\* emit() and notifySubscribers().
Emit ==
    /\ seq < MaxEvents
    /\ seq' = seq + 1
    /\ timeline' = IF Len(timeline) + 1 > TimelineLimit
                   THEN LastOf(Append(timeline, seq'), TimelineKeep) ELSE Append(timeline, seq')
    /\ saving' = saving \cup {seq'}
    /\ sub' = [s \in Subscribers |-> Pushed(sub[s], <<seq'>>)]
    /\ UNCHANGED <<critical, log, failed, retries, flush, faults>>

\* Faulty variant: the batch is copied and stays in the buffer.
TakeBatchCopied(by) ==
    /\ retries' = retries \cup {[by |-> by, batch |-> FirstOf(failed, RetryBatch)]}
    /\ UNCHANGED failed

\* The start of retryFailedEvents: splice(0, 10).
TakeBatch(by) ==
    /\ retries' = retries \cup {[by |-> by, batch |-> FirstOf(failed, RetryBatch)]}
    /\ failed' = Without(failed, RetryBatch)

\* An append succeeds: retry what is buffered.
Appended(e) ==
    /\ e \in saving
    /\ saving' = saving \ {e}
    /\ log' = Append(log, e)
    /\ \/ failed # <<>> /\ TakeBatch("append")
       \/ failed = <<>> /\ UNCHANGED <<failed, retries>>
    /\ UNCHANGED <<seq, critical, timeline, flush, sub, faults>>

\* An append fails: an event of a critical type is buffered, the oldest one
\* making room.  (The type is chosen here, where it is looked at.)
AppendFails(e) ==
    /\ e \in saving
    /\ faults < MaxFaults
    /\ faults' = faults + 1
    /\ saving' = saving \ {e}
    /\ \/ /\ critical' = critical \cup {e}
          /\ failed' = LastOf(Append(failed, e), MaxFailedBuffer)
       \/ UNCHANGED <<critical, failed>>
    /\ UNCHANGED <<seq, timeline, log, retries, flush, sub>>

\* Faulty variant: flushFailedEvents makes one attempt.
AfterOneRetry(r) == flush' = IF r.by # "flush" THEN flush ELSE "no"

\* The end of a retry, for the caller: flushFailedEvents goes to sleep for a
\* second when something is left.
AfterRetry(r) ==
    flush' = IF r.by # "flush" THEN flush
             ELSE IF failed' = <<>> THEN "no" ELSE "sleeping"

RetryAppended(r) ==
    /\ r \in retries
    /\ log' = Append(log, Head(r.batch))
    /\ \/ /\ Len(r.batch) > 1
          /\ retries' = (retries \ {r}) \cup {[r EXCEPT !.batch = Tail(@)]}
          /\ UNCHANGED <<failed, flush>>
       \/ /\ Len(r.batch) = 1
          /\ retries' = retries \ {r}
          /\ UNCHANGED failed
          /\ AfterRetry(r)
    /\ UNCHANGED <<seq, critical, timeline, saving, sub, faults>>

\* The event that failed goes back to the front of the buffer; the events of
\* the batch behind it go nowhere.
RetryFails(r) ==
    /\ r \in retries
    /\ faults < MaxFaults
    /\ faults' = faults + 1
    /\ retries' = retries \ {r}
    /\ failed' = <<Head(r.batch)>> \o failed
    /\ AfterRetry(r)
    /\ UNCHANGED <<seq, critical, timeline, saving, log, sub>>

\* flushFailedEvents() and each further round of its loop.
FlushRound ==
    /\ flush # "retrying"
    /\ failed # <<>>
    /\ TakeBatch("flush")
    /\ flush' = "retrying"
    /\ UNCHANGED <<seq, critical, timeline, saving, log, sub, faults>>

\* Faulty variant: the loop waits for something to retry.
FlushWaits ==
    /\ flush = "sleeping" /\ failed # <<>>
    /\ TakeBatch("flush")
    /\ flush' = "retrying"
    /\ UNCHANGED <<seq, critical, timeline, saving, log, sub, faults>>

\* After its sleep it finds that others have emptied the buffer.
FlushEnds ==
    /\ flush = "sleeping" /\ failed = <<>>
    /\ flush' = "no"
    /\ UNCHANGED <<seq, critical, timeline, saving, log, failed, retries, sub, faults>>

----------------------------------------------------------------------------

SubNext(s) == Ask(s) \/ ReplayRead(s) \/ ReplayPush(s)

StoreNext ==
    \/ \E e \in Events : Appended(e)
    \/ \E r \in retries : RetryAppended(r)
    \/ FlushEnds
    \/ flush = "sleeping" /\ FlushRound

Next ==
    \/ Emit
    \/ \E s \in Subscribers : Subscribe(s) \/ SubNext(s) \/ ReplayFails(s) \/ Close(s)
    \/ StoreNext
    \/ \E e \in Events : AppendFails(e)
    \/ \E r \in retries : RetryFails(r)
    \/ FlushRound

Spec == Init /\ [][Next]_vars

\* Every operation of the store ends, every callback and timer runs, and a
\* consumer of a stream keeps asking (for await).
Fairness ==
    /\ \A s \in Subscribers : WF_vars(SubNext(s))
    /\ WF_vars(StoreNext)

FairSpec == Spec /\ Fairness

----------------------------------------------------------------------------

Held == saving \cup Elements(failed) \cup UNION {Elements(r.batch) : r \in retries}

\* An event reaches the store at most once, and is not held for another append
\* after that, although emission, automatic retries and flushFailedEvents move
\* it between the buffer, batches and the store concurrently.
StoredOnce ==
    /\ \A i, j \in 1..Len(log) : log[i] = log[j] => i = j
    /\ Held \cap Elements(log) = {}

\* A subscriber that asked for a replay misses nothing that was in the store
\* when it was read (unless reading fails), and nothing emitted after it subscribed.
ReplayCovers ==
    \A s \in Replaying :
        LET S == sub[s] IN
        S.state = "live" =>
            /\ (S.at + 1)..seq \subseteq Elements(S.got) \cup Elements(S.queue)
            /\ S.read \subseteq Elements(S.got) \cup Elements(S.queue) \cup Elements(S.todo)

\* However emission, retries and replays overlap, the store has no event twice
\* and a replay leaves none out.
EventsAreKept == StoredOnce /\ ReplayCovers

\* flushFailedEvents returns only when nothing is buffered.
FlushEmpties == [][flush # "no" /\ flush' = "no" => failed' = <<>>]_vars

\* flushFailedEvents returns once the store works again.
FlushReturns == (flush # "no") ~> (flush = "no")

\* flushFailedEvents keeps its word: it returns, and not before its work is done.
FlushKeepsWord == FlushEmpties /\ FlushReturns

\* Every event emitted while a subscription is open reaches its consumer.
EveryEventArrives ==
    \A s \in Subscribers, e \in Events :
        (sub[s].state = "live" /\ sub[s].at < e /\ e <= seq)
            ~> (e \in Elements(sub[s].got) \/ sub[s].state = "closed")

\* Live subscribers see the feed of EventFeed.
Feed == INSTANCE EventFeed WITH
            Readers <- Live,
            emitted <- seq,
            from <- [s \in Live |-> sub[s].at],
            received <- [s \in Live |-> sub[s].got]

ImplementsFeed == Feed!Spec

\* What a subscription hands out is in the order of emission.
ReceivedInOrder ==
    \A s \in Subscribers : \A i, j \in 1..Len(sub[s].got) :
        i < j => sub[s].got[i] < sub[s].got[j]

\* A critical event that could not be saved is kept for another attempt.
CriticalKept == critical \subseteq Held \cup Elements(log)

=============================================================================
