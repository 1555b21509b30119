------------------------------- MODULE Timers -------------------------------
(***************************************************************************)
(* Timed and stepwise tasks (core/time-bridge.ts, core/scheduler.ts).      *)
(*                                                                         *)
(* A timer arms a setTimeout, and when that fires puts its callback at the *)
(* end of the scheduler's chain of promises and arms the next one; stop()  *)
(* clears the armed one.  The chain runs one callback at a time and goes   *)
(* on when one rejects.  setTimeout counts the machine's monotonic time,   *)
(* `due` and cron's times come from the wall clock, which can be set back  *)
(* or forward in between.  A delay above the platform's limit (2^31-1 ms)  *)
(* fires at once.                                                          *)
(***************************************************************************)
EXTENDS Integers, Sequences

CONSTANTS Repeating,    \* ids of everyMinutes timers
          Daily,        \* ids of cron timers
          Intervals,    \* periods of repeating timers
          MinuteOfDay,  \* the time of day of the cron expressions
          Day,          \* length of a day
          DelayLimit,   \* the longest delay setTimeout can wait for
          MaxTime,      \* bound: monotonic time
          MaxLag,       \* bound: callbacks waiting in the chain
          MaxTicks,     \* bound: ticks of a timer
          Settings,     \* bound: amounts by which the wall clock is set, once
          Every,        \* the interval of a task registered with everySteps
          MaxSteps      \* bound: steps of the agent

(* A day's delay is one that setTimeout can wait for; a timer's period is  *)
(* positive, and so is the interval of a step task (everyMinutes() and     *)
(* everySteps() throw otherwise).                                          *)
ASSUME TimerAssumption ==
  /\ Repeating \cap Daily = {}
  /\ Intervals \subseteq Nat \ {0} /\ Every \in Nat \ {0} /\ Settings \subseteq Int
  /\ Day \in Nat \ {0} /\ MinuteOfDay \in 0..(Day - 1)
  /\ DelayLimit \in Nat /\ Day <= DelayLimit

VARIABLES now,            \* monotonic time
          offset,         \* wall clock minus monotonic time
          armed,          \* armed[t]: when the setTimeout of t fires, Never if none is armed
          due,            \* due[t]: the wall time the armed setTimeout is meant for
          interval,       \* interval[t]: the period t was created with
          timers,         \* the ids in the bridge's Map `timers`
          chain,          \* Seq of [id, due]: the callbacks enqueued on the scheduler
          running,        \* the callback the chain awaits, NoTask if none
          ticks,          \* ticks[t]: the ticks of t, when and for which wall time (observation)
          stepCount,      \* the agent's step counter
          lastTriggered,  \* of the step task, NoStep while none is registered
          triggers        \* Seq of the step counts that triggered it (observation)

clockVars == <<now, offset, armed, due, interval, timers, chain, running, ticks>>
stepVars == <<stepCount, lastTriggered, triggers>>
timerVars == <<clockVars, stepVars>>

Timer == Repeating \cup Daily
Never == -1
NoStep == -1
NoTask == [id |-> "none", due |-> Never]
Wall == now + offset

TimerInit ==
  /\ now = 0
  /\ offset = 0
  /\ armed = [t \in Timer |-> Never]
  /\ due = [t \in Timer |-> Never]
  /\ interval = [t \in Timer |-> 0]
  /\ timers = {}
  /\ chain = <<>>
  /\ running = NoTask
  /\ ticks = [t \in Timer |-> <<>>]
  /\ stepCount = 0
  /\ lastTriggered = NoStep
  /\ triggers = <<>>

-----------------------------------------------------------------------------

(* setTimeout(..., delay): a delay beyond the limit becomes one of 1 ms,   *)
(* which is no time on this scale.                                         *)
FiresAt(delay) == IF delay > DelayLimit THEN now ELSE now + delay

(* Faulty variant: an occurrence may be now.                               *)
OccurrenceFromNow ==
  LET today == (Wall \div Day) * Day + MinuteOfDay IN
    IF today < Wall THEN today + Day ELSE today

(* The next wall time at the expression's time of day, later than now.     *)
NextOccurrence ==
  LET today == (Wall \div Day) * Day + MinuteOfDay IN
    IF today <= Wall THEN today + Day ELSE today

(* scheduleNext() of everyMinutes and of cron.                             *)
NextDue(t, period) == IF t \in Repeating THEN Wall + period ELSE NextOccurrence

ScheduleNext(t, period) ==
  /\ due' = [due EXCEPT ![t] = NextDue(t, period)]
  /\ armed' = [armed EXCEPT ![t] = FiresAt(NextDue(t, period) - Wall)]

(* everyMinutes() or cron() creates t.                                     *)
CreateTimer(t) ==
  /\ t \notin timers
  /\ armed[t] = Never /\ ticks[t] = <<>>
  /\ timers' = timers \cup {t}
  /\ \E period \in (IF t \in Repeating THEN Intervals ELSE {Day}) :
       /\ interval' = [interval EXCEPT ![t] = period]
       /\ ScheduleNext(t, period)
  /\ UNCHANGED <<now, offset, chain, running, ticks, stepVars>>

(* tick(): enqueue the callback, then arm the next timeout.                *)
TimerTicks(t) ==
  /\ armed[t] # Never /\ armed[t] <= now
  /\ Len(chain) < MaxLag
  /\ Len(ticks[t]) < MaxTicks
  /\ chain' = Append(chain, [id |-> t, due |-> due[t]])
  /\ ticks' = [ticks EXCEPT ![t] = Append(@, [due |-> due[t], at |-> now])]
  /\ ScheduleNext(t, interval[t])
  /\ UNCHANGED <<now, offset, interval, timers, running, stepVars>>

(* stop() or, for all of them, dispose(): what is enqueued already stays.  *)
StopTimers(ts) ==
  /\ ts \subseteq timers /\ ts # {}
  /\ timers' = timers \ ts
  /\ armed' = [t \in Timer |-> IF t \in ts THEN Never ELSE armed[t]]
  /\ due' = [t \in Timer |-> IF t \in ts THEN Never ELSE due[t]]
  /\ UNCHANGED <<now, offset, interval, chain, running, ticks, stepVars>>

(* enqueue(): queued.then(callback).catch(): the callback of the front of  *)
(* the chain starts when the one before it has settled, either way.        *)
CallbackStarts ==
  /\ running = NoTask
  /\ chain # <<>>
  /\ running' = Head(chain)
  /\ chain' = Tail(chain)
  /\ UNCHANGED <<now, offset, armed, due, interval, timers, ticks, stepVars>>

CallbackSettles ==
  /\ running # NoTask
  /\ running' = NoTask
  /\ UNCHANGED <<now, offset, armed, due, interval, timers, chain, ticks, stepVars>>

(* Time passes; a busy event loop lets timeouts fire late.                 *)
TimePasses ==
  /\ now < MaxTime
  /\ now' = now + 1
  /\ UNCHANGED <<offset, armed, due, interval, timers, chain, running, ticks, stepVars>>

ClockIsSet ==
  /\ offset = 0
  /\ offset' \in Settings
  /\ now + offset' >= 0
  /\ UNCHANGED <<now, armed, due, interval, timers, chain, running, ticks, stepVars>>

(* everySteps(): the task counts as triggered at step 0, so that one which *)
(* is registered late may be triggered by the very next step.              *)
EverySteps ==
  /\ lastTriggered = NoStep
  /\ lastTriggered' = 0
  /\ UNCHANGED <<clockVars, stepCount, triggers>>

(* The agent has counted a step.  runStep notifies the scheduler only of   *)
(* the steps that emitted `done`: a round of tool calls counts unnoticed.  *)
StepCounted(notified) ==
  /\ stepCount < MaxSteps
  /\ stepCount' = stepCount + 1
  /\ IF notified /\ lastTriggered # NoStep /\ stepCount' - lastTriggered >= Every
     THEN /\ lastTriggered' = stepCount'
          /\ triggers' = Append(triggers, stepCount')
     ELSE UNCHANGED <<lastTriggered, triggers>>
  /\ UNCHANGED clockVars

ClockNext ==
  \/ \E t \in Timer : CreateTimer(t) \/ TimerTicks(t)
  \/ \E t \in timers : StopTimers({t})
  \/ StopTimers(timers)
  \/ CallbackStarts \/ CallbackSettles \/ TimePasses \/ ClockIsSet

StepNext == EverySteps \/ StepCounted(TRUE) \/ StepCounted(FALSE)

TimerNext == ClockNext \/ StepNext

TimerSpec == TimerInit /\ [][TimerNext]_timerVars

-----------------------------------------------------------------------------

(* A timer that was stopped has no timeout left that could enqueue its     *)
(* callback, and every other one has exactly the one it armed last.        *)
OnlyLiveTimersArmed == \A t \in Timer : armed[t] # Never <=> t \in timers

(* The ticks of a repeating timer are a period apart, however late they    *)
(* run, as long as setTimeout can wait that long.                          *)
PeriodsKept ==
  \A t \in Repeating : interval[t] <= DelayLimit =>
    \A i \in 1..(Len(ticks[t]) - 1) : ticks[t][i + 1].at - ticks[t][i].at >= interval[t]

(* A cron timer ticks at most once for each day's time, even when its      *)
(* timeout fires exactly then, unless the wall clock was set back.         *)
OncePerDay ==
  offset >= 0 =>
    \A t \in Daily : \A i \in 1..(Len(ticks[t]) - 1) :
      ticks[t][i + 1].due - ticks[t][i].due >= Day

(* Two triggers of a step task are at least its interval apart.            *)
StepsApart ==
  \A i \in 1..(Len(triggers) - 1) : triggers[i + 1] - triggers[i] >= Every

(* Timers and step tasks keep their cadence under late and stopped         *)
(* timeouts, a slow chain of callbacks and a wall clock that is set.       *)
CadenceKept == OnlyLiveTimersArmed /\ PeriodsKept /\ OncePerDay /\ StepsApart
=============================================================================
