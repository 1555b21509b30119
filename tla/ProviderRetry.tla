--------------------------- MODULE ProviderRetry ---------------------------
(***************************************************************************)
(* withRetry and withRetryAndTimeout (src/infra/providers/core/retry.ts)   *)
(* with the classes that parseProviderError gives to errors.  Time passes  *)
(* in calls and in waits only, and a timer fires when it is due.  A call   *)
(* that loses the race against the deadline goes on by itself.             *)
(***************************************************************************)
EXTENDS Integers, FiniteSets, FiniteSetsExt

CONSTANTS MaxRetries, BaseDelay, MaxDelay,
          Jitter,       \* jitterFactor in percent
          Timeout,      \* timeoutMs of withRetryAndTimeout
          RetryAfters,  \* what retry-after may say, 0 for nothing
          CallTimes     \* how long a call may take

ASSUME RetryAssumption == /\ {MaxRetries, BaseDelay, MaxDelay, Jitter, Timeout} \subseteq Nat
                          /\ RetryAfters \cup CallTimes \subseteq Nat
                          /\ BaseDelay * (100 - Jitter) >= 100 /\ MaxDelay >= BaseDelay

VARIABLES mode,      \* "retry" or "timed"
          phase,     \* calling, waiting, returned or thrown
          attempt,
          clock,     \* time since the start
          delay,     \* how long it waits
          error,     \* the last error
          abandoned  \* calls that the deadline has left behind

retryVars == <<mode, phase, attempt, clock, delay, error, abandoned>>

\* An error as the call throws it: an HTTP status or 0, what its message says,
\* a code of the network, and a retry-after.
Errors ==
    {e \in [status : {0, 400, 401, 402, 403, 404, 429, 500, 503, 529},
            says   : {"nothing", "context", "safety", "signature", "quota", "timeout"},
            code   : {"none", "ECONNRESET"},
            after  : RetryAfters \cup {0}] :
        /\ e.code # "none" => e.status = 0
        /\ e.after # 0 => e.status \in {429, 503}}
NoError == [status |-> 0, says |-> "nothing", code |-> "none", after |-> 0]

\* The order of the tests decides: of statuses first the ones that speak for
\* themselves, then the message, then the rest and the codes.
ParseProviderError(e) ==
    IF e.status = 429 THEN "RateLimit"
    ELSE IF e.status \in {401, 403} THEN "Authentication"
    ELSE IF e.status = 503 THEN "ServiceUnavailable"
    ELSE IF e.status >= 500 THEN "Server"
    ELSE IF e.says = "context" THEN "ContextLength"
    ELSE IF e.says = "safety" THEN "ContentFilter"
    ELSE IF e.says = "signature" THEN "ThinkingSignature"
    ELSE IF e.status = 404 THEN "ModelNotFound"
    ELSE IF e.status = 402 \/ e.says = "quota" THEN "QuotaExceeded"
    ELSE IF e.code # "none" THEN "Network"
    ELSE IF e.says = "timeout" THEN "Timeout"
    ELSE IF e.status = 400 THEN "InvalidRequest"
    ELSE "Server"

Retryable(class) ==
    class \in {"RateLimit", "Server", "Timeout", "Network", "ServiceUnavailable"}

\* The delay doubles with every attempt, up to the maximum.
Doubled[k \in 0..MaxRetries] == IF k = 0 THEN BaseDelay ELSE 2 * Doubled[k - 1]
CalculateBackoffDelay(k) == Min({Doubled[k], MaxDelay})

\* retryAfter of the classes that have one and that the mode looks at.
RespectedAfter(class, e) ==
    IF class = "RateLimit" \/ (class = "ServiceUnavailable" /\ mode = "retry")
    THEN e.after ELSE 0

\* Random, within the factor, rounded down.
ApplyJitter(d) == {(d * (100 + j)) \div 100 : j \in {-Jitter, 0, Jitter}}
-----------------------------------------------------------------------------
RetryInit == /\ mode \in {"retry", "timed"}
             /\ phase = "calling" /\ attempt = 0 /\ clock = 0 /\ delay = 0
             /\ error = NoError /\ abandoned = 0

RetryEnds(how) == phase' = how /\ UNCHANGED <<attempt, delay>>

CallReturns ==
    /\ phase = "calling"
    /\ \E t \in CallTimes : clock' = clock + t
    /\ mode = "timed" => clock' <= Timeout
    /\ RetryEnds("returned")
    /\ UNCHANGED <<mode, error, abandoned>>

\* Faulty variant: the wait is not held against the deadline.
CatchUndated(class, e, now) ==
    IF ~Retryable(class) \/ attempt = MaxRetries THEN RetryEnds("thrown")
    ELSE \E d \in ApplyJitter(Max({CalculateBackoffDelay(attempt), RespectedAfter(class, e)})) :
            phase' = "waiting" /\ delay' = d /\ UNCHANGED attempt

\* The catch clause, at the time `now`.
Catch(class, e, now) ==
    IF ~Retryable(class) \/ attempt = MaxRetries THEN RetryEnds("thrown")
    ELSE \E d \in ApplyJitter(Max({CalculateBackoffDelay(attempt), RespectedAfter(class, e)})) :
            IF mode = "timed" /\ d > Timeout - now THEN RetryEnds("thrown")
            ELSE phase' = "waiting" /\ delay' = d /\ UNCHANGED attempt

CallFails ==
    \E e \in Errors, t \in CallTimes :
        /\ phase = "calling"
        /\ mode = "timed" => clock + t <= Timeout
        /\ clock' = clock + t
        /\ error' = e
        /\ Catch(ParseProviderError(e), e, clock + t)
        /\ UNCHANGED <<mode, abandoned>>

\* The timer of the race rejects with an error that says Timeout.
CallTimesOut ==
    /\ phase = "calling" /\ mode = "timed"
    /\ clock' = Timeout
    /\ error' = [NoError EXCEPT !.says = "timeout"]
    /\ abandoned' = abandoned + 1
    /\ Catch("Timeout", error', Timeout)
    /\ UNCHANGED mode

SleepEnds ==
    /\ phase = "waiting"
    /\ clock' = clock + delay
    /\ attempt' = attempt + 1
    /\ phase' = IF mode = "timed" /\ clock' > Timeout THEN "thrown" ELSE "calling"
    /\ UNCHANGED <<mode, delay, error, abandoned>>

RetryNext == CallReturns \/ CallFails \/ CallTimesOut \/ SleepEnds

RetrySpec == RetryInit /\ [][RetryNext]_retryVars
-----------------------------------------------------------------------------
\* A request that the API refused for good is not sent again; a 400 whose text
\* speaks of a timeout is, since the message is looked at before the status.
RefusedIsFinal ==
    error.status \in {400, 401, 402, 403, 404} /\ phase \in {"waiting", "calling"} =>
        error.status = 400 /\ error.says = "timeout"

\* withRetryAndTimeout is over by its deadline, waits included, and starts no
\* call beside one that it gave up.
DeadlineKept ==
    mode = "timed" => /\ clock <= Timeout
                      /\ phase = "calling" => abandoned = 0

\* Before a retry it waits as long as the server asked, less the jitter, which
\* is applied last.  Of a 503 withRetryAndTimeout does not heed the time.
WaitsAsAsked ==
    phase = "waiting" /\ (error.status = 429 \/ (error.status = 503 /\ mode = "retry")) =>
        delay >= (error.after * (100 - Jitter)) \div 100

\* Retries stop at what the API refused, at the deadline, and wait as asked.
RetriesWell == RefusedIsFinal /\ DeadlineKept /\ WaitsAsAsked
=============================================================================
