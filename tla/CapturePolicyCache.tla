------------------------ MODULE CapturePolicyCache -------------------------
(***************************************************************************)
(* The capture policy of a client and its refresh by polling               *)
(* (src/observability/capture/CapturePolicyCache.ts).  Delays are in       *)
(* seconds.  An action runs from one await, timer or call to the next; the *)
(* errors of the callbacks (onFetchError, onNotices) are caught and change *)
(* nothing.                                                                *)
(***************************************************************************)
EXTENDS Integers

CONSTANTS
  Refresh,        \* refreshMs, at least MIN_CAPTURE_POLICY_REFRESH_MS
  MaxBackoff,     \* MAX_BACKOFF_MS
  RetryAfterMax,  \* RETRY_AFTER_MAX_MS
  RetryAfters,    \* the Retry-After values a 429 may carry
  MaxFailures     \* bound: failureCount saturates here, past its use

ASSUME PolicyAssumption ==
  /\ Refresh \in Nat \ {0} /\ MaxBackoff \in Nat \ {0}
  /\ RetryAfterMax \in Nat /\ RetryAfters \subseteq Nat
  /\ MaxFailures \in Nat \ {0}

NoTimer == -1

VARIABLES
  stopped,
  timer,         \* the delay the pending timer was set with, or NoTimer
  inFlight,
  failureCount,
  policy,        \* "default", or "server": one compiled from an answer
  (* History. *)
  requests,      \* requests on the wire
  outcome        \* of the last one: "none", "ok", "failed" or "throttled"

vars == <<stopped, timer, inFlight, failureCount, policy, requests, outcome>>

-----------------------------------------------------------------------------
Min2(a, b) == IF a <= b THEN a ELSE b

(* jitter(), to the second: up to a tenth more or less. *)
Jitter(delay) == {delay - delay \div 10, delay, delay + delay \div 10}

(* refreshMs * 2 ** failures, capped. *)
Backoff(failures) ==
  IF Refresh >= MaxBackoff THEN MaxBackoff
  ELSE Min2(MaxBackoff, Refresh * 2 ^ Min2(failures, 10))

(* Mutant of ScheduleNext: the timer is set whatever stop() said. *)
ScheduleNextAlways(delay) == timer' = delay

ScheduleNext(delay) == timer' = IF stopped' THEN timer ELSE delay

(* Mutant of Failed: a failure forgets the ones before it, and itself. *)
FailedForgets ==
  /\ failureCount' = 0 /\ outcome' = "failed"
  /\ \E delay \in Jitter(Backoff(0)) : ScheduleNext(delay)
  /\ UNCHANGED policy

(* A fetch fails: backoffDelay() and the finally block. *)
Failed ==
  /\ failureCount' = Min2(failureCount + 1, MaxFailures)
  /\ outcome' = "failed"
  /\ \E delay \in Jitter(Backoff(failureCount + 1)) : ScheduleNext(delay)
  /\ UNCHANGED policy

(* Mutant of HeadersThrow: the error escapes fetchOnce(). *)
HeadersThrowUncaught ==
  /\ inFlight' = TRUE /\ timer' = NoTimer
  /\ UNCHANGED <<requests, failureCount, policy, outcome>>

(* getHeaders() throws before there is a request: a failure like another.  *)
HeadersThrow == inFlight' = FALSE /\ UNCHANGED requests /\ Failed

(* Mutant of FetchOnce: nothing looks at inFlight. *)
FetchOnceOverlapping ==
  /\ inFlight' = TRUE /\ requests' = requests + 1
  /\ timer' = NoTimer /\ UNCHANGED <<failureCount, policy, outcome>>

(* fetchOnce() of a started cache, with no timer pending, up to its await. *)
FetchOnce ==
  IF inFlight
  THEN /\ timer' = NoTimer
       /\ UNCHANGED <<inFlight, requests, failureCount, policy, outcome>>
  ELSE \/ /\ inFlight' = TRUE /\ requests' = requests + 1
          /\ timer' = NoTimer
          /\ UNCHANGED <<failureCount, policy, outcome>>
       \/ HeadersThrow

Start == stopped /\ stopped' = FALSE /\ FetchOnce

Stop ==
  /\ stopped' = TRUE /\ timer' = NoTimer
  /\ UNCHANGED <<inFlight, failureCount, policy, requests, outcome>>

TimerFires == timer # NoTimer /\ UNCHANGED stopped /\ FetchOnce

(* The request is answered, or times out after 10 seconds. *)
FetchAnswered ==
  /\ requests > 0
  /\ inFlight' = FALSE /\ requests' = requests - 1
  /\ UNCHANGED stopped

(* A body parseAndCompileCapturePolicy() cannot use counts as a success:   *)
(* it compiles to the default policy.                                      *)
FetchSucceeds(compiled) ==
  /\ FetchAnswered
  /\ policy' = compiled
  /\ failureCount' = 0 /\ outcome' = "ok"
  /\ \E delay \in Jitter(Refresh) : ScheduleNext(delay)

FetchFails == FetchAnswered /\ Failed

(* 429 with a Retry-After: neither counted nor jittered. *)
FetchThrottled(retryAfter) ==
  /\ FetchAnswered
  /\ outcome' = "throttled"
  /\ ScheduleNext(Min2(RetryAfterMax, retryAfter))
  /\ UNCHANGED <<policy, failureCount>>

Init ==
  /\ stopped = TRUE /\ timer = NoTimer /\ inFlight = FALSE
  /\ failureCount = 0 /\ policy = "default"
  /\ requests = 0 /\ outcome = "none"

Next ==
  \/ Start \/ Stop \/ TimerFires \/ FetchFails
  \/ \E compiled \in {"default", "server"} : FetchSucceeds(compiled)
  \/ \E retryAfter \in RetryAfters : FetchThrottled(retryAfter)

Spec == Init /\ [][Next]_vars

-----------------------------------------------------------------------------
(* Types; never more than one request on the wire, whatever the order of   *)
(* start(), stop() and the answers, and inFlight says so.                  *)
TypeOK ==
  /\ stopped \in BOOLEAN /\ inFlight \in BOOLEAN
  /\ timer = NoTimer \/ timer \in Nat
  /\ failureCount \in 0 .. MaxFailures
  /\ policy \in {"default", "server"}
  /\ outcome \in {"none", "ok", "failed", "throttled"}
  /\ requests = IF inFlight THEN 1 ELSE 0

(* Polling never dies: a started cache always has a request to be answered *)
(* or a timer to fire, even if getHeaders() throws (CapturePolicyCache.ts: *)
(* 133-134, CHANGELOG.md:141-142).                                         *)
NeverStalls == ~stopped => requests > 0 \/ timer # NoTimer

(* A stopped cache is over: no answer arms its timer again (:86, :259 of   *)
(* stacktrace-client.ts).                                                  *)
StoppedForGood == stopped => timer = NoTimer

(* After a failure the wait is longer than after a success, if the refresh *)
(* interval leaves room for it below MAX_BACKOFF_MS (:104-108).            *)
BackoffSlowsPolling ==
  11 * Refresh <= 9 * MaxBackoff =>
    (outcome = "failed" /\ timer # NoTimer
       => 10 * timer >= 11 * Refresh)
=============================================================================
