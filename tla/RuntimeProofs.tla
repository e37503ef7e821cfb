--------------------------- MODULE RuntimeProofs ---------------------------
(***************************************************************************)
(* What the SDK runs on its own.  For every refresh interval, backoff cap  *)
(* and Retry-After: the polling of CapturePolicyCache never dies, never    *)
(* overlaps, stops for good and slows down after a failure.  For every     *)
(* threshold and window: the fuse of SafeRun trips on bursts only, and on  *)
(* every burst of about two thresholds.                                    *)
(***************************************************************************)
EXTENDS CapturePolicyCache, SafeRun, FiniteSetTheorems, TLAPS

-----------------------------------------------------------------------------
(* A started cache is either waiting for its timer or for its request, and *)
(* not for both: with the types, this is inductive.                        *)
PollInv ==
  /\ TypeOK
  /\ NeverStalls
  /\ StoppedForGood
  /\ inFlight => timer = NoTimer

(* 2 ^ n counts the subsets of 1 .. n, and so is a natural number. *)
LEMMA PowerNat == ASSUME NEW n \in Nat PROVE 2 ^ n \in Nat
<1>1. IsFiniteSet(1 .. n) /\ Cardinality(1 .. n) = n
  BY FS_Interval
<1>2. IsFiniteSet(SUBSET (1 .. n)) /\ Cardinality(SUBSET (1 .. n)) = 2 ^ n
  BY <1>1, FS_SUBSET
<1> QED BY <1>2, FS_CardinalityType

LEMMA JitterNat ==
  ASSUME NEW delay \in Nat PROVE Jitter(delay) \subseteq Nat
BY DEF Jitter

LEMMA BackoffNat == ASSUME NEW n \in Nat PROVE Backoff(n) \in Nat
<1>1. Min2(n, 10) \in Nat
  BY DEF Min2
<1>2. 2 ^ Min2(n, 10) \in Nat
  BY <1>1, PowerNat
<1> DEFINE power == 2 ^ Min2(n, 10)
<1> HIDE DEF power
<1>3. Refresh * power \in Nat
  BY <1>2, PolicyAssumption DEF power
<1> QED BY <1>3, PolicyAssumption DEF Backoff, Min2, power

LEMMA PollInit == Init => PollInv
<1> SUFFICES ASSUME Init PROVE PollInv
  OBVIOUS
<1>1. failureCount \in 0 .. MaxFailures
  BY PolicyAssumption DEF Init
<1>2. requests = IF inFlight THEN 1 ELSE 0
  BY DEF Init
<1>3. timer = NoTimer /\ stopped = TRUE /\ inFlight = FALSE
  BY DEF Init
<1> QED BY <1>1, <1>2, <1>3
        DEF Init, PollInv, TypeOK, NeverStalls, StoppedForGood

FailureType == failureCount \in 0 .. MaxFailures
TimerType == timer = NoTimer \/ timer \in Nat
Armed == timer \in Nat

(* The invariant of the next state from what a step says of its parts. *)
LEMMA PolledNext ==
  ASSUME stopped' \in BOOLEAN, inFlight' \in BOOLEAN,
         policy' \in {"default", "server"},
         outcome' \in {"none", "ok", "failed", "throttled"},
         FailureType', TimerType',
         requests' = IF inFlight' THEN 1 ELSE 0,
         stopped' \/ inFlight' \/ timer' # NoTimer,
         stopped' \/ inFlight' => timer' = NoTimer
  PROVE  PollInv'
<1>1. (inFlight => requests > 0)'
  OBVIOUS
<1> QED BY <1>1 DEF PollInv, TypeOK, NeverStalls, StoppedForGood, FailureType,
            TimerType

(* What a failed fetch leaves behind, in a cache that is or is not stopped. *)
LEMMA FailedPolls ==
  ASSUME TypeOK, stopped' \in BOOLEAN, Failed
  PROVE  /\ FailureType' /\ outcome' = "failed" /\ policy' = policy
         /\ stopped' => timer' = timer
         /\ ~stopped' => Armed'
<1>1. Jitter(Backoff(failureCount + 1)) \subseteq Nat
  BY BackoffNat, JitterNat DEF TypeOK
<1>2. PICK delay \in Jitter(Backoff(failureCount + 1)) : ScheduleNext(delay)
  BY DEF Failed
<1>3. FailureType'
  BY PolicyAssumption DEF Failed, TypeOK, Min2, FailureType
<1>4. stopped' => timer' = timer
  BY <1>2 DEF ScheduleNext
<1>5. ~stopped' => Armed'
  BY <1>1, <1>2 DEF ScheduleNext, Armed
<1> QED BY <1>3, <1>4, <1>5 DEF Failed

LEMMA ArmedIsSet == Armed' => timer' # NoTimer /\ TimerType'
BY DEF Armed, TimerType, NoTimer

(* fetchOnce() of a started cache leaves it waiting for one of the two. *)
LEMMA FetchOncePolls ==
  ASSUME PollInv, stopped' = FALSE, FetchOnce
  PROVE  PollInv'
<1> USE DEF PollInv, TypeOK, NeverStalls, StoppedForGood
<1>1. CASE inFlight
  <2>1. timer' = NoTimer
        /\ UNCHANGED <<inFlight, requests, failureCount, policy, outcome>>
    BY <1>1 DEF FetchOnce
  <2>2. FailureType' /\ TimerType'
    BY <2>1 DEF FailureType, TimerType
  <2> QED BY <1>1, <2>1, <2>2, PolledNext
<1>2. CASE ~inFlight
  <2>1. CASE /\ inFlight' = TRUE /\ requests' = requests + 1
             /\ timer' = NoTimer /\ UNCHANGED <<failureCount, policy, outcome>>
    <3>1. FailureType'
      BY <2>1 DEF FailureType
    <3>2. requests' = 1 /\ TimerType'
      BY <1>2, <2>1 DEF TimerType
    <3> QED BY <2>1, <3>1, <3>2, PolledNext
  <2>2. CASE HeadersThrow
    <3>1. inFlight' = FALSE /\ requests' = requests /\ Failed
      BY <2>2 DEF HeadersThrow
    <3>2. Armed' /\ FailureType' /\ outcome' = "failed" /\ policy' = policy
      BY <3>1, FailedPolls
    <3>3. requests' = 0 /\ timer' # NoTimer /\ TimerType'
      BY <1>2, <3>1, <3>2, ArmedIsSet
    <3> QED BY <3>1, <3>2, <3>3, PolledNext
  <2> QED BY <1>2, <2>1, <2>2 DEF FetchOnce
<1> QED BY <1>1, <1>2

(* An answer schedules the next fetch, unless the cache was stopped. *)
LEMMA AnswerPolls ==
  ASSUME PollInv, FetchAnswered, FailureType',
         policy' \in {"default", "server"},
         outcome' \in {"ok", "failed", "throttled"},
         stopped => timer' = timer, ~stopped => Armed'
  PROVE  PollInv'
<1> USE DEF PollInv, TypeOK, StoppedForGood
<1>1. inFlight = TRUE /\ requests = 1 /\ timer = NoTimer
  BY DEF FetchAnswered
<1>2. inFlight' = FALSE /\ requests' = 0 /\ stopped' = stopped
  BY <1>1 DEF FetchAnswered
<1>3. TimerType' /\ (stopped' => timer' = NoTimer)
      /\ (~stopped' => timer' # NoTimer)
  BY <1>1, <1>2, ArmedIsSet DEF TimerType
<1> QED BY <1>1, <1>2, <1>3, PolledNext

LEMMA PollStep == PollInv /\ [Next]_vars => PollInv'
<1> SUFFICES ASSUME PollInv, [Next]_vars PROVE PollInv'
  OBVIOUS
<1>1. CASE Start
  BY <1>1, FetchOncePolls DEF Start
<1>2. CASE Stop
  BY <1>2 DEF Stop, PollInv, TypeOK, NeverStalls, StoppedForGood
<1>3. CASE TimerFires
  <2>1. stopped' = FALSE
    BY <1>3 DEF TimerFires, PollInv, StoppedForGood, TypeOK
  <2> QED BY <1>3, <2>1, FetchOncePolls DEF TimerFires
<1>4. CASE FetchFails
  <2>1. FetchAnswered /\ Failed /\ stopped' = stopped /\ stopped \in BOOLEAN
    BY <1>4 DEF FetchFails, FetchAnswered, PollInv, TypeOK
  <2>2. /\ FailureType' /\ outcome' = "failed" /\ policy' = policy
        /\ stopped => timer' = timer
        /\ ~stopped => Armed'
    BY <2>1, FailedPolls DEF PollInv
  <2> QED BY <2>1, <2>2, AnswerPolls DEF PollInv, TypeOK
<1>5. ASSUME NEW compiled \in {"default", "server"}, FetchSucceeds(compiled)
      PROVE  PollInv'
  <2>1. PICK delay \in Jitter(Refresh) : ScheduleNext(delay)
    BY <1>5 DEF FetchSucceeds
  <2>2. delay \in Nat
    BY JitterNat, PolicyAssumption
  <2>3. FetchAnswered /\ stopped' = stopped /\ policy' = compiled
        /\ failureCount' = 0 /\ outcome' = "ok"
    BY <1>5 DEF FetchSucceeds, FetchAnswered
  <2>4. (stopped => timer' = timer) /\ (~stopped => Armed')
    BY <2>1, <2>2, <2>3 DEF ScheduleNext, Armed
  <2>5. FailureType'
    BY <2>3, PolicyAssumption DEF FailureType
  <2> QED BY <2>3, <2>4, <2>5, AnswerPolls
<1>6. ASSUME NEW retryAfter \in RetryAfters, FetchThrottled(retryAfter)
      PROVE  PollInv'
  <2>1. FetchAnswered /\ stopped' = stopped /\ policy' = policy
        /\ failureCount' = failureCount /\ outcome' = "throttled"
        /\ ScheduleNext(Min2(RetryAfterMax, retryAfter))
    BY <1>6 DEF FetchThrottled, FetchAnswered
  <2>2. Min2(RetryAfterMax, retryAfter) \in Nat
    BY PolicyAssumption DEF Min2
  <2>3. (stopped => timer' = timer) /\ (~stopped => Armed')
    BY <2>1, <2>2 DEF ScheduleNext, Armed
  <2>4. FailureType'
    BY <2>1 DEF FailureType, PollInv, TypeOK
  <2> QED BY <2>1, <2>3, <2>4, AnswerPolls DEF PollInv, TypeOK
<1>7. CASE UNCHANGED vars
  BY <1>7 DEF vars, PollInv, TypeOK, NeverStalls, StoppedForGood
<1> QED BY <1>1, <1>2, <1>3, <1>4, <1>5, <1>6, <1>7 DEF Next

LEMMA AlwaysPolls == Spec => []PollInv
BY PollInit, PollStep, PTL DEF Spec

(* Polling never dies: a started cache always has a request to be answered *)
(* or a timer to fire, whatever the server and the customer's getHeaders() *)
(* do (CapturePolicyCache.ts:126-174).                                     *)
THEOREM PollingNeverStalls == Spec => []NeverStalls
BY AlwaysPolls, PTL DEF PollInv

(* stop() is final until start(): an answer that arrives later arms no     *)
(* timer (CapturePolicyCache.ts:77-88).                                    *)
THEOREM StopIsFinal == Spec => []StoppedForGood
BY AlwaysPolls, PTL DEF PollInv

(* Types, and at most one request on the wire at any time, in any order of *)
(* start(), stop() and the answers (CapturePolicyCache.ts:127).            *)
THEOREM NeverOverlaps == Spec => []TypeOK
BY AlwaysPolls, PTL DEF PollInv

(* A set with two subsets has two elements in its power set. *)
LEMMA PowerTwo == ASSUME NEW n \in Nat \ {0} PROVE 2 ^ n >= 2
<1>1. IsFiniteSet(1 .. n) /\ Cardinality(1 .. n) = n
  BY FS_Interval
<1>2. IsFiniteSet(SUBSET (1 .. n)) /\ Cardinality(SUBSET (1 .. n)) = 2 ^ n
  BY <1>1, FS_SUBSET
<1>3. Cardinality({{}, {1}}) = 2
  <2>1. IsFiniteSet({{}}) /\ Cardinality({{}}) = 1 /\ {1} \notin {{}}
    BY FS_Singleton
  <2>2. Cardinality({{}} \cup {{1}}) = Cardinality({{}}) + 1
    BY <2>1, FS_AddElement
  <2>3. {{}} \cup {{1}} = {{}, {1}}
    OBVIOUS
  <2> QED BY <2>1, <2>2, <2>3
<1>4. {{}, {1}} \subseteq SUBSET (1 .. n)
  OBVIOUS
<1>5. Cardinality({{}, {1}}) <= Cardinality(SUBSET (1 .. n))
  BY <1>2, <1>4, FS_Subset
<1> QED BY <1>2, <1>3, <1>5

(* After a failure even the shortest delay is a tenth more than refreshMs. *)
LEMMA BackoffIsLonger ==
  ASSUME NEW n \in Nat \ {0}, NEW delay \in Jitter(Backoff(n)),
         11 * Refresh <= 9 * MaxBackoff
  PROVE  10 * delay >= 11 * Refresh
<1>1. Min2(n, 10) \in Nat \ {0}
  BY DEF Min2
<1>2. 2 ^ Min2(n, 10) \in Nat /\ 2 ^ Min2(n, 10) >= 2
  BY <1>1, PowerNat, PowerTwo
<1> DEFINE power == 2 ^ Min2(n, 10)
           long == Refresh * power
<1>3. Backoff(n) = Min2(MaxBackoff, long)
  BY PolicyAssumption DEF Backoff
<1> HIDE DEF power
<1>4. long \in Nat /\ long >= 2 * Refresh
  BY <1>2, PolicyAssumption DEF power
<1> HIDE DEF long
<1>5. Backoff(n) = MaxBackoff \/ Backoff(n) = long
  BY <1>3 DEF Min2
<1>6. Backoff(n) \in Nat /\ 9 * Backoff(n) >= 11 * Refresh
  BY <1>4, <1>5, PolicyAssumption
<1> QED BY <1>6, PolicyAssumption DEF Jitter

LEMMA SlowStep ==
  PollInv /\ BackoffSlowsPolling /\ [Next]_vars => BackoffSlowsPolling'
<1> SUFFICES ASSUME PollInv, BackoffSlowsPolling, [Next]_vars,
                    11 * Refresh <= 9 * MaxBackoff,
                    outcome' = "failed", timer' # NoTimer
             PROVE  10 * timer' >= 11 * Refresh
  BY DEF BackoffSlowsPolling
<1> USE DEF BackoffSlowsPolling
<1>1. CASE Failed /\ stopped' \in BOOLEAN /\ (stopped' => timer = NoTimer)
  <2>1. PICK delay \in Jitter(Backoff(failureCount + 1)) : ScheduleNext(delay)
    BY <1>1 DEF Failed
  <2>2. failureCount + 1 \in Nat \ {0}
    BY DEF PollInv, TypeOK
  <2>3. timer' = delay
    BY <1>1, <2>1 DEF ScheduleNext
  <2> QED BY <2>1, <2>2, <2>3, BackoffIsLonger
<1>2. ASSUME FetchOnce, stopped' = FALSE PROVE 10 * timer' >= 11 * Refresh
  BY <1>1, <1>2 DEF FetchOnce, HeadersThrow
<1>3. CASE Start
  BY <1>2, <1>3 DEF Start
<1>4. CASE Stop
  BY <1>4 DEF Stop
<1>5. CASE TimerFires
  BY <1>2, <1>5 DEF TimerFires, PollInv, StoppedForGood, TypeOK
<1>6. CASE FetchFails
  BY <1>1, <1>6 DEF FetchFails, FetchAnswered, PollInv, StoppedForGood, TypeOK
<1>7. ASSUME NEW compiled \in {"default", "server"}, FetchSucceeds(compiled)
      PROVE  10 * timer' >= 11 * Refresh
  BY <1>7 DEF FetchSucceeds
<1>8. ASSUME NEW retryAfter \in RetryAfters, FetchThrottled(retryAfter)
      PROVE  10 * timer' >= 11 * Refresh
  BY <1>8 DEF FetchThrottled
<1>9. CASE UNCHANGED vars
  BY <1>9 DEF vars
<1> QED BY <1>3, <1>4, <1>5, <1>6, <1>7, <1>8, <1>9 DEF Next

(* After a failure the next fetch waits at least a tenth longer than       *)
(* refreshMs, for every refresh interval and cap that leave room for it,   *)
(* whatever the jitter (CapturePolicyCache.ts:104-108).                    *)
THEOREM PollingBacksOff == Spec => []BackoffSlowsPolling
<1>1. Init => BackoffSlowsPolling
  BY DEF Init, BackoffSlowsPolling
<1> QED BY <1>1, SlowStep, AlwaysPolls, PTL DEF Spec

-----------------------------------------------------------------------------
(* The failures between two moments, the first left out. *)
Between(from, to) == failures[to] - failures[from]

FuseType ==
  /\ now \in Times
  /\ sink \in BOOLEAN
  /\ windowStart = 0 \/ windowStart \in Window + 1 .. now
  /\ windowCount \in Nat
  /\ fuseTripped \in BOOLEAN
  /\ failures \in [0 .. End -> Nat]

(* The history only grows, from nothing, and knows nothing of the future. *)
HistoryInv ==
  /\ \A s, t \in 0 .. End : s <= t => failures[s] <= failures[t]
  /\ \A t \in 0 .. End : t >= now => failures[t] = failures[now]
  /\ \A t \in 0 .. Window : failures[t] = 0

(* The open window holds every failure since it was opened, the last of    *)
(* them while it was open.                                                 *)
WindowInv ==
  /\ windowStart = 0 => windowCount = 0 /\ failures[now] = 0
  /\ windowStart # 0 =>
       /\ windowCount = Between(windowStart - 1, now)
       /\ \A t \in 0 .. End :
            t >= windowStart + Window => failures[t] = failures[now]

(* While the fuse holds, neither this window nor the stretch as long as a  *)
(* window before it has seen a threshold of failures.                      *)
QuietInv ==
  ~fuseTripped =>
    /\ windowCount < Threshold
    /\ windowStart # 0 =>
         Between(windowStart - Window - 1, windowStart - 1) < Threshold

FuseInv ==
  /\ FuseType /\ HistoryInv /\ WindowInv /\ QuietInv
  /\ FuseSparesTrickle /\ FuseCatchesDoubleBurst

LEMMA EndNat == /\ End \in Nat /\ Window \in Nat \ {0} /\ Window < End
                /\ Threshold \in Nat \ {0}
BY FuseAssumption DEF End

LEMMA FuseStarts == FuseInit => FuseInv
<1> SUFFICES ASSUME FuseInit PROVE FuseInv
  OBVIOUS
<1> USE EndNat DEF FuseInit
<1>1. failures \in [0 .. End -> Nat] /\ \A t \in 0 .. End : failures[t] = 0
  OBVIOUS
<1>2. now \in Times /\ now \in 0 .. End
  BY FuseAssumption DEF Times, End
<1>3. FuseType
  BY <1>1, <1>2 DEF FuseType
<1>4. HistoryInv
  BY <1>1, <1>2 DEF HistoryInv
<1>5. WindowInv /\ QuietInv
  BY <1>1, <1>2 DEF WindowInv, QuietInv
<1>6. \A t \in Times : FailuresWithin(t, t + Window) = 0
  BY <1>1 DEF FailuresWithin, Times
<1>7. FuseSparesTrickle /\ FuseCatchesDoubleBurst
  BY <1>6 DEF FuseSparesTrickle, FuseCatchesDoubleBurst
<1> QED BY <1>3, <1>4, <1>5, <1>7 DEF FuseInv

(* What a failure does to the history. *)
Recorded(n) ==
  /\ failures' = [t \in 0 .. End |-> failures[t] + IF t >= now THEN n ELSE 0]
  /\ now' = now

LEMMA RecordedHistory ==
  ASSUME FuseType, HistoryInv, NEW n \in Nat, Recorded(n)
  PROVE  /\ failures' \in [0 .. End -> Nat]
         /\ HistoryInv'
         /\ \A t \in 0 .. End :
              /\ t < now => failures'[t] = failures[t]
              /\ t >= now => failures'[t] = failures[now] + n
<1>0. /\ now \in Window + 1 .. End /\ now \in Nat
      /\ failures \in [0 .. End -> Nat] /\ End \in Nat /\ Window \in Nat
      /\ now' = now
  BY EndNat DEF FuseType, Times, Recorded
<1>1. \A t \in 0 .. End : failures'[t] = failures[t] + IF t >= now THEN n ELSE 0
  BY DEF Recorded
<1>2. failures' \in [0 .. End -> Nat]
  BY <1>0 DEF Recorded
<1>3. ASSUME NEW t \in 0 .. End
      PROVE  /\ t < now => failures'[t] = failures[t]
             /\ t >= now => failures'[t] = failures[now] + n
  <2>1. failures[t] \in Nat /\ (t >= now => failures[t] = failures[now])
    BY <1>0 DEF HistoryInv
  <2> QED BY <2>1, <1>0, <1>1
<1>4. ASSUME NEW s \in 0 .. End, NEW t \in 0 .. End, s <= t
      PROVE  failures'[s] <= failures'[t]
  <2>1. failures[s] <= failures[t] /\ failures[s] \in Nat /\ failures[t] \in Nat
    BY <1>0, <1>4 DEF HistoryInv
  <2> QED BY <2>1, <1>0, <1>1, <1>4
<1>5. \A t \in 0 .. End : t >= now => failures'[t] = failures'[now]
  BY <1>0, <1>3
<1>6. \A t \in 0 .. Window : failures'[t] = 0
  <2>1. \A t \in 0 .. Window : t \in 0 .. End /\ t < now
    BY <1>0
  <2> QED BY <2>1, <1>3 DEF HistoryInv
<1>7. HistoryInv'
  BY <1>0, <1>4, <1>5, <1>6 DEF HistoryInv
<1> QED BY <1>2, <1>3, <1>7

(* A burst, once in the history, stays there. *)
LEMMA RecordedBurst ==
  ASSUME FuseType, HistoryInv, FuseSparesTrickle, fuseTripped,
         NEW n \in Nat, Recorded(n)
  PROVE  \E t \in Times : FailuresWithin(t, t + Window)' >= Threshold
<1> USE EndNat DEF FuseType
<1>1. PICK t \in Times : FailuresWithin(t, t + Window) >= Threshold
  BY DEF FuseSparesTrickle
<1> DEFINE to == IF t + Window < End THEN t + Window ELSE End
<1>2. t \in Window + 1 .. End /\ now \in Window + 1 .. End
  BY DEF Times
<1>3. /\ to \in 0 .. End /\ t - 1 \in 0 .. End /\ t - 1 < to
      /\ failures[to] - failures[t - 1] >= Threshold
  BY <1>1, <1>2 DEF FailuresWithin
<1> HIDE DEF to
<1>4. failures[to] \in Nat /\ failures[t - 1] \in Nat /\ failures[now] \in Nat
  BY <1>2, <1>3
<1>5. t - 1 < now
  BY <1>2, <1>3, <1>4 DEF HistoryInv
<1>6. failures'[t - 1] = failures[t - 1]
  BY <1>3, <1>5, RecordedHistory
<1>7. failures'[to] >= failures[to]
  <2>1. to >= now => failures[to] = failures[now]
    BY <1>2, <1>3 DEF HistoryInv
  <2>2. /\ to < now => failures'[to] = failures[to]
        /\ to >= now => failures'[to] = failures[now] + n
    BY <1>3, RecordedHistory
  <2> QED BY <1>2, <1>3, <1>4, <2>1, <2>2
<1>8. failures'[to] \in Nat
  BY <1>3, RecordedHistory
<1>9. failures'[to] - failures'[t - 1] >= Threshold
  BY <1>3, <1>4, <1>6, <1>7, <1>8
<1>10. FailuresWithin(t, t + Window)' = failures'[to] - failures'[t - 1]
  BY DEF FailuresWithin, to
<1> QED BY <1>9, <1>10

LEMMA CountedFailures ==
  ASSUME FuseInv, NEW n \in Nat \ {0}, Recorded(n), CountTowardsFuse(n),
         sink' \in BOOLEAN
  PROVE  FuseType' /\ HistoryInv' /\ WindowInv'
<1> USE EndNat DEF FuseInv, FuseType
<1>1. now \in Window + 1 .. End /\ now' = now
  BY DEF Times, Recorded
<1>2. /\ failures' \in [0 .. End -> Nat]
      /\ HistoryInv'
      /\ \A t \in 0 .. End :
           /\ t < now => failures'[t] = failures[t]
           /\ t >= now => failures'[t] = failures[now] + n
  BY RecordedHistory
<1>3. FuseType'
  <2>1. windowCount' \in Nat /\ fuseTripped' \in BOOLEAN
    BY DEF CountTowardsFuse
  <2>2. windowStart' = 0 \/ windowStart' \in Window + 1 .. now'
    <3>1. windowStart' = now \/ windowStart' = windowStart
      BY DEF CountTowardsFuse
    <3>2. now \in Window + 1 .. now
      BY <1>1
    <3> QED BY <3>1, <3>2, <1>1
  <2>3. now' \in Times
    BY <1>1 DEF Times
  <2> QED BY <1>2, <2>1, <2>2, <2>3 DEF FuseType
<1>4. windowStart' # 0
  BY <1>1 DEF CountTowardsFuse
<1>5. \A t \in 0 .. End : t >= windowStart' + Window => failures'[t] = failures'[now]
  BY <1>1, <1>2 DEF CountTowardsFuse
<1>9. /\ Window \in Nat /\ now \in Nat /\ now \in 0 .. End /\ n \in Nat /\ now' = now
      /\ windowStart = 0 \/ windowStart \in 1 .. now
      /\ failures[now] \in Nat /\ failures'[now] = failures[now] + n
      /\ \A t \in 0 .. End : t < now => failures'[t] = failures[t]
  <2>1. now \in 0 .. End /\ Window \in Nat /\ now \in Nat
    BY <1>1
  <2> QED BY <1>1, <1>2, <2>1
<1>6. windowCount' = failures'[now] - failures'[windowStart' - 1]
  <2>1. CASE now - windowStart > Window
    <3>1. windowStart' = now /\ windowCount' = n
      BY <2>1 DEF CountTowardsFuse
    <3>2. failures'[now - 1] = failures[now - 1] /\ now - 1 \in 0 .. End
      BY <1>1, <1>2
    <3>3. failures[now - 1] = failures[now]
      <4>1. CASE windowStart = 0
        <5>1. failures[now] = 0 /\ failures[now - 1] <= failures[now]
          BY <4>1, <1>1, <3>2 DEF WindowInv, HistoryInv
        <5> QED BY <5>1, <3>2
      <4>2. CASE windowStart # 0
        <5>1. \A t \in 0 .. End : t >= windowStart + Window => failures[t] = failures[now]
          BY <4>2 DEF WindowInv
        <5>2. now - 1 >= windowStart + Window
          BY ONLY <1>9, <2>1
        <5> QED BY <3>2, <5>1, <5>2
      <4> QED BY <4>1, <4>2
    <3> QED BY <1>1, <1>2, <3>1, <3>2, <3>3
  <2>2. CASE ~(now - windowStart > Window)
    <3>1. windowStart' = windowStart /\ windowCount' = n + windowCount
      BY <2>2 DEF CountTowardsFuse
    <3>2. windowStart # 0
      BY <2>2, <1>1
    <3>3. windowCount = failures[now] - failures[windowStart - 1]
      BY <3>2 DEF WindowInv, Between
    <3>4. failures'[windowStart - 1] = failures[windowStart - 1]
          /\ windowStart - 1 \in 0 .. End
      <4>1. windowStart - 1 \in 0 .. End /\ windowStart - 1 < now
        BY ONLY <1>9, <3>2, EndNat
      <4> QED BY <1>2, <4>1
    <3>5. failures[windowStart - 1] \in Nat /\ windowStart - 1 \in 0 .. End
      BY <3>4
    <3>6. windowCount' = failures'[now] - failures[windowStart - 1]
      BY ONLY <1>9, <3>1, <3>3, <3>5
    <3> QED BY ONLY <3>1, <3>4, <3>6
  <2> QED BY <2>1, <2>2
<1>7. WindowInv'
  BY <1>1, <1>4, <1>5, <1>6 DEF WindowInv, Between
<1> QED BY <1>2, <1>3, <1>7

(* If the fuse holds after a failure, every stretch as long as a window is *)
(* made of at most two pieces with less than a threshold each: what is in  *)
(* the open window, and what came before it.                               *)
LEMMA CountedStaysQuiet ==
  ASSUME FuseInv, NEW n \in Nat \ {0}, Recorded(n), CountTowardsFuse(n),
         sink' \in BOOLEAN, ~fuseTripped'
  PROVE  /\ QuietInv'
         /\ \A t \in Times :
              FailuresWithin(t, t + Window)' < 2 * Threshold - 1
<1>1. /\ now \in Window + 1 .. End /\ now' = now
      /\ windowStart \in 0 .. now
      /\ failures \in [0 .. End -> Nat]
  BY EndNat DEF Times, Recorded, FuseInv, FuseType
<1>2. /\ failures' \in [0 .. End -> Nat]
      /\ HistoryInv'
      /\ \A t \in 0 .. End :
           /\ t < now => failures'[t] = failures[t]
           /\ t >= now => failures'[t] = failures[now] + n
  BY RecordedHistory DEF FuseInv
<1>3. FuseType' /\ HistoryInv' /\ WindowInv'
  BY CountedFailures
<1>4. /\ ~fuseTripped
      /\ windowCount' < Threshold
      /\ windowCount < Threshold
      /\ windowStart # 0 =>
           Between(windowStart - Window - 1, windowStart - 1) < Threshold
  <2>1. ~fuseTripped /\ ~(windowCount' >= Threshold) /\ windowCount' \in Nat
    BY <1>3 DEF CountTowardsFuse, FuseType
  <2> QED BY <2>1, EndNat DEF FuseInv, QuietInv
<1>5. windowStart' \in Window + 1 .. now
  <2>1. windowStart' # 0
    BY <1>1, EndNat DEF CountTowardsFuse
  <2> QED BY <2>1, <1>1, <1>3 DEF FuseType
<1>6. Between(windowStart - Window - 1, windowStart - 1)' < Threshold
  <2>1. CASE now - windowStart > Window
    <3>1. windowStart' = now
      BY <2>1 DEF CountTowardsFuse
    <3>2. now - Window - 1 \in 0 .. End /\ now - 1 \in 0 .. End
          /\ now - Window - 1 >= windowStart
      BY <1>1, <2>1, EndNat
    <3>3. failures[now - 1] - failures[now - Window - 1] < Threshold
      <4>1. failures[now - 1] <= failures[now]
        BY <1>1, <3>2, EndNat DEF FuseInv, HistoryInv
      <4>2. CASE windowStart = 0
        BY <4>1, <4>2, <1>1, <3>2, EndNat DEF FuseInv, WindowInv
      <4>3. CASE windowStart # 0
        <5>1. windowStart - 1 \in 0 .. End
              /\ failures[windowStart - 1] <= failures[now - Window - 1]
          BY <4>3, <1>1, <3>2, EndNat DEF FuseInv, HistoryInv
        <5>2. windowCount = failures[now] - failures[windowStart - 1]
          BY <4>3 DEF FuseInv, WindowInv, Between
        <5> QED BY <5>1, <5>2, <4>1, <1>1, <1>4, <3>2, EndNat
      <4> QED BY <4>2, <4>3
    <3>4. failures'[now - 1] = failures[now - 1]
          /\ failures'[now - Window - 1] = failures[now - Window - 1]
      BY <1>1, <1>2, <3>2, EndNat
    <3> QED BY <3>1, <3>3, <3>4 DEF Between
  <2>2. CASE ~(now - windowStart > Window)
    <3>1. windowStart' = windowStart /\ windowStart # 0
      BY <2>2, <1>1, EndNat DEF CountTowardsFuse
    <3>2. windowStart - Window - 1 \in 0 .. End /\ windowStart - 1 \in 0 .. End
          /\ windowStart - Window - 1 < now /\ windowStart - 1 < now
      BY <1>1, <1>5, <3>1, EndNat
    <3>3. failures'[windowStart - 1] = failures[windowStart - 1]
          /\ failures'[windowStart - Window - 1] = failures[windowStart - Window - 1]
      BY <1>2, <3>2
    <3> QED BY <1>4, <3>1, <3>3 DEF Between
  <2> QED BY <2>1, <2>2
<1>7. QuietInv'
  BY <1>4, <1>6 DEF QuietInv
<1>8. ASSUME NEW t \in Times
      PROVE  FailuresWithin(t, t + Window)' < 2 * Threshold - 1
  <2> DEFINE to == IF t + Window < End THEN t + Window ELSE End
  <2>1. t \in Window + 1 .. End /\ to \in 0 .. End /\ t - 1 \in 0 .. End
        /\ (to = t + Window \/ to = End) /\ to <= t + Window
    BY EndNat DEF Times
  <2>2. FailuresWithin(t, t + Window)' = failures'[to] - failures'[t - 1]
    BY DEF FailuresWithin
  <2>3. FailuresWithin(t, t + Window) = failures[to] - failures[t - 1]
    BY DEF FailuresWithin
  <2> HIDE DEF to
  <2>4. failures'[to] \in Nat /\ failures'[t - 1] \in Nat /\ failures'[now] \in Nat
    BY <1>1, <1>2, <2>1
  <2>5. failures'[to] <= failures'[now]
    <3>1. to <= now => failures'[to] <= failures'[now]
      BY <1>1, <1>2, <2>1, EndNat DEF HistoryInv
    <3>2. to >= now => failures'[to] = failures'[now]
      BY <1>1, <1>2, <2>1, EndNat DEF HistoryInv
    <3>3. to \in Nat /\ now \in Nat
      BY <1>1, <2>1, EndNat
    <3> QED BY <3>1, <3>2, <3>3, <2>4
  <2> DEFINE ws == windowStart'
  <2>6. ws \in Window + 1 .. now /\ ws - 1 \in 0 .. End
        /\ ws - Window - 1 \in 0 .. End
    <3>1. ws \in Window + 1 .. now
      BY <1>5
    <3> HIDE DEF ws
    <3> QED BY <3>1, <1>1, EndNat
  <2>7. failures'[now] - failures'[ws - 1] < Threshold
    <3>1. ws # 0
      BY <2>6, EndNat
    <3>2. windowCount' = failures'[now'] - failures'[ws - 1]
      BY <1>3, <3>1 DEF WindowInv, Between
    <3> QED BY <3>2, <1>1, <1>4
  <2>8. failures'[ws - 1] - failures'[ws - Window - 1] < Threshold
    BY <1>6 DEF Between
  <2> HIDE DEF ws
  <2>9. failures'[ws - 1] \in Nat /\ failures'[ws - Window - 1] \in Nat
    BY <1>2, <2>6
  <2>10. CASE t - 1 >= ws - 1
    <3>1. failures'[t - 1] >= failures'[ws - 1]
      BY <1>2, <2>1, <2>6, <2>10, EndNat DEF HistoryInv
    <3> QED BY <3>1, <2>2, <2>4, <2>5, <2>7, <2>9, EndNat
  <2>11. CASE t - 1 < ws - 1 /\ t - 1 >= ws - Window - 1
    <3>1. failures'[t - 1] >= failures'[ws - Window - 1]
      BY <1>2, <2>1, <2>6, <2>11, EndNat DEF HistoryInv
    <3> QED BY <3>1, <2>2, <2>4, <2>5, <2>7, <2>8, <2>9, EndNat
  <2>12. CASE t - 1 < ws - Window - 1
    <3>1. to < now /\ t - 1 < now
      BY <2>1, <2>6, <2>12, <1>1, EndNat
    <3>2. failures'[to] = failures[to] /\ failures'[t - 1] = failures[t - 1]
      BY <1>2, <2>1, <3>1
    <3>3. ~(failures[to] - failures[t - 1] >= 2 * Threshold - 1)
      BY <2>3, <1>4 DEF FuseInv, FuseCatchesDoubleBurst
    <3> QED BY <3>2, <3>3, <1>1, <2>1, <2>2, EndNat
  <2> QED BY <2>1, <2>6, <2>10, <2>11, <2>12, EndNat
<1> QED BY <1>7, <1>8

LEMMA FuseStep == FuseInv /\ [FuseNext]_fuseVars => FuseInv'
<1> SUFFICES ASSUME FuseInv, [FuseNext]_fuseVars PROVE FuseInv'
  OBVIOUS
<1>1. CASE Tick
  <2>1. /\ now \in Window + 1 .. End /\ now' = now + 1 /\ now' \in Times
        /\ UNCHANGED <<sink, windowStart, windowCount, fuseTripped, failures>>
    BY <1>1 DEF Tick, FuseInv, FuseType, Times
  <2>2. failures' = failures /\ now + 1 \in 0 .. End /\ now \in 0 .. End
    BY <2>1, EndNat DEF Times
  <2>3. failures[now + 1] = failures[now]
    BY <2>2 DEF FuseInv, HistoryInv
  <2>4. FuseType'
    <3>1. windowStart' = 0 \/ windowStart' \in Window + 1 .. now'
      BY <2>1, EndNat DEF FuseInv, FuseType
    <3> QED BY <2>1, <3>1 DEF FuseInv, FuseType
  <2>5. HistoryInv'
    <3>1. \A t \in 0 .. End : t >= now + 1 => t >= now
      BY <2>2
    <3> QED BY <2>1, <2>2, <2>3, <3>1 DEF FuseInv, HistoryInv
  <2>6. WindowInv' /\ QuietInv'
    BY <2>1, <2>3 DEF FuseInv, WindowInv, QuietInv, Between
  <2>7. FuseSparesTrickle' /\ FuseCatchesDoubleBurst'
    BY <2>1 DEF FuseInv, FuseSparesTrickle, FuseCatchesDoubleBurst, FailuresWithin
  <2> QED BY <2>4, <2>5, <2>6, <2>7 DEF FuseInv
<1>2. ASSUME NEW l \in Labels, NEW inSink \in 0 .. 1,
             ReportInternalFailure(l, inSink)
      PROVE  FuseInv'
  <2> DEFINE n == IF Reports(l) THEN 1 + inSink ELSE 1
  <2>1. n \in Nat \ {0}
    OBVIOUS
  <2>2. Recorded(n) /\ CountTowardsFuse(n) /\ sink' = sink
    BY <1>2 DEF ReportInternalFailure, Recorded
  <2> HIDE DEF n
  <2>3. FuseType' /\ HistoryInv' /\ WindowInv'
    BY <2>1, <2>2, CountedFailures DEF FuseInv, FuseType
  <2>4. CASE fuseTripped'
    <3>1. FuseSparesTrickle'
      <4>1. CASE fuseTripped
        BY <4>1, <2>1, <2>2, RecordedBurst DEF FuseInv, FuseSparesTrickle
      <4>2. CASE ~fuseTripped
        <5>1. windowCount' >= Threshold
          BY <2>2, <2>4, <4>2 DEF CountTowardsFuse
        <5>2. windowStart' # 0
          BY <5>1, <2>3, EndNat DEF WindowInv
        <5>3. windowStart' \in Times
          BY <5>2, <2>3, EndNat DEF FuseType, Times
        <5>4. FailuresWithin(windowStart, windowStart + Window)' >= Threshold
          <6> DEFINE ws == windowStart'
                     to == IF ws + Window < End THEN ws + Window ELSE End
          <6>1. windowCount' = failures'[now'] - failures'[ws - 1]
            BY <5>2, <2>3 DEF WindowInv, Between
          <6>2. to \in 0 .. End /\ ws \in Window + 1 .. now' /\ now' \in 0 .. End
            BY <5>2, <2>3, EndNat DEF FuseType, Times
          <6>3. failures'[to] = failures'[now']
            <7>1. CASE ws + Window < End
              <8>1. to = windowStart' + Window
                BY <7>1
              <8>2. \A t \in 0 .. End : t >= windowStart' + Window
                       => failures'[t] = failures'[now']
                BY <5>2, <2>3 DEF WindowInv
              <8> HIDE DEF to, ws
              <8>3. to >= windowStart' + Window
                BY <8>1, <6>2
              <8> QED BY <8>2, <8>3, <6>2
            <7>2. CASE ~(ws + Window < End)
              BY <7>2, <6>2, <2>3, EndNat DEF HistoryInv
            <7> QED BY <7>1, <7>2
          <6>4. FailuresWithin(windowStart, windowStart + Window)'
                  = failures'[to] - failures'[ws - 1]
            BY DEF FailuresWithin
          <6> HIDE DEF to, ws
          <6> QED BY <6>1, <6>3, <6>4, <5>1
        <5> QED BY <5>3, <5>4 DEF FuseSparesTrickle
      <4> QED BY <4>1, <4>2
    <3>2. FuseCatchesDoubleBurst'
      BY <2>4 DEF FuseCatchesDoubleBurst
    <3>3. QuietInv'
      BY <2>4 DEF QuietInv
    <3> QED BY <2>3, <3>1, <3>2, <3>3 DEF FuseInv
  <2>5. CASE ~fuseTripped'
    <3>1. /\ QuietInv'
          /\ \A t \in Times :
               FailuresWithin(t, t + Window)' < 2 * Threshold - 1
      BY <2>1, <2>2, <2>5, CountedStaysQuiet DEF FuseInv, FuseType
    <3>2. FuseSparesTrickle'
      BY <2>5 DEF FuseSparesTrickle
    <3>3. \A t \in Times : FailuresWithin(t, t + Window)' \in Int
      <4> TAKE t \in Times
      <4> DEFINE to == IF t + Window < End THEN t + Window ELSE End
      <4>1. to \in 0 .. End /\ t - 1 \in 0 .. End
        BY EndNat DEF Times
      <4>2. FailuresWithin(t, t + Window)' = failures'[to] - failures'[t - 1]
        BY DEF FailuresWithin
      <4> HIDE DEF to
      <4>3. failures'[to] \in Nat /\ failures'[t - 1] \in Nat
        BY <4>1, <2>3 DEF FuseType
      <4> QED BY <4>2, <4>3
    <3>4. FuseCatchesDoubleBurst'
      BY <3>1, <3>3, EndNat DEF FuseCatchesDoubleBurst
    <3> QED BY <2>3, <3>1, <3>2, <3>4 DEF FuseInv
  <2> QED BY <2>4, <2>5
<1>3. ASSUME NEW nextSink \in BOOLEAN, ResetFailOpenState(nextSink)
      PROVE  FuseInv'
  <2> USE EndNat
  <2>1. /\ now' = now /\ now \in Window + 1 .. End /\ now \in Times
        /\ sink' \in BOOLEAN /\ windowStart' = 0 /\ windowCount' = 0
        /\ fuseTripped' = FALSE
        /\ failures' = [t \in 0 .. End |-> 0]
    BY <1>3 DEF ResetFailOpenState, FuseInv, FuseType, Times
  <2>2. \A t \in 0 .. End : failures'[t] = 0
    BY <2>1
  <2>3. FuseType'
    BY <2>1 DEF FuseType
  <2>4. HistoryInv'
    BY <2>1, <2>2 DEF HistoryInv
  <2>5. WindowInv' /\ QuietInv'
    BY <2>1, <2>2 DEF WindowInv, QuietInv
  <2>6. \A t \in Times : FailuresWithin(t, t + Window)' = 0
    BY <2>2 DEF FailuresWithin, Times
  <2>7. FuseSparesTrickle' /\ FuseCatchesDoubleBurst'
    BY <2>1, <2>6 DEF FuseSparesTrickle, FuseCatchesDoubleBurst
  <2> QED BY <2>3, <2>4, <2>5, <2>7 DEF FuseInv
<1>4. CASE UNCHANGED fuseVars
  BY <1>4 DEF fuseVars, FuseInv, FuseType, HistoryInv, WindowInv, QuietInv,
     Between, FuseSparesTrickle, FuseCatchesDoubleBurst, FailuresWithin
<1> QED BY <1>1, <1>2, <1>3, <1>4 DEF FuseNext

LEMMA FuseAlways == FuseSpec => []FuseInv
BY FuseStarts, FuseStep, PTL DEF FuseSpec

(* For every threshold and window, the fuse trips only on a threshold of   *)
(* failures within one window: never on a trickle (safe-run.ts:30-39).     *)
THEOREM FuseTripsOnBursts == FuseSpec => []FuseSparesTrickle
BY FuseAlways, PTL DEF FuseInv

(* For every threshold and window, 2 * FUSE_THRESHOLD - 1 failures within  *)
(* one window always trip the fuse, wherever its own windows begin and end *)
(* (safe-run.ts:30-39).                                                    *)
THEOREM FuseTripsOnDoubleBursts == FuseSpec => []FuseCatchesDoubleBurst
BY FuseAlways, PTL DEF FuseInv
=============================================================================
