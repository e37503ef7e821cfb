------------------------------ MODULE SafeRun ------------------------------
(***************************************************************************)
(* What the SDK does with the failures it swallows                         *)
(* (src/core/safe-run.ts): every safeRun(), safeRunAsync() and             *)
(* runDetached() that catches an error calls reportInternalFailure(),      *)
(* which counts it towards the fuse and passes it to the customer's sink.  *)
(*                                                                         *)
(* Time is Date.now() in ticks.  The code's windowStart starts at 0, more  *)
(* than a window before any Date.now(): so does the clock here.            *)
(***************************************************************************)
EXTENDS Integers

CONSTANTS
  Threshold,       \* FUSE_THRESHOLD
  Window,          \* FUSE_WINDOW_MS
  ReportInterval,  \* REPORT_INTERVAL_MS
  Labels,          \* the labels failures are reported under
  MaxTime,         \* bound on the clock, counted from Window + 1
  MaxBurst         \* bound: the failures between two init()

ASSUME FuseAssumption ==
  /\ Threshold \in Nat \ {0} /\ Window \in Nat \ {0}
  /\ ReportInterval \in Nat \ {0}
  /\ MaxTime \in Nat /\ MaxBurst \in Nat

VARIABLES
  now,
  sink,          \* the customer gave init() a logger, or debug: true
  lastReportAt,  \* lastReportAt[l]: when l last reached the sink, or -1
  windowStart,
  windowCount,
  fuseTripped,
  failures       \* history: failures[t], how many there were up to time t

fuseVars == <<now, sink, lastReportAt, windowStart, windowCount, fuseTripped,
              failures>>

-----------------------------------------------------------------------------
End == Window + 1 + MaxTime
Times == Window + 1 .. End

FailuresWithin(from, to) ==
  failures[IF to < End THEN to ELSE End] - failures[from - 1]

(* Mutant of CountTowardsFuse: the count survives the end of its window. *)
CountWithoutReset(n) ==
  /\ windowStart' = IF now - windowStart > Window THEN now ELSE windowStart
  /\ windowCount' = windowCount + n
  /\ fuseTripped' = (fuseTripped \/ windowCount' >= Threshold)

(* Mutant of CountTowardsFuse: a failure that opens a window is not in it. *)
CountFromTheNext(n) ==
  LET stale == now - windowStart > Window IN
  /\ windowStart' = IF stale THEN now ELSE windowStart
  /\ windowCount' = IF stale THEN n - 1 ELSE windowCount + n
  /\ fuseTripped' = (fuseTripped \/ windowCount' >= Threshold)

(* countTowardsFuse(), n times at the same moment. *)
CountTowardsFuse(n) ==
  LET stale == now - windowStart > Window IN
  /\ windowStart' = IF stale THEN now ELSE windowStart
  /\ windowCount' = n + IF stale THEN 0 ELSE windowCount
  /\ fuseTripped' = (fuseTripped \/ windowCount' >= Threshold)

(* The sink hears of a label at most once per interval.  It is customer    *)
(* code: what fails inside it is counted, and does not reach it again.     *)
Reports(l) ==
  sink /\ (lastReportAt[l] = -1 \/ now - lastReportAt[l] >= ReportInterval)

ReportInternalFailure(l, inSink) ==
  LET n == IF Reports(l) THEN 1 + inSink ELSE 1 IN
  /\ failures[now] + n <= MaxBurst
  /\ CountTowardsFuse(n)
  /\ lastReportAt' = IF Reports(l) THEN [lastReportAt EXCEPT ![l] = now]
                     ELSE lastReportAt
  /\ failures' = [t \in 0 .. End |->
                     failures[t] + IF t >= now THEN n ELSE 0]
  /\ UNCHANGED <<now, sink>>

(* init(): resetFailOpenState(), then, with a valid configuration, its     *)
(* sink.                                                                   *)
ResetFailOpenState(nextSink) ==
  /\ sink' = nextSink
  /\ lastReportAt' = [l \in Labels |-> -1]
  /\ windowStart' = 0 /\ windowCount' = 0
  /\ fuseTripped' = FALSE
  /\ failures' = [t \in 0 .. End |-> 0]
  /\ UNCHANGED now

Tick ==
  /\ now + 1 \in Times
  /\ now' = now + 1
  /\ UNCHANGED <<sink, lastReportAt, windowStart, windowCount, fuseTripped,
                 failures>>

FuseInit ==
  /\ now = Window + 1
  /\ sink = FALSE
  /\ lastReportAt = [l \in Labels |-> -1]
  /\ windowStart = 0 /\ windowCount = 0
  /\ fuseTripped = FALSE
  /\ failures = [t \in 0 .. End |-> 0]

FuseNext ==
  \/ Tick
  \/ \E l \in Labels, inSink \in 0 .. 1 : ReportInternalFailure(l, inSink)
  \/ \E nextSink \in BOOLEAN : ResetFailOpenState(nextSink)

FuseSpec == FuseInit /\ [][FuseNext]_fuseVars

-----------------------------------------------------------------------------
(* The fuse trips only on a burst: a threshold of failures within one      *)
(* window, never a trickle that adds up (safe-run.ts:30-39).               *)
FuseSparesTrickle ==
  fuseTripped =>
    \E t \in Times : FailuresWithin(t, t + Window) >= Threshold

(* A burst trips the fuse (CHANGELOG.md:161), for certain from twice the   *)
(* threshold less one on: the code's windows do not slide, and a smaller   *)
(* burst may be split between two of them.                                 *)
FuseCatchesDoubleBurst ==
  \A t \in Times :
    FailuresWithin(t, t + Window) >= 2 * Threshold - 1 => fuseTripped
=============================================================================
