--------------------------- MODULE ErrorTracking ---------------------------
(* src/core/error-tracking.ts: an exception recorded in a span is a candidate of  *)
(* its local root (an HTTP request or a withTrace()); when the root ends, one     *)
(* event leaves, for the candidate nearest to the root.                           *)
(* The module state of the source is one record, t, and each exported function    *)
(* an operator from record to record, so that a handler that makes several calls  *)
(* composes them in the order of the source:                                      *)
(*   t.client     an init() is in force; without one the default config applies   *)
(*   t.captured   errors already sent (capturedErrors)                            *)
(*   t.tracked    errors that a root kept as candidates (trackedErrors)           *)
(*   t.pending    the Map pending, oldest entry first                             *)
(*   t.closed     the Map closed, oldest root first                               *)
(*   t.evicted    history: roots evicted from pending                             *)
(*   t.ambient    the setUser() scope of the flow that runs, set by the caller    *)
(*   t.events     every event handed to client.enqueue(), in order: what it is    *)
(*                about, which way it left, and the scope it left in              *)
(* A candidate is [error, root, span, depth, scope]; scope is the context taken   *)
(* when the exception happened.                                                   *)
EXTENDS Integers, Sequences, FiniteSets, SequencesExt

CONSTANTS None,             \* absence of a span, an error or a root
          MaxPendingRoots,  \* MAX_PENDING_ROOTS, 1000 in the source
          MaxClosedRoots,   \* MAX_CLOSED_ROOTS, 1000 in the source
          Enabled           \* the errorTracking option of init()

ASSUME CapsAssumption == MaxPendingRoots \in Nat \ {0} /\ MaxClosedRoots \in Nat \ {0}
ASSUME EnabledAssumption == Enabled \in BOOLEAN

InitTracker == [client |-> TRUE, captured |-> {}, tracked |-> {},
                pending |-> <<>>, closed |-> <<>>, ambient |-> None, events |-> <<>>, evicted |-> {}]

\* getErrorTrackingConfig().enabled: the default, on, when no init() is in force.
Tracking(t) == t.client => Enabled

PendingRoots(t) == {t.pending[i].root : i \in DOMAIN t.pending}
ClosedRoots(t) == ToSet(t.closed)
Position(t, root) == CHOOSE i \in DOMAIN t.pending : t.pending[i].root = root
EntryOf(t, root) == t.pending[Position(t, root)]

\* The error is marked before it is enqueued, and only if there is a client.
Enqueue(t, event) == [t EXCEPT !.events = Append(@, event)]
EnqueueErrorUnmarked(t, candidate, via) ==
  IF t.client THEN Enqueue(t, [candidate |-> candidate, via |-> via, ambient |-> t.ambient])
              ELSE t
EnqueueError(t, candidate, via) ==
  IF t.client THEN Enqueue([t EXCEPT !.captured = @ \cup {candidate.error}],
                           [candidate |-> candidate, via |-> via, ambient |-> t.ambient])
              ELSE t

CaptureErrorOnce(t, candidate) ==
  IF candidate.error \in t.captured THEN t ELSE EnqueueError(t, candidate, "direct")

\* What runQuery() and measure() do with an exception of their own.
CaptureUntrackedError(t, candidate) ==
  IF candidate.error \in t.tracked THEN t ELSE CaptureErrorOnce(t, candidate)

Emit(t, candidate, via) ==
  IF ~Tracking(t) \/ candidate.error \in t.captured THEN t
                                                    ELSE EnqueueError(t, candidate, via)

MarkClosedForever(t, root) == [t EXCEPT !.closed = Append(RemoveFirst(@, root), root)]
MarkClosed(t, root) ==
  LET marked == Append(RemoveFirst(t.closed, root), root)
  IN [t EXCEPT !.closed = IF Len(marked) > MaxClosedRoots THEN Tail(marked) ELSE marked]

-----------------------------------------------------------------------------
\* flushStale(): oldest first, while the Map is full or the entry too old. An
\* entry of 10 minutes is `old`; the Map is in order of creation.
Stale(pending) ==
  {i \in DOMAIN pending : \A j \in 1..i : \/ pending[j].old
                                          \/ Len(pending) - j + 1 >= MaxPendingRoots}

Evict(t, entry) ==
  LET closed == MarkClosed([t EXCEPT !.pending = Tail(@), !.evicted = @ \cup {entry.root}], entry.root)
  IN IF entry.best = None THEN closed ELSE Emit(closed, entry.best, "stale")

FlushStale(t) ==
  LET stale == Cardinality(Stale(t.pending))
      after[n \in 0..stale] == IF n = 0 THEN t ELSE Evict(after[n - 1], t.pending[n])
  IN after[stale]

PendingRoot(t, root) ==
  IF root \in PendingRoots(t) THEN t
  ELSE [FlushStale(t) EXCEPT !.pending =
          Append(@, [root |-> root, old |-> FALSE, best |-> None, boundary |-> None])]

WithEntry(t, root, Change(_)) ==
  [t EXCEPT !.pending = [i \in DOMAIN @ |-> IF @[i].root = root THEN Change(@[i]) ELSE @[i]]]

\* recordSpanError(): `key` is the local root of the running context, None when
\* there is none or it belongs to another trace than the span.
BetterFirst(entry, candidate) == entry.best = None
Better(entry, candidate) ==
  entry.best = None \/ candidate.depth < entry.best.depth

RecordSpanErrorBlindly(t, key, candidate) ==
  IF ~Tracking(t) \/ candidate.error \in t.captured THEN t
  ELSE IF key = None THEN Emit(t, candidate, "late")
  ELSE WithEntry([PendingRoot(t, key) EXCEPT !.tracked = @ \cup {candidate.error}], key,
         LAMBDA e : IF Better(e, candidate) THEN [e EXCEPT !.best = candidate] ELSE e)
RecordSpanError(t, key, candidate) ==
  IF ~Tracking(t) \/ candidate.error \in t.captured THEN t
  ELSE IF key = None \/ key \in ClosedRoots(t) THEN Emit(t, candidate, "late")
  ELSE WithEntry([PendingRoot(t, key) EXCEPT !.tracked = @ \cup {candidate.error}], key,
         LAMBDA e : IF Better(e, candidate) THEN [e EXCEPT !.best = candidate] ELSE e)

\* recordBoundaryError(): kept although tracking may be off, the first one stays;
\* whether the root is already closed is not looked at.
RecordBoundaryError(t, root, candidate) ==
  IF root = None THEN t
  ELSE WithEntry(PendingRoot(t, root), root,
         LAMBDA e : IF e.boundary = None THEN [e EXCEPT !.boundary = candidate] ELSE e)

\* The boundary exception goes with a response of a server error status.
BoundaryErrorOfAny(t, root, serverError) ==
  IF root \in PendingRoots(t) THEN EntryOf(t, root).boundary ELSE None
BoundaryError(t, root, serverError) ==
  IF serverError /\ root \in PendingRoots(t) THEN EntryOf(t, root).boundary ELSE None

Winner(t, root, serverError) ==
  IF BoundaryError(t, root, serverError) # None THEN BoundaryError(t, root, serverError)
                                               ELSE EntryOf(t, root).best

CompleteLocalRoot(t, root, serverError) ==
  IF root \notin PendingRoots(t) THEN MarkClosed(t, root)
  ELSE LET done == MarkClosed([t EXCEPT !.pending = RemoveAt(@, Position(t, root))], root)
           winner == Winner(t, root, serverError)
       IN IF winner = None THEN done ELSE Emit(done, winner, "complete")

\* Ten minutes pass for the n oldest entries.
Age(t, n) == [t EXCEPT !.pending = [i \in DOMAIN @ |-> IF i <= n THEN [@[i] EXCEPT !.old = TRUE]
                                                               ELSE @[i]]]
=============================================================================
