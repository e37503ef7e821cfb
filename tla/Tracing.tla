------------------------------ MODULE Tracing ------------------------------
(* src/core/tracing.ts and src/core/trace-span-context.ts: the spans of local     *)
(* traces, the stack of active spans each asynchronous flow sees, and, through    *)
(* ErrorTracking, the one event a failed trace sends.                             *)
(* A task is a flow of asynchronous calls. A branch of Promise.all(), or a call   *)
(* nobody awaits, is a task that begins inside the store of another (Fork): the   *)
(* AsyncLocalStorage of the source gives it the same mutable object, whose stack  *)
(* startSpan() pushes on, while withSpan() runs its callback on a copy.           *)
(* Ids are numbers in order of creation; measure() and runQuery() are withSpan()  *)
(* or a leaf span followed by a capture of their own (`own`).                     *)
EXTENDS ErrorTracking

CONSTANTS Tasks, Errors,
          MaxActs       \* bound: spans begun, plus upsets: stops of the client, passings
                        \* of ten minutes and direct captures

\* What a span hands to the tracker; None, undefined in the source, is none of it.
Candidates == [error : Errors, root : Nat \cup {None}, span : Nat \cup {None}, depth : Nat,
               scope : {None}]
ASSUME TracingAssumption ==
  MaxActs \in Nat /\ None \notin Errors /\ None \notin Nat /\ None \notin Candidates

VARIABLES t,        \* the state of src/core/error-tracking.ts
          spans,    \* [kind, parent, root, store, end, err, kept] of each span
          stores,   \* [root, stack] of each AsyncLocalStorage object
          frames,   \* [span, store] of the calls each task is in, innermost last
          away,     \* history: some moment had no client
          upsets    \* how many of those happened

vars == <<t, spans, stores, frames, away, upsets>>

Kinds == {"root", "scope", "manual", "leaf"}
Ends == {"open", "home", "abroad", "crossed"}
Opened(kind, parent, root, store) ==
  [kind |-> kind, parent |-> parent, root |-> root, store |-> store,
   end |-> "open", err |-> None, kept |-> None]

Context(k) == IF frames[k] = <<>> THEN None ELSE Last(frames[k]).store
RootOf(store) == IF store = None THEN None ELSE stores[store].root
StackOf(store) == IF store = None THEN <<>> ELSE stores[store].stack
New == Len(spans) + 1
Room == Len(spans) + upsets < MaxActs

\* getTraceSpanState().spanStack.indexOf(spanId), or one below the stack.
SpanDepth(s, store) ==
  LET stack == StackOf(store)
  IN IF s \in ToSet(stack) THEN SelectInSeq(stack, LAMBDA x : x = s) - 1 ELSE Len(stack)

-----------------------------------------------------------------------------
\* The error of a span that ends in `store`, attributed to the trace `trace`.
Candidate(s, store, err) ==
  [error |-> err, root |-> spans[s].root, span |-> s, depth |-> SpanDepth(s, store),
   scope |-> None]
Key(store, trace) == IF RootOf(store) = trace THEN trace ELSE None

\* The root that keeps the error as a candidate.
KeptBy(key, err) == IF /\ err # None /\ t.client /\ Tracking(t) /\ err \notin t.captured
                       /\ key \notin ClosedRoots(t)
                    THEN key ELSE None

\* buildRow(): no client or no trace, no row, and the error is not looked at.
Recorded(s, store, trace, err) ==
  IF err = None \/ trace = None \/ ~t.client THEN t
  ELSE RecordSpanError(t, Key(store, trace), Candidate(s, store, err))

\* measure() and runQuery() send an error that no root answers for.
ThenOwn(tracker, s, store, err, own) ==
  IF own /\ err # None THEN CaptureUntrackedError(tracker, Candidate(s, store, err))
                       ELSE tracker

Ended(s, how, err, key) ==
  spans' = [spans EXCEPT ![s].end = how, ![s].err = err, ![s].kept = KeptBy(key, err)]

\* In another context than it began in, or with other spans above it.
HowEnded(s, store, top) == IF store # spans[s].store THEN "abroad"
                           ELSE IF Last(StackOf(store)) = top THEN "home" ELSE "crossed"

-----------------------------------------------------------------------------
\* withTrace() outside a trace; inside one it is withSpan().
WithTrace(k) ==
  /\ Context(k) = None /\ Room
  /\ spans' = Append(spans, Opened("root", None, New, Len(stores) + 1))
  /\ stores' = Append(stores, [root |-> New, stack |-> <<New>>])
  /\ frames' = [frames EXCEPT ![k] = Append(@, [span |-> New, store |-> Len(stores) + 1])]
  /\ UNCHANGED <<t, away, upsets>>

\* withSpan(): the callback runs on a copy of the stack.
WithSpan(k) ==
  /\ Context(k) # None /\ Room
  /\ LET outer == Context(k)
     IN /\ spans' = Append(spans, Opened("scope", Last(StackOf(outer)), RootOf(outer),
                                         Len(stores) + 1))
        /\ stores' = Append(stores, [root |-> RootOf(outer), stack |-> Append(StackOf(outer), New)])
  /\ frames' = [frames EXCEPT ![k] = Append(@, [span |-> New, store |-> Len(stores) + 1])]
  /\ UNCHANGED <<t, away, upsets>>

\* The callback of the innermost withSpan() returns, or throws err.
ScopeEnds(k, err, own) ==
  /\ frames[k] # <<>> /\ Last(frames[k]).span # None
  /\ LET s == Last(frames[k]).span  store == Context(k)
     IN /\ spans[s].kind = "scope"
        /\ t' = ThenOwn(Recorded(s, store, RootOf(store), err), s, store, err, own)
        /\ Ended(s, "home", err, RootOf(store))
  /\ frames' = [frames EXCEPT ![k] = Front(@)]
  /\ UNCHANGED <<stores, away, upsets>>

\* The callback of withTrace() returns or throws: finishRootSpan(), then
\* completeLocalRoot() in either case.
RootEnds(k, err) ==
  /\ frames[k] # <<>> /\ Last(frames[k]).span # None
  /\ LET s == Last(frames[k]).span  store == Context(k)
     IN /\ spans[s].kind = "root"
        /\ t' = CompleteLocalRoot(Recorded(s, store, s, err), s, FALSE)
        /\ Ended(s, "home", err, s)
  /\ frames' = [frames EXCEPT ![k] = Front(@)]
  /\ UNCHANGED <<stores, away, upsets>>

\* startSpan(): pushed on the stack of the running context itself.
StartSpan(k) ==
  /\ Context(k) # None /\ Room
  /\ LET store == Context(k)
     IN /\ spans' = Append(spans, Opened("manual", Last(StackOf(store)), RootOf(store), store))
        /\ stores' = [stores EXCEPT ![store].stack = Append(@, New)]
  /\ UNCHANGED <<t, frames, away, upsets>>

\* popActiveSpan(spanId): the last occurrence, never the root of the stack.
PopTop(stack, s) == IF Len(stack) > 1 THEN Front(stack) ELSE stack
PopActiveSpan(stack, s) ==
  IF s \in ToSet(stack) THEN RemoveAt(stack, SelectLastInSeq(stack, LAMBDA x : x = s)) ELSE stack

\* The handle of startSpan() is ended by any task, wherever it runs: the row goes
\* to the trace of that context and the pop to its stack.
EndManual(k, s, err) ==
  /\ spans[s].kind = "manual" /\ spans[s].end = "open"
  /\ LET store == Context(k)  trace == RootOf(store)
     IN /\ t' = Recorded(s, store, trace, err)
        /\ Ended(s, HowEnded(s, store, s), err, trace)
        /\ stores' = IF store = None THEN stores
                     ELSE [stores EXCEPT ![store].stack = PopActiveSpan(@, s)]
  /\ UNCHANGED <<frames, away, upsets>>

\* beginOutboundSpan(): a leaf never enters a stack.
BeginLeaf(k) ==
  /\ Context(k) # None /\ Room
  /\ spans' = Append(spans, Opened("leaf", Last(StackOf(Context(k))), RootOf(Context(k)), Context(k)))
  /\ UNCHANGED <<t, stores, frames, away, upsets>>

\* endOutboundSpan(), by the callback of a response or a query in any context; an
\* error that only stands for a status is no exception: err = None.
EndLeaf(k, s, err, own) ==
  /\ spans[s].kind = "leaf" /\ spans[s].end = "open"
  /\ LET store == Context(k)  trace == spans[s].root
     IN /\ t' = ThenOwn(Recorded(s, store, trace, err), s, store, err, own)
        /\ Ended(s, HowEnded(s, store, spans[s].parent), err, Key(store, trace))
  /\ UNCHANGED <<stores, frames, away, upsets>>

\* captureException() by the application.
CaptureException(k, err) ==
  /\ Room /\ upsets' = upsets + 1
  /\ t' = CaptureErrorOnce(t, [error |-> err, root |-> None, span |-> None, depth |-> 0,
                               scope |-> None])
  /\ UNCHANGED <<spans, stores, frames, away>>

\* A branch of Promise.all() or a call nobody awaits, and its end.
Fork(k, branch) ==
  /\ Context(k) # None /\ frames[branch] = <<>>
  /\ frames' = [frames EXCEPT ![branch] = <<[span |-> None, store |-> Context(k)]>>]
  /\ UNCHANGED <<t, spans, stores, away, upsets>>
BranchEnds(k) ==
  /\ Len(frames[k]) = 1 /\ frames[k][1].span = None
  /\ frames' = [frames EXCEPT ![k] = <<>>]
  /\ UNCHANGED <<t, spans, stores, away, upsets>>

\* shutdown() leaves no client; the state of this module survives it.
ClientStops ==
  /\ Room /\ upsets' = upsets + 1
  /\ t.client /\ t' = [t EXCEPT !.client = FALSE] /\ away' = TRUE
  /\ UNCHANGED <<spans, stores, frames>>
TenMinutesPass(n) ==
  /\ Room /\ upsets' = upsets + 1
  /\ n <= Len(t.pending) /\ t' = Age(t, n)
  /\ UNCHANGED <<spans, stores, frames, away>>

-----------------------------------------------------------------------------
Init == /\ t = InitTracker /\ spans = <<>> /\ stores = <<>> /\ away = FALSE /\ upsets = 0
        /\ frames = [k \in Tasks |-> <<>>]

Outcome == Errors \cup {None}

Next ==
  \/ \E k \in Tasks : \/ WithTrace(k) \/ WithSpan(k) \/ StartSpan(k) \/ BeginLeaf(k)
                      \/ BranchEnds(k)
                      \/ \E b \in Tasks \ {k} : Fork(k, b)
                      \/ \E e \in Outcome : RootEnds(k, e)
                      \/ \E e \in Outcome, own \in BOOLEAN : ScopeEnds(k, e, own)
                      \/ \E s \in DOMAIN spans, e \in Outcome : EndManual(k, s, e)
                      \/ \E s \in DOMAIN spans, e \in Outcome, own \in BOOLEAN : EndLeaf(k, s, e, own)
                      \/ \E e \in Errors : CaptureException(k, e)
  \/ ClientStops
  \/ \E n \in 1..MaxPendingRoots : TenMinutesPass(n)

Spec == Init /\ [][Next]_vars

-----------------------------------------------------------------------------
\* Everything has its type, the Maps respect their caps and hold a root once.
TypeOK ==
  /\ \A i \in DOMAIN spans : /\ spans[i].kind \in Kinds /\ spans[i].end \in Ends
                             /\ spans[i].parent \in (1..i - 1) \cup {None}
                             /\ spans[i].root \in 1..i
                             /\ spans[i].store \in 1..Len(stores) + 1
  /\ \A i \in DOMAIN stores : stores[i].stack # <<>> /\ stores[i].stack[1] = stores[i].root
  /\ Len(t.pending) <= MaxPendingRoots /\ Cardinality(PendingRoots(t)) = Len(t.pending)
  /\ Len(t.closed) <= MaxClosedRoots /\ Cardinality(ClosedRoots(t)) = Len(t.closed)

\* "Um objeto de erro vira no maximo UM evento, venha de onde vier": however
\* many spans, roots, late callbacks and direct captures see one error object.
OneEventPerError ==
  \A i, j \in DOMAIN t.events : i # j => t.events[i].candidate.error # t.events[j].candidate.error

Ancestors(s) ==
  LET up[x \in DOMAIN spans] == IF spans[x].parent = None THEN {}
                               ELSE {spans[x].parent} \cup up[spans[x].parent]
  IN up[s]

\* "Only the top-most error is kept": when a root completes, the event is that of
\* a span no ancestor of which failed too, if every span of the trace ended
\* where it began and in nested order: the depth is that of the stack at the end,
\* so a call in flight whose parent has ended counts as nearer to the root. A root
\* that was evicted sent its topmost error then and, once `closed` forgot it, keeps
\* what comes later as if nothing had failed before.
TopmostErrorWins ==
  [][\A i \in DOMAIN t'.events \ DOMAIN t.events :
       LET winner == t'.events[i].candidate
       IN (/\ t'.events[i].via = "complete" /\ winner.root \notin t.evicted
           /\ \A s \in DOMAIN spans : spans'[s].root = winner.root => spans'[s].end \in {"open", "home"})
          => \A a \in Ancestors(winner.span) : spans'[a].kept = None \/ spans'[a].err \in t.captured]_vars

\* A trace one of whose spans failed reports: one of its errors (a manual span of
\* another trace ended inside it may be one of them) was sent, at once or by the
\* end or the eviction of the root, or waits for the root to end. It waits for
\* ever if the root ended so long ago that it had left `closed`.
FailedTraceReports ==
  \A s \in DOMAIN spans :
    LET root == spans[s].root
    IN (~away /\ Enabled /\ spans[s].end \in {"home", "crossed"} /\ spans[s].err # None)
       => \/ \E x \in DOMAIN spans : root \in {spans[x].root, spans[x].kept}
                                    /\ spans[x].err \in t.captured
          \/ root \in PendingRoots(t) /\ (spans[root].end = "open" \/ root \notin ClosedRoots(t))

\* A span begins under a span that is still open, unless its parent is a manual
\* span that was ended in another context, where the stack it is on cannot be
\* popped, or a scope that ended while a branch begun inside it goes on.
ParentEncloses ==
  [][\A s \in DOMAIN spans' \ DOMAIN spans :
       LET p == spans'[s].parent
       IN p # None => \/ spans[p].end \in {"open", "abroad"}
                      \/ spans[p].kind \in {"root", "scope"}
                         /\ \E k \in Tasks : Context(k) = spans[p].store]_vars
=============================================================================
