# A TLA+ verification of cc-stacktracer

cc-stacktracer is a Node.js SDK for errors, logs and traces.  It lives inside the
process it observes, so what matters is less what it computes than how it behaves
among the callbacks of its host: it must not lose what it accepted, must not send
it twice, must not grow without bound, must end when it is told to, and must never
bring the host down.  These modules model the part of the SDK where that is
decided, check it with TLC on small instances, and prove the central invariants
with TLAPS for every value of the constants.

Paths below are relative to the repository.

## 1. The system

| Component | State | Operations | Hard because |
|---|---|---|---|
| Delivery queue, batch mode (`core/transport/event-queue.ts`, `span-queue.ts`, the same machine twice) | array, active flush, two request flags, backoff, attempts of the head chunk, two timers | `enqueue`, `flushPending`, interval, retry timer, `deliverQueued`, `stop` | requests arrive between the awaits of a running flush; deliveries fail half way; the array overflows under a flush |
| Delivery queue, immediate mode (same files) | counter of sends, set of promises | `enqueue`, `flushPending`, completion of a send | completion and deletion are separate microtasks |
| Retry delay and error classes (`queue-retry-backoff.ts`, `ingest-transport-error.ts`) | none | delay of the n-th retry, permanent or retryable | arithmetic at its bounds |
| Client lifecycle (`index.ts`, `core/client-ref.ts`, `core/stacktrace-client.ts`, `core/global-handlers.ts`) | current client, timers of each client, handlers, pending calls | `init`, `flush`, `shutdown`, crash | they overlap; deadlines race with the work |
| Fail-open guard (`core/safe-run.ts`, `core/kill-switch.ts`) | sink, count and start of a window, fuse | report a failure, reset | windows, reentrance of the sink |
| Capture policy polling (`observability/capture/CapturePolicyCache.ts`) | timer, in-flight flag, failures, policy | `start`, `stop`, fetch and its answers | stop and start during a fetch; nothing else restarts a poller that died |
| Capture policy evaluation (`CaptureGate.ts`, `decide-stacktrace-capture.ts`, `shared/schema/capture-policy-engine.ts`) | compiled rules | decide, sample by key | rules, precedence, consistent sampling of a trace |
| Error tracking (`core/error-tracking.ts`) | pending and closed roots, errors sent and tracked | record an error, record the one of the edge, complete a root, evict | one error object is seen by many spans; roots end, are evicted and are forgotten while their spans may still fail |
| Tracing (`core/tracing.ts`, `trace-span-context.ts`) | stack of active spans per asynchronous context | `withTrace`, `withSpan`, `startSpan`, outbound leaf spans | branches share a stack, spans end out of order and in other contexts |
| Request context, scope metadata, business context | AsyncLocalStorage stores | enter, set, read | isolation of concurrent requests; callbacks of a socket run outside of any |
| HTTP integrations (`integrations/*.ts`, `generic-http`) | per-request flags | request, response, error, close | several callbacks may end one request, in any order |
| Outbound HTTP (`integrations/outbound-http`) | patch state, per-request flags | patch, restore, request callbacks | other libraries patch the same functions; several callbacks may end one call |
| Database (`db/lucid.ts`, `db/prisma.ts`) | map of pending queries | start, end, evict | queries that never complete |
| Plugins (`core/plugins`) | registry | register, `auto` | initialisation awaits, registration does not wait |
| Measurement (`performance/measure.ts`) | none of its own | wrap a call | the wrapped call has spans and captures of its own |
| Payloads (`capture/`, `shared/normalizers`, `shared/schema`, `utils/`) | none | build, merge contexts, normalise, redact | many spellings of one field, precedence, data that vanishes silently |
| Command line (`cli/`) | none | sequential checks | pure I/O |

How they interact: integrations, tracing and error tracking hand events and spans
to the current client (`enqueue`, `enqueueSpan`), which asks the capture gate and
puts them in one of its two queues.  The queues call `deliver(batch)` and get a
promise back.  `flush()` and `shutdown()` await the two queues one after the other
under a deadline.  The policy cache feeds the gate.  Every entry point runs inside
`safeRun`, whose failures count towards the fuse.

What makes each modelled component correct:

* queue: items leave it only when settled, in order, after at most
  `maxDeliveryAttempts` tries, within its cap; a flush drains; every item
  eventually leaves.
* immediate mode: the cap holds and every place is given back; a flush waits for
  exactly the sends before it.
* lifecycle: an answered flush has drained each queue whose own drain was not cut
  short, whatever became of the other; a replaced client is silent; every call and every crash ends.
* fuse: trips on bursts and only on bursts.
* polling: one request at a time, never dead while started, silent when stopped.
* error tracking and tracing: one event per error object, and one at least for
  every trace that failed, about the failure nearest to the root; a span begins
  under a span that is open.
* requests: one root span each, however it ends, that agrees with its event; no
  user but its own.
* instrumentation: each plugin initialised once, each query and call one span, the
  application and other libraries undisturbed.
* policy and sampling: what one item of a trace is sampled and kept by keeps every
  other that is sampled at no lower a rate; the simulator tells what the gate does.
* wire: an event has one id in all its attempts, says in which span it was made,
  loses no key in silence, and no other event is lost because it cannot be
  normalised.

The file `PROJECT.json` lists the hazards of the code line by line with the
properties that cover each, those without one included.

## 2. Modules

JavaScript runs one job at a time.  An action is therefore the code between two
awaits (or one timer or event callback), and an interleaving of actions is an order
of jobs.  A step that awaits leaves a phase behind, and the guard of the action
that resumes it is that phase.

| Module | Role |
|---|---|
| `DeliveryQueue` | the batch queue |
| `ReliableQueue` | what a queue promises; `DeliveryQueue` implements it below its capacity |
| `ImmediateQueue` | the immediate mode |
| `ClientLifecycle` | `init`, `flush`, `shutdown`, deadlines, crash handlers |
| `SafeRun` | the fuse and the failure sink |
| `CapturePolicyCache` | the polling of the policy |
| `ErrorTracking` | the functions of `error-tracking.ts` on a record of its module state |
| `Tracing` | spans of every kind over tasks and contexts; composes `ErrorTracking` |
| `HttpRequests` | the callbacks of the HTTP integrations and the scopes; composes `ErrorTracking` |
| `Plugins` | the plugin registry, `auto()`, and the listeners of Lucid |
| `OutboundHttp` | the patches of `fetch` and `node:http`, and the callbacks of a call |
| `CapturePolicy` | parsing and evaluating a policy: pure operators |
| `EventNormalisation` | merging the contexts of an event and normalising it: pure operators |
| `ClientPipeline` | gate, context, queue, post and attempt; composes the two before it |
| `MC*` | what TLC runs; constants are in the `.cfg` files |
| `DeliveryQueueProofs` | proofs about `DeliveryQueue` and that it implements `ReliableQueue` |
| `ClientSendingProofs` | proofs about `ImmediateQueue` and `ClientPipeline` |
| `RuntimeProofs` | proofs about `CapturePolicyCache` and `SafeRun` |
| `ClientLifecycleProofs` | proofs about `ClientLifecycle` |
| `InstrumentationProofs` | proofs about `Plugins` and `OutboundHttp` |
| `ErrorTrackingProofs` | lemmas about the operators of `ErrorTracking` |
| `TracingProofs`, `HttpRequestsProofs` | proofs about those modules, which cite the former |

**DeliveryQueue.**  Items are numbered as they are accepted.  `push` appends, `shift`
and `splice(0, n)` remove at the front, so the array is `removed + 1 .. accepted`.
`splice` counts from the current front, and so does `EndPass`, which is how an
overflow during a pass bites.  `phase` says where the flush is: `idle`
(`activeFlush` null), `delivering` (awaiting `deliver(chunk)`), `passDone`
(`deliverQueued` returned, the loop not resumed), `resolved` (the loop returned, its
`finally` not run).  `StartPass`, `Advance`, `EndPass`, `LoopRepeats`, `LoopReturns`
and `FlushReturns` are the pieces of `runFlush`, `runFlushLoop` and `deliverQueued`.
`backoff` stands for `retryNotBefore > Date.now()`; the number of milliseconds does
not matter to any property, and the retry timer and `Date.now()` are kept as two
clocks.  `consecutiveFailures` only sets the length of the delay and is left out.
Timers cannot fire while a microtask is queued (`TimersRun`).

**ImmediateQueue.**  A slot is a send from its `enqueue` to the deletion of its
promise from the set.  Settling (`finally` of the send) and deletion (`finally` on
its promise) are two actions because they are two microtasks.

**ClientLifecycle.**  Clients are numbered.  `call[c]` is one pending `flush()`,
`shutdown()` or crash: which `flushPending()` it awaits, what that one has to drain
and how its caller was answered.  A deadline answers the caller and leaves the flush
running.  The queues are read as `DeliveryQueue` shows them: items go out in order,
and `flushPending()` returns once its target is gone, or early (an error, a backoff,
or the lost request of section 4); `cut` names the queues where it did, and
`FlushDrains` promises the others.  The kill switch, an invalid
configuration and `enabled: false` leave the state alone and are not actions.

**SafeRun.**  Time is `Date.now()` in ticks.  `windowStart` starts at 0, as in the
code, more than a window before the first tick.  A failure inside the customer's sink
is counted and not reported (`reporting`): an action counts both.  The history of
failures is cumulative, `failures[t]` being how many came by the time `t`, so that the
number within a window is a difference, whatever the length of the history.

**CapturePolicyCache.**  Delays are in seconds.  `getHeaders()` may throw before there
is a request; an answer is a success, a failure or a 429 with Retry-After.  `stop()`
and `start()` may come while a request is in flight.

**ErrorTracking.**  The module state of `error-tracking.ts` is one record `t`, and
each exported function an operator from record to record, because its callers call
several of them in one job: `RootEnds` of `Tracing`, for instance, is
`CompleteLocalRoot` after `RecordSpanError`, as `finishRootSpan` is.  The Maps
`pending` and `closed` are sequences in insertion order, which is what eviction and
the LRU go by; the loop of an eviction over the entries is a recursive function of
their number.  `t.events` holds every event handed to `client.enqueue()` with the way
it left: the winner of a root that completed, of an evicted one (`stale`), of a
root that was already closed (`late`), or a direct capture.

**Tracing.**  A task is a chain of frames (`withTrace`, `withSpan`); a frame names the
store of `AsyncLocalStorage` it runs in, and a store carries the stack of span ids.
`Fork` begins a branch of a `Promise.all()` in the store of its parent: two tasks
share a stack, and end their spans in any order.  `startSpan` pushes on that stack;
its handle may be ended by any task, in any store, and `PopActiveSpan` then searches
the stack of *that* one.  A leaf span (`beginOutboundSpan`, a database query) is on no
stack and is ended by a callback anywhere.  An error object may be thrown through
several spans and captured by hand as well.  `shutdown()` and ten minutes passing may
come in between.

**HttpRequests.**  A request has the state of its handler and of its response, which
fix the callbacks Node and the framework may run next; the five kinds differ in what
each of them does.  Socket events run in the scope of the request or outside of any, and so does `end()`
of `generic-http`, which is called after `run()` or by what runs in it.
The root span goes through `emitRootSpan`, whose flag makes it emit once, with the
boundary exception read from `ErrorTracking` in the same job.  Each integration looks
for the client at its own moment, and so does the model (`ClientFor`).

**Plugins.**  A plugin object is a name and a version.  A loop is a running
`initRegisteredPlugins()` with what is left of its snapshot; plugins are taken in the
order of `sortPlugins()`, which the numbers of their names stand for, and so the one
awaited is the least that is left.
Whenever `init()` of Lucid runs a listener with a Map of its own is attached, and a
query is in the Map of every listener attached before it began.

**OutboundHttp.**  A patched function is the sequence of its wrappers.  A call goes
through the SDK wrappers that are there when it is made; response, error, timeout and
close come in any order Node allows, each perhaps after another has ended the span.
Whether our listeners change what Node would do (an unread body, an unhandled error)
depends on what else listens, which is part of a call.

**CapturePolicy, EventNormalisation, ClientPipeline.**  Objects are records, an absent
field is absent from the domain, strings are tokens, a URL is a sequence of segments,
of which one may look like an id (`"id"`) or like 32 hexadecimal digits (`"hex"`): the
two functions that mask paths differ in that.  `samplingValueForKey` is a hash: any
function from trace ids to draws (`lots`), chosen once.  An environment is where an
item is made: its span, request snapshot, scope, business context and explicit
context.  `Array.prototype.filter` is a function from a sequence and the indices it
keeps (`Filter`); spreading one object over another is `Over`, the operator `@@` of the
module `TLC` spelled out for the provers.  `ClientPipeline` puts it through the gate under the policy of the moment,
adds the common context, and normalises the queue anew at every attempt to post it,
as `sendDefaultIngest` does.

## 3. Runs

| Run | Bounds | States | Shows |
|---|---|---|---|
| `queue_reliable` | batch 2, queue 4, 2 attempts, 4 items, 1 `flushPending` | 690 thousand | the backoff is honoured, nothing is lost, a punctual flush drains, no full batch is stranded except through the known gap, and the refinement of `ReliableQueue` |
| `queue_overflow` | batch 2, queue 3, 2 attempts, 5 items | 280 thousand | overflow under an active flush: caps, attempts, order; with fairness every item leaves |
| `queue_lost_flush` | as the first | | **violated**, see section 4 |
| `queue_overflow_loss` | as the second | | **violated** |
| `immediate` | cap 2, 3 slots, 2 flushers | 1 thousand | cap, places, waiting, termination of a flush |
| `lifecycle` | 2 clients, 2 items, 2 calls | 1.0 million | drained flushes, replaced clients, termination of calls and crashes |
| `runtime` | the code's constants with refresh 60 s, Retry-After 0, 30 or 86400 s; fuse of threshold 3, window 2, 8 ticks, 6 failures | 13 thousand | polling neither dies, overlaps, nor survives `stop`, failures slow it down; the fuse trips on bursts and only on bursts |
| `tracing` | 2 tasks, 2 error objects, 4 spans and upsets together, caps of 1 | 1.1 million | one event per error, none lost, the topmost failure, parents that are open |
| `requests` | 2 requests of 5 kinds, 2 acts, caps of 1 | 1.5 million | one root span, agreement of span and event, isolation of users |
| `requests_foreign_user` | the same | | **violated** |
| `instrumentation` | 2 plugins, 2 versions, 3 loops, Map of 2, 3 queries; 3 patches, 1 call | 1.8 million | initialisation, one span per query and per call, transparency, patches of others |
| `client` | 31 environments, 6 policies, 2 items, 2 posts, 2 polls | 99 thousand | sampling as one, agreement of the simulator, ids, faithful wire |

Why the bounds suffice:

* Queue: two items make a batch, so four or five items give a full batch on the wire,
  one behind it and a partial one; two attempts give one that is retried and one that
  gives up; a queue of 3 overflows while a batch of 2 is on the wire.  One
  `flushPending` meets every phase; calls do not see each other except through the
  flags that `enqueue` also sets.  Three slots over a cap of two let the cap be met
  while a settled send still awaits its deletion.
* Lifecycle: two calls let a crash or a `flush` overlap a `shutdown`, and two clients
  let an `init` fall in between.
* Fuse: eight ticks hold more than two windows.  The fuse and the polling share
  nothing, nor do plugins and outbound calls: such a pair is in one run, each member
  explored while the other is at rest.
* Tracing: with caps of 1 the second root evicts the first and the second closed root
  is the last one remembered.  Four acts give a root, two spans below it and another
  root or an upset.  Offline, four spans plus an upset (6.8 million states) show
  nothing else.
* Requests: two requests let one evict the other and write its scope while the other
  runs; two acts are two exceptions, or an exception and a user, or an exception and
  a client that goes.  Offline, three acts (13 million states) show nothing else.
* Instrumentation: three loops let two overlap and a third follow; a Map of 2 is
  outgrown by three queries; three patches let ours, another's and ours again pile up.
* Client: every environment differs from a plain request in one respect.  Environments
  that only matter for the wire are posted alone; those that share a queue, a trace
  or a policy are combined in pairs (`Company`).  Two polls change the policy between
  the two items of a trace; two posts are an attempt and a retry.  Offline, three items
  (1.9 million states) show nothing else.

The deadlock check is off where the bounds stop the system (all items enqueued, all
calls made, the process exited, time up); it is on for `immediate`, which never stops.

### Fairness

* `DeliveryQueue`: microtasks run, armed timers fire, time passes, and `deliver()`
  settles.  The default transport guarantees the last by `AbortSignal.timeout` of
  10 s (`default-fetch-transport.ts`).  A `transport` given by the customer may hang;
  then nothing settles and only the deadlines of `ClientLifecycle` help.  Nothing
  obliges the application to enqueue, flush or stop.  The timers are `unref`ed:
  fairness of timers is a statement about a process that goes on living.
* `ImmediateQueue`: sends settle, microtasks run.
* `ClientLifecycle`: only the deadlines, which are the SDK's own timers.  Nothing is
  assumed of transports.
* No fairness is assumed in the other runs, which check safety.  What they might claim
  under fairness (a request ends, a query completes) is up to the application.

## 4. What the code does that its text or its reader may not expect

Shown by a run that TLC finds violated:

* **A flush request can be lost** (`queue_lost_flush`).  Between the return of
  `runFlushLoop` and the `finally` that clears `activeFlush` there is a microtask.  A
  `flushPending()` that runs there sets flags that nobody reads again and awaits a
  promise that is already resolved: it returns with the queue full, against
  `event-queue.ts:69` and README `flush()`/`shutdown()` "Drain the queue".  An
  `enqueue()` that runs there leaves a full batch to the interval, against
  `span-queue.ts:51-53`; the property of `queue_reliable` excludes exactly the missed
  requests.
* **An overflow during a flush drops unsent items** (`queue_overflow_loss`).
* **An evicted request is given another's user** (`requests_foreign_user`).  When
  `pending` is full, or an entry ten minutes old, the next error of any request evicts
  it (`error-tracking.ts:171`), and the event goes through `attachCommonContext`
  (`stacktrace-client.ts:219`) in the scope of *that* request.  An event that has no
  `user` of its own gets the wrong one, against `scope-metadata.ts:28-30`.
  `EventsNameOwnUser`, which holds, is about all other events.

Visible in the modules, as an exception some property spells out:

* An `init()` during an awaiting `shutdown()` is undone by it (`index.ts:191`), and the
  client it made polls for ever behind the next one
  (`PreviousClientStoppedUnlessOverlap`).
* The fuse counts in tumbling windows, so 100 failures in 60 s trip it for certain only
  when there are 199 (`FuseCatchesDoubleBurst`); `init()` rearms a tripped fuse, which
  the warning says lasts until restart.
* On a response without `on()` Adonis emits no root span when the handler throws
  (`adonis.ts:175-181`), although its comment promises exactly one (`OneRootSpan`).
  Fastify that has no client at `onSend` completes the root nevertheless: if there is a
  client at `close`, the row has lost its exception.
* An eviction sends the best candidate and forgets the boundary exception
  (`SpanAndEventAgree`).  A boundary exception recorded after the root was closed makes
  a new pending entry, and so does any error of a root that has left `closed`: both
  wait until they are evicted (`FailedTraceReports`).
* A manual span ended in another context leaves its id on its own stack for later
  spans to be children of (`ParentEncloses`); one ended inside another trace is
  attributed to that trace.  A leaf that outlives its parent is taken for nearer to
  the root than it is (`TopmostErrorWins`).
* A root that was evicted, and that `closed` has forgotten since, begins anew: an error
  deeper than the one already sent becomes its best candidate and is sent when the root
  completes (`error-tracking.ts:191-219`), against "only the top-most error is kept".
  `TopmostErrorWins` is about roots that were never evicted.  The run `tracing` allows too
  few acts for this to happen (three traces have to fail around the evicted one); the
  attempt to prove the property without that condition brought it to light.
* Two `auto()` calls that overlap initialise a plugin twice, though never more often than
  there are of them; registering a name while a loop awaits it initialises the old object,
  or leaves the new one out (`InitOnce`, `InitedIsCurrent`).  Lucid registered anew has two sets of listeners and two spans
  per query (`QueriesHaveSpans`).
* `fetch` that another library has wrapped is wrapped again by a second
  `instrumentFetch` (two spans per call, `OneSpanPerCall`), and the restore of `node:http`
  takes off whatever others put on since (`OthersStay` is about `fetch`).
* An event and its root span may tell two routes, against `normalize.ts:406`
  (`RouteIsSpans`): of an unrouted path the span masks a segment of 32 hexadecimal digits
  and the event does not, and in a template with a literal number, such as
  `/errors/404`, the event masks the number (`pickV3HttpRoute`) and the span keeps it.
  The second came to light in the attempt to prove that the first is the only exception.
  The gate sees the raw path of an unrouted event and the masked one of its span.
* There are two parsers of `traceparent`: the one of `utils/` wants both ids in form, the
  normaliser's own (`shared/schema/traceparent.ts`) only the trace id.  A request whose
  header has a bad parent still gives its events the trace of its caller
  (`TraceIsWhereMade`).
* A `trace` the application gives replaces the one of the request as a whole: without a
  `trace_id` of its own the event falls back to the correlation and the headers, and not
  to the span it was made in (`TraceIsWhereMade`).
* Some of what an application gives vanishes without a warning (`Unread`, spelled out in
  `NothingSilent`): a block with no field the SDK reads, a `business` block that fails its
  schema, the keys `headers`, `resource`, `release`, `name` and `stack`, empty values.
* An event that cannot be normalised leaves its batch alone, as
  `stacktrace-client.ts:383-384` says; one that JSON cannot express does not.  Only the
  `correlation` block passes on fields it does not know (`metadata.schema.ts:39`), and a
  BigInt or a cycle among them makes `JSON.stringify` throw for the whole batch, which
  nobody tells from a failure of the network: the batch is tried again to the attempt
  limit and then given up, with every other event in it (`PoisonAlone`).
* A custom event id that is no UUID gives way to a new one at every attempt
  (`OneIdPerEvent`).

Read in the code, without a property:

* A delivery in flight when `stop()` is called and failing later arms the retry timer
  of the stopped queue (`event-queue.ts:225`, against `stacktrace-client.ts:254-256`).
* The documented fast retry of the first fetch (`CapturePolicyCache.ts:47-48`) does not
  exist: the first failure waits two intervals.  A refresh interval above 24.8 days
  overflows `setTimeout` and polls without pause.
* A 200 with a policy that does not parse replaces the last good policy by the
  permissive one (`capture-policy-engine.ts:419`).
* Statuses such as 501 or 3xx are neither retryable nor permanent and are retried up to
  the attempt limit; the jitter of 20 % may undercut a Retry-After.
* A `correlation` block that fails its schema vanishes without a warning; the model
  takes every such block for valid.

## 5. Proofs

Every safety and action property of the passing runs is a theorem: what a run shows for its bounds holds for every value of the constants
allowed by the named assumptions, all of which TLC evaluates in the runs.

Assumptions.  Sizes, caps, attempts and windows are positive, counts and draws natural
numbers, sets of slots finite.  Beyond that: `None`, which stands for `undefined` or
`null`, is no error, span or candidate (`TracingAssumption`, `NoneAssumption`); the
policies a server answers have passed the schemas of their shape, so that switches are
Booleans and rules an array (`AnswersAssumption`); a UUID that is drawn is not one
that an application chose (`IdsAssumption`); the id that is all zeros is not a valid one
(`ValidAssumption`); scopes hold a user and tags, the trace ids of a span are valid, for
the SDK parsed or drew them, and routes and paths are sequences of segments
(`EnvironmentsAssumption`).  Nothing is assumed of the context an application gives.  `Refinement` and `NothingIsLost` need
`NoOverflow` as well.

**Delivery queue** (`DeliveryQueueProofs`).  `ShapeInv` adds to the types the shape of
a pass in flight (`PassShape`): its slice lies inside what was accepted, the front has
not fallen behind it, it has a chunk, and no backoff is on.  `TypeCorrect` and
`BackoffIsHonoured` follow, and all else needs it, because `Chunk` is computed from it.

* `AttemptsAreBounded`, `DeliveryGoesForward`, overflow included.  The code counts the
  failures of "the head chunk", whose content changes.  `TriesInv` says why that is
  enough: behind the front no item was tried more often than the counter knows, and
  items beyond the next chunk, or beyond the slice, never.  `ForwardInv` says that
  whatever is settled lies before the front.
* `NoBatchIsStranded`.  `StrandInv`: a pass that nobody asked to rerun covers all that
  is queued; it therefore leaves less than a full batch, or the retry timer, or a
  request of the known gap, at each of the points between its end and `idle`.
* `PunctualFlushesDrain`.  `DrainInv`: what a punctual caller waits for is gone, or is
  inside a pass that drains, or a draining pass was asked for and the loop has not
  looked yet (`Underway`).  Overflow is included: it only removes.
* `Refinement`, `NothingIsLost`, under `NoOverflow` (`MaxItems <= MaxQueue`), without
  which the second is false (`queue_overflow_loss`).  The invariant adds that the front
  has not moved under a slice in flight (`UndisturbedInv`); then every action maps to
  an `Accept`, a `Settle` of the chunk, or a stutter, and `NothingIsLost` follows from
  the invariant `OneFateEach` of the abstract queue.

**Sending** (`ClientSendingProofs`).

* `CapHolds`, `NoPlaceLost`, `FlushWaits`: what a caller of the immediate mode is owed is
  a subset of what it waits for, and sends on the air are in the set.
* `TraceSampledTogether`: every decision is what `EvaluateCapture` says of its item under
  the policy it met, with the draw of its trace (`AllConsistent`); `SampledKeeps` then
  reduces a sampled decision to `draw <= rate`, and two with the same draw are ordered as
  their rates.  That `lots` never changes and that the draw comes from the key is all it
  rests on.
* `SimulatorDecides`: every policy in force is `Compiled`, its rules having passed the
  strict parse, which leaves no rule for metrics.  So storing and fetching it changes
  nothing (`RoundTrip`), and `LoopFinds`, by induction from the last rule back, says
  that the loop of the simulator ends at the `FirstMatch` of the gate.
* `IdsAreUnique`: there is a number drawn for each event (`IdsOf`, an existential over
  functions from decisions to numbers) which is no other's; what waits and what was
  posted carry it, and an id that replaces one that is no UUID was drawn for nothing else.
* `PoisonStaysAlone`: of the numbers of the decisions, the ones that are kept and not
  refused, in order, are those that wait and are not refused, and those of each post
  (`OrderInv`).  It needs that filtering commutes with appending (`FilterAppend`) and with
  taking the number of each event (`FilterOfs`), and that only the application gives a
  duration (`OwnDurations`) or what JSON cannot express (`OwnCorrelation`), so that `Fit`
  and `Stringifies` may be read off its context alone.
* `WireIsFaithful`: whatever waits has the context of its environment, and whatever was
  posted is what the normaliser makes of that (`ContentInv`).  The rest is about
  operators: `ContextGives` says of each key of the two merges which layer it comes
  from, and `TraceOfEvent`, `RouteOfEvent` and `SilenceOfEvent` follow `trace`, `http` and
  the other keys through the normaliser, one conjunct of the property each.

**Runtime** (`RuntimeProofs`).

* `PollingNeverStalls`, `StopIsFinal`, `NeverOverlaps`, for every interval, cap and
  Retry-After: a started cache waits for its timer or its request, and not for both.
  `PollingBacksOff` is arithmetic: two intervals at least, less a jitter of a tenth of a
  delay that is capped.
* `FuseTripsOnBursts`, `FuseTripsOnDoubleBursts`, for every history of failures.  The
  open window holds every failure since it was opened and the last of them came while it
  was open (`WindowInv`), and while the fuse holds neither this window nor the stretch
  of the same length before it saw a threshold of them (`QuietInv`).  Any stretch as
  long as a window meets two of those at most, which is where `2 * Threshold - 1` is from.

**Lifecycle** (`ClientLifecycleProofs`).  `FlushesDrain`: at each stage of a flush, what
it drains now covers what it owes its caller from that queue, and what it drained before
is gone (`FlushInv`), unless that queue's own drain was cut; queues only grow, so later captures and a replaced client cannot
undo it.  `ReplacedClientsStop`: unless an `init()` overlapped a `shutdown()`, whoever
polls is the current client, and nobody does while a `shutdown()` awaits (`PollersInv`).

**Instrumentation** (`InstrumentationProofs`).

* `PluginsInitOnce`, `InitedPluginsAreCurrent`: a loop holds the objects registered last,
  but for names registered anew meanwhile, and is alone unless two overlapped
  (`LoopsInv`); an object of Lucid whose `init()` was called is done, awaited or replaced.
  That no object is initialised more often than there were loops is a count: a loop that
  calls its `init()` has come to the object and will not come to it again (`TakenInv`).
* `CompletedQueriesHaveSpans`, for every cap of the Map: a Map lacks a pending query only
  if as many began after it as the Map holds (`MapsInv`), which rests on counting what is
  younger than the oldest entry (`TrackKeeps`).
* `CallsHaveOneSpan`, `ApplicationUndisturbed`, `OthersKeepTheirWrapper`, for any pile of
  patches: two wrappers of ours around `fetch` have another library's between them,
  `node:http` never has two (`ChainsInv`), and `finish()` has run by the time a call is
  closed (`CallsInv`).  On `fetch` a handle puts back what it wrapped only while it is outermost,
  so that the last theorem follows from what a handle remembers.

**Errors and traces.**  `ErrorTrackingProofs` says of each operator of
`error-tracking.ts` what it keeps, for a description `W` of what its caller may put in
it: an event's error is captured and no two events share one (`OneEventEach`), the Maps
hold a root once and within their caps, events are only appended, and an entry that is
gone was closed and sent (`LetGo`, `Follows`).  Both of its users cite the same lemmas.

* `TracingProofs`.  `TraceInvariant` is one invariant of the tree of spans, the stacks,
  the calls and the tracker, for any number of tasks, spans and errors.  `Tree` has
  the shape of each stack (distinct spans of one trace, its root first).  `Levels` is
  the distance from the root, an existential over functions, and `Aligned` says that the
  stacks agree with it in a trace that is nested, which makes the depth the code
  takes from the stack the true one.  `TrackerInv` says that every entry holds a
  candidate that its root keeps, that every failure is answered for, and that the best
  of an open root is no deeper than any error the root kept.  From it:
  `ErrorsReportOnce`, `FailedTracesReport`, `TracingTypes`; `TopmostErrorsWin`, because
  an ancestor has a lower level and would have been preferred; `ParentsEnclose`.
* `HttpRequestsProofs`.  `RootSpansAreUnique`: a row goes with `emitted`, and `emitted`
  with the end of the request (`RowsInv`).  `SpansAgreeWithEvents`: until it is emitted
  the tracker knows the exception of the edge unless the request was evicted, a row
  tells it, its event has left, and no event of an edge lacks its row (`EdgeInv`).
  `EventsStayWithTheirUser`: a candidate has the scope of its request or that of boot,
  and so has the scope an event that is not `stale` leaves in (`OwnEvents`).

Only model-checked:

* All liveness (`EveryItemLeaves`, `FlushEnds`, `CallsEnd`): fairness and ENABLED are out
  of the prover's reach here.
* The runs that expect a violation: a counterexample is their proof.

## 6. Not modelled

* A `deliver()` that calls its queue back before it returns (`event-queue.ts:138`).
* The arithmetic of the retry delay; the queue knows that a backoff is on.
* Redaction, correlation and stack sanitising rewrite strings character by character;
  the signature of a request and span-row sanitising are data too, and of JSON safety
  there is only whether a batch can be expressed at all.
* The configuration schemas are declarative; the command line doctor is sequential I/O.
* The kill switch is an environment variable read once.
* Which URLs are ignored for outbound spans, the slow-query threshold, the SQL verb,
  the text of events and the columns of span rows: no property depends on them.

## 7. Plan

Built so far, the most important first: `DeliveryQueue` with `ReliableQueue`,
`ImmediateQueue`, `ClientLifecycle`, `SafeRun`, `CapturePolicyCache`, then
`ErrorTracking` with `Tracing` and `HttpRequests`, `Plugins`, `OutboundHttp`, and
`CapturePolicy` and `EventNormalisation` with `ClientPipeline`.

What could come next:

1. A `deliver()` that calls its queue back, which would split `StartPass` in two.
2. Proofs of liveness (`EveryItemLeaves`, `FlushEnds`, `CallsEnd`), were the provers to
   allow them.
