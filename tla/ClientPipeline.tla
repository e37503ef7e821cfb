---------------------------- MODULE ClientPipeline ----------------------------
(* What happens to a span row and to an event inside a client: the capture gate   *)
(* under the policy of the moment, the context the client adds, the queue, and    *)
(* the posts the default transport makes of it (src/core/stacktrace-client.ts and *)
(* src/observability/capture). The order and the retries of the queue itself are  *)
(* in DeliveryQueue. An item that beforeSend() returns null for, or throws on,    *)
(* changes nothing.                                                               *)
EXTENDS CapturePolicy, EventNormalisation

CONSTANTS Environments,  \* where items are made: see mergeEventContext()
          Company,       \* bound: the environments of items that share a run with others
          Answers,       \* what the server may answer for the policy
          Draws,         \* the values of rng(), as small numbers
          AlwaysRate,    \* the rate 1
          Responses,     \* HTTP statuses of a post, 0 for a network failure
          MaxItems, MaxPosts, MaxRefreshes    \* bounds

ASSUME PipelineAssumption ==
  /\ Draws \subseteq Nat /\ AlwaysRate \in Nat /\ Responses \subseteq Nat
  /\ Company \subseteq Environments /\ {MaxItems, MaxPosts, MaxRefreshes} \subseteq Nat

\* The schemas of a policy let through Booleans and arrays of rules only.
ASSUME AnswersAssumption ==
  \A answer \in Answers :
    /\ answer.rules \in Seq({answer.rules[i] : i \in DOMAIN answer.rules})
    /\ answer.shape = "v2" =>
         /\ answer.enabled \in BOOLEAN
         /\ \A type \in DOMAIN answer.defaultCapture \cap EventTypes :
              answer.defaultCapture[type] \in BOOLEAN
    /\ answer.shape = "legacy" =>
         {answer.captureErrors, answer.captureLogs, answer.captureHttpRequests} \subseteq BOOLEAN

\* An event has no id, one that is no UUID, or a UUID of the application: those that
\* are drawn are numbered from 1, and no application has chosen one of them.
ASSUME IdsAssumption ==
  \A env \in Environments :
    \/ env.id \in {<<"none">>, <<"custom">>}
    \/ env.id = <<"uuid", env.id[2]>> /\ -env.id[2] \in Nat

\* getScopeContextForMerge() gives the user and the tags; the trace ids of a span were
\* parsed or drawn by the SDK; a route and a path are sequences of segments.
ASSUME EnvironmentsAssumption ==
  \A env \in Environments :
    /\ DOMAIN env.scope \subseteq {"user", "tags"} /\ DOMAIN env.business \subseteq {"business"}
    /\ env.span # <<>> => env.span[1].trace_id \in Valid /\ env.span[1].stack \in Seq(Valid)
    /\ env.snap # <<>> => env.snap[1].url \in Seq(STRING) /\ env.snap[1].route \in Seq(Seq(STRING))

VARIABLES policy,     \* the compiled policy in force
          lots,       \* samplingValueForKey() of each trace id: a hash, any value
          decided,    \* history: the decisions of the gate, in order
          queue,      \* the events that wait, [of, id, type, context]
          posts,      \* history: the attempts made, each the sequence of the events posted
          drawn,      \* random UUIDs drawn so far
          refreshes   \* bound: policies fetched

pipelineVars == <<policy, lots, decided, queue, posts, drawn, refreshes>>

-----------------------------------------------------------------------------
\* The endpoint of a root span is the template of the route, or the path masked.
SpanRoute(snap) == IF snap.route # <<>> THEN snap.route[1] ELSE Mask(snap.url)
Status(env) == IF env.snap = <<>> THEN <<>> ELSE env.snap[1].status

\* shouldCaptureSpan()
SpanItem(env, span_type) ==
  FirstDefined([eventType |-> <<SpanRowToCaptureEventType(span_type)>>, service_name |-> <<"svc">>,
                minDurationMs |-> <<env.ms>>,
                endpoint |-> IF span_type = "http" /\ env.snap # <<>> THEN <<SpanRoute(env.snap[1])>> ELSE <<>>,
                status_code |-> IF span_type = "http" THEN Status(env) ELSE <<>>])
SpanCritical(env, item) == env.failed \/ Field(item, "status_code", 0) >= 500

\* decideStackTraceCapture(): the event goes by the template, or the path as it is.
EventItem(event) ==
  LET http == Block(event.context, "http")
  IN FirstDefined([eventType |-> <<IF event.type = "error" THEN "error" ELSE "log">>,
                   service_name |-> <<"svc">>,
                   endpoint |-> Opt(http, "route_template") \o Opt(http, "url"),
                   status_code |-> Opt(http, "response_status_code") \o Opt(http, "status_code")])
EventCritical(event, item) == \/ {"critical", "capture_critical"} \cap DOMAIN event.context # {}
                              \/ Field(item, "status_code", 0) >= 500

\* rngFor(): the draw comes from the trace id, or else from the id of the event,
\* a hash as well; only without a key it is Math.random(). Mutant: it always is.
RngForAnew(trace) == Draws
RngFor(trace) == IF trace \in DOMAIN lots THEN {lots[trace]} ELSE Draws

Decide(env, item, critical, trace, draw) ==
  decided' = Append(decided, [env |-> env, policy |-> policy, item |-> item, critical |-> critical,
                              trace |-> trace, draw |-> draw,
                              kept |-> EvaluateCapture(policy, item, critical, draw)])

MayJoin(env) == /\ Len(decided) < MaxItems /\ posts = <<>>
                /\ decided # <<>> => env \in Company /\ decided[1].env \in Company

\* enqueueSpan(): the span queue is like that of the events.
EnqueueSpan(env, span_type) ==
  /\ MayJoin(env) /\ env.span # <<>>
  /\ LET item == SpanItem(env, span_type)
     IN \E draw \in RngFor(env.span[1].trace_id) :
          Decide(env, item, SpanCritical(env, item), env.span[1].trace_id, draw)
  /\ UNCHANGED <<policy, lots, queue, posts, drawn, refreshes>>

\* enqueue(): the id comes first, the policy decides, the common context is added.
\* Mutant: the id is left to the normaliser.
WithIdLater(id) == id
WithId(id) == IF id = <<"none">> THEN <<"uuid", drawn>> ELSE id

Enqueue(env) ==
  /\ MayJoin(env)
  /\ LET event == [id |-> WithId(env.id), type |-> env.type, context |-> MergeEventContext(env)]
         item == EventItem(event)
         critical == EventCritical(event, item)
         traces == Opt(Block(event.context, "trace"), "trace_id")
         trace == IF traces = <<>> THEN NULL ELSE traces[1]
     IN \E draw \in RngFor(trace) :
          /\ Decide(env, item, critical, trace, draw)
          /\ queue' = IF EvaluateCapture(policy, item, critical, draw)
                      THEN Append(queue, [of |-> Len(decided) + 1, id |-> event.id, type |-> event.type,
                                          context |-> AttachCommonContext(event.context, env.scope)])
                      ELSE queue
  /\ drawn' = drawn + 1
  /\ UNCHANGED <<policy, lots, posts, refreshes>>

\* A poll of CapturePolicyCache is answered.
Refresh(answer) ==
  /\ refreshes < MaxRefreshes /\ refreshes' = refreshes + 1 /\ posts = <<>>
  /\ policy' = ParseAndCompile(answer, AlwaysRate)
  /\ UNCHANGED <<lots, decided, queue, posts, drawn>>

-----------------------------------------------------------------------------
RETRYABLE_STATUS_CODES == {408, 429, 500, 502, 503, 504}
IsPermanentStatus(status) == status >= 400 /\ status < 500 /\ status \notin RETRYABLE_STATUS_CODES
Ok(status) == status >= 200 /\ status < 300

\* sendDefaultIngest(): an event that cannot be normalised is left out alone.
Canonical(wire) == Filter(wire, {i \in DOMAIN wire : ~wire[i].event.rejected})

\* A post of the whole queue and its answer. A failure that may pass keeps the
\* batch for the next attempt, and so does a batch that JSON cannot express: it is not
\* posted, no more than one without an event left.
SendDefaultIngest(status) ==
  /\ queue # <<>> /\ Len(posts) < MaxPosts
  /\ LET wire == [i \in DOMAIN queue |-> [of |-> queue[i].of, event |-> NormalizeEventV4(queue[i], drawn + i)]]
         canonical == Canonical(wire)
         throws == \E i \in DOMAIN wire : ~wire[i].event.rejected /\ ~Stringifies(queue[i].context)
         settled == canonical = <<>> \/ (~throws /\ (Ok(status) \/ IsPermanentStatus(status)))
     IN /\ posts' = Append(posts, IF throws THEN <<>> ELSE canonical)
        /\ queue' = IF settled THEN <<>> ELSE queue
        /\ drawn' = drawn + Len(queue) + 1
  /\ UNCHANGED <<policy, lots, decided, refreshes>>

-----------------------------------------------------------------------------
\* samplingValueForKey(): a hash of the trace id, so that it may be any value, but
\* is the same each time, and in every service of the trace.
SamplingValues(traces) == [Valid \cap traces -> Draws]

PipelineInit ==
  /\ policy = DEFAULT_COMPILED_CAPTURE_POLICY /\ decided = <<>> /\ queue = <<>> /\ posts = <<>>
  /\ lots \in SamplingValues({env.span[1].trace_id : env \in {e \in Environments : e.span # <<>>}})
  /\ drawn = 1 /\ refreshes = 0

PipelineNext ==
  \/ \E env \in Environments : Enqueue(env) \/ \E span_type \in {"http", "db"} : EnqueueSpan(env, span_type)
  \/ \E answer \in Answers : Refresh(answer)
  \/ \E status \in Responses : SendDefaultIngest(status)

PipelineSpec == PipelineInit /\ [][PipelineNext]_pipelineVars

-----------------------------------------------------------------------------
\* The rate at which a decision sampled, or -1 if something else decided.
SampledAt(d) ==
  IF ~d.policy.enabled \/ d.critical \/ Matching(d.policy, d.item) = {} THEN -1
  ELSE LET action == d.policy.rules[FirstMatch(d.policy, d.item)].action
       IN IF Field(action, "forceCapture", FALSE) \/ ~Field(action, "capture", TRUE) THEN -1
          ELSE Field(action, "sampleRate", -1)

\* "o trace inteiro fica ou sai junto" (capture-policy-engine.ts:236-242): of the
\* items of a trace, spans and events, what one is kept by keeps every other that
\* is sampled at no lower a rate, across any refresh of the policy.
SampledTogether ==
  \A i, j \in DOMAIN decided :
    LET a == decided[i] b == decided[j]
    IN /\ a.trace = b.trace /\ a.trace \in DOMAIN lots
       /\ SampledAt(a) \in Nat /\ SampledAt(b) \in Nat /\ SampledAt(a) <= SampledAt(b)
       /\ a.kept
       => b.kept

\* The simulator says what the gate decided, and a policy that was stored and
\* fetched again decides the same (:326, :479).
DecisionsAgree ==
  \A i \in DOMAIN decided :
    LET d == decided[i]
        again == ParseAndCompile(CompiledToV2Wire(d.policy), AlwaysRate)
    IN /\ EvaluateCaptureDiagnostics(d.policy, d.item, d.critical, d.draw).allowed = d.kept
       /\ EvaluateCapture(again, d.item, d.critical, d.draw) = d.kept

\* The idempotency key: an event has one id in all its attempts, unless the
\* application gave it one that is no UUID, and no other event has it, unless the
\* application gave it to both (stacktrace-event.types.ts:28-33).
Sent == UNION {{posts[p][i] : i \in DOMAIN posts[p]} : p \in DOMAIN posts}
OneIdPerEvent ==
  \A a, b \in Sent :
    LET id == decided[a.of].env.id
    IN /\ a.of = b.of /\ id # <<"custom">> => a.event.event_id = b.event.event_id
       /\ a.of # b.of /\ id = <<"none">> => a.event.event_id # b.event.event_id

\* Where an event was made is what its ids say, and NULL says it was nowhere: in a
\* span the span, else in a request its caller's, unless the application gave a trace,
\* or what the code falls back to where there is neither. A trace it gave is taken if it
\* is in W3C form; and no event has a span without a trace.
TraceIsWhereMade(env, event) ==
  LET inSpan == env.span # <<>>
      headers == IF env.snap # <<>> THEN env.snap[1].headers ELSE <<>>
      caller == ParsedTraceId(headers)
      stack == IF inSpan THEN env.span[1].stack ELSE <<>>
      given == DOMAIN env.explicit \cap
                 ({"trace"} \cup IF inSpan \/ Parsed(headers) # <<>> THEN {} ELSE {"correlation", "headers"})
  IN /\ event.trace_id = NULL => event.span_id = NULL
     /\ "trace_id" \in DOMAIN Block(env.explicit, "trace") =>
          event.trace_id \in {env.explicit.trace.trace_id, NULL}
     /\ given = {} =>
          /\ event.trace_id = IF inSpan THEN env.span[1].trace_id
                              ELSE IF caller # <<>> THEN caller[1] ELSE NULL
          /\ event.span_id = IF stack = <<>> THEN NULL ELSE stack[Len(stack)]

\* An event and the root span of its request tell the same route, which is what
\* rollups go by (normalize.ts:406), up to masking: of an unrouted path the event keeps
\* the 32 hex digits that the span masks, and in a template with a literal number the
\* event masks what the span keeps.
RouteIsSpans(env, event) ==
  env.snap # <<>> /\ "http" \notin DOMAIN env.explicit =>
    LET snap == env.snap[1]
    IN /\ event.route # <<>> /\ Mask(event.route[1]) = Mask(SpanRoute(snap))
       /\ \/ event.route = <<SpanRoute(snap)>>
          \/ snap.route = <<>> /\ "hex" \in ToSet(snap.url)
          \/ snap.route # <<>> /\ RawSegments(snap.route[1])

\* What the SDK reads of a block an application gives: of what has none of it, and of
\* what is nothing to begin with, nothing is sent and nothing is said. The name and the
\* stack are those of the error.
ReadFields ==
  [http |-> {"method", "url", "route", "route_template", "duration_ms", "durationMs",
             "response_status_code", "status_code", "statusCode"},
   request |-> {"method", "url"},
   response |-> {"durationMs", "duration_ms", "statusCode", "status_code"},
   db |-> {"system", "db_type", "dbType", "operation", "op", "operationName", "table", "statement",
           "duration_ms", "durationMs", "rows"},
   queue |-> {"name", "duration_ms", "durationMs"},
   user |-> {"id"}]
Unread(k, v) ==
  \/ k \in {"headers", "resource", "release", "name", "stack"}
  \/ k \in DOMAIN ReadFields /\ DOMAIN v \cap ReadFields[k] = {}
  \/ k = "business" /\ v # "valid"
  \/ k = "performance" /\ DOMAIN v = {}
  \/ k \notin RESERVED_META_KEYS /\ v \notin {"scalar", "object"}

\* No key of the context disappears in silence that holds something the SDK reads: it
\* is a block, a tag, a warning, or one the client adds for custom transports; and the
\* client is never warned of a key that the SDK itself put there.
NothingSilent(env, event) ==
  LET meta == event.metadata
      given == Over(env.explicit, Over(env.scope, env.business))
      scoped == DOMAIN env.scope \cup DOMAIN env.business \cup {"runtime", "resource", "release"}
  IN /\ \A k \in DOMAIN given :
          \/ k \in meta.blocks \cup meta.tags \cup meta.warned \cup {"trace"}
          \/ k \in {"request", "response"} /\ "http" \in meta.blocks
          \/ k = "tags" /\ DOMAIN given.tags \subseteq meta.tags
          \/ k = "performance" /\ meta.performance # {}
          \/ Unread(k, given[k])
     /\ meta.warned \cap (scoped \ DOMAIN env.explicit) = {}

\* What is posted is what was kept and is fit to be sent, in order: an event that
\* cannot be normalised, for a negative duration, never stops another. Only one that
\* JSON cannot express does: with it nothing of the batch is posted.
Fit(i) ==
  LET explicit == decided[i].env.explicit
  IN /\ decided[i].kept /\ decided[i].item.eventType \in {"error", "log"}
     /\ ~Rejected(MergeHttpFromLegacy(explicit), MergeDbFromLegacy(explicit), MergeQueueFromLegacy(explicit))
PoisonAlone ==
  \A p \in DOMAIN posts :
    \/ [i \in DOMAIN posts[p] |-> posts[p][i].of] = Filter([i \in DOMAIN decided |-> i], {i \in DOMAIN decided : Fit(i)})
    \/ posts[p] = <<>> /\ \E i \in DOMAIN decided : Fit(i) /\ ~Stringifies(decided[i].env.explicit)

FaithfulWire ==
  /\ PoisonAlone
  /\ \A sent \in Sent :
       LET env == decided[sent.of].env
       IN /\ TraceIsWhereMade(env, sent.event) /\ RouteIsSpans(env, sent.event)
          /\ NothingSilent(env, sent.event)
=============================================================================
