-------------------------- MODULE EventNormalisation --------------------------
(* How an event gets its context and becomes a v4 event on the wire:             *)
(* mergeEventContext(), attachCommonContext(), toWirePayloadForIngest(),         *)
(* coerceToCanonicalInput() and eventV1ToV4(). A context is a record of the keys *)
(* it has; a blank string or a value of the wrong type counts as absent. Ids are *)
(* strings, Valid the ones in W3C form; a path is a sequence of segments, "id" a *)
(* number or a UUID, "hex" 32 hex digits, ":id" a placeholder.                   *)
EXTENDS Integers, Sequences, SequencesExt

CONSTANT Valid      \* the trace and span ids in W3C form

NULL == "null"      \* NULL_TRACE_ID and NULL_SPAN_ID: all zeros

ASSUME ValidAssumption == NULL \notin Valid

Opt(record, f) == IF f \in DOMAIN record THEN <<record[f]>> ELSE <<>>
Block(context, k) == IF k \in DOMAIN context THEN context[k] ELSE <<>>
\* The first candidate that is there, for each field that has one.
FirstDefined(candidates) ==
  [f \in {f \in DOMAIN candidates : candidates[f] # <<>>} |-> Head(candidates[f])]
\* { ...lower, ...upper }, which is upper @@ lower of the module TLC, opaque to provers.
Over(upper, lower) ==
  [k \in DOMAIN upper \cup DOMAIN lower |-> IF k \in DOMAIN upper THEN upper[k] ELSE lower[k]]

-----------------------------------------------------------------------------
\* parseTraceparent(): both ids must be in form, and neither all zeros.
Parsed(headers) ==
  IF "traceparent" \in DOMAIN headers
     /\ {headers.traceparent.trace_id, headers.traceparent.parent_id} \subseteq Valid
  THEN <<headers.traceparent>> ELSE <<>>

\* parseTraceparentTraceId(), the normaliser's own, does not look at the parent.
ParsedTraceId(headers) ==
  IF "traceparent" \in DOMAIN headers /\ headers.traceparent.trace_id \in Valid
  THEN <<headers.traceparent.trace_id>> ELSE <<>>

\* The span that runs is the top of the stack; it is the event's.
TraceLayerFromSpanContext(state) ==
  LET n == Len(state.stack)
  IN FirstDefined([trace_id |-> <<state.trace_id>>,
                   span_id |-> IF n > 0 THEN <<state.stack[n]>> ELSE <<>>,
                   parent_span_id |-> IF n > 1 THEN <<state.stack[n - 1]>> ELSE <<>>])

\* env: what the AsyncLocalStorages hold where the event is made. The keys of the
\* caller win over those of the request, of the scope and of the business context.
RequestLayer(env) ==
  LET snap == env.snap[1]
      corr == Parsed(snap.headers)
      trace == IF env.span # <<>> THEN <<TraceLayerFromSpanContext(env.span[1])>>
               ELSE [i \in DOMAIN corr |-> [trace_id |-> corr[i].trace_id, parent_span_id |-> corr[i].parent_id]]
  IN FirstDefined([http |-> <<FirstDefined([method |-> <<snap.method>>, url |-> <<snap.url>>,
                                            route_template |-> snap.route,
                                            response_status_code |-> snap.status])>>,
                   headers |-> <<snap.headers>>,
                   correlation |-> [i \in DOMAIN corr |-> [traceId |-> corr[i].trace_id]],
                   trace |-> trace])

\* Mutant: the trace is looked up in the branch of the HTTP request only.
MergeEventContextInRequest(env) ==
  Over(env.explicit, Over(IF env.snap # <<>> THEN RequestLayer(env) ELSE <<>>, Over(env.scope, env.business)))
SurroundingLayer(env) ==
  IF env.snap # <<>> THEN RequestLayer(env)
  ELSE FirstDefined([trace |-> IF env.span = <<>> THEN <<>> ELSE <<TraceLayerFromSpanContext(env.span[1])>>])
MergeEventContext(env) == Over(env.explicit, Over(SurroundingLayer(env), Over(env.scope, env.business)))

\* On its way into the queue an event gets the blocks of the SDK; its own win.
AttachCommonContext(context, scope) ==
  Over(context, Over(scope, [runtime |-> "object", resource |-> "object", release |-> "scalar"]))

-----------------------------------------------------------------------------
PickTraceId(context) ==
  LET found == Opt(Block(context, "trace"), "trace_id") \o Opt(Block(context, "correlation"), "traceId")
               \o ParsedTraceId(Block(context, "headers"))
  IN IF found = <<>> THEN NULL ELSE Head(found)

MergeHttpFromLegacy(context) ==
  LET http == Block(context, "http") request == Block(context, "request") response == Block(context, "response")
  IN FirstDefined(
       [method |-> Opt(http, "method") \o Opt(request, "method"),
        url |-> Opt(http, "url") \o Opt(request, "url"),
        route |-> Opt(http, "route"), route_template |-> Opt(http, "route_template"),
        duration_ms |-> Opt(http, "duration_ms") \o Opt(http, "durationMs")
                        \o Opt(response, "durationMs") \o Opt(response, "duration_ms"),
        response_status_code |-> Opt(http, "response_status_code") \o Opt(http, "status_code")
                                 \o Opt(http, "statusCode") \o Opt(response, "statusCode")
                                 \o Opt(response, "status_code")])

\* Without a route or a template the path of the URL is the route.
FinalizeHttp(http) ==
  IF {"route", "route_template"} \cap DOMAIN http = {} /\ {"method", "url"} \subseteq DOMAIN http
  THEN Over(http, [route |-> http.url]) ELSE http

MergeDbFromLegacy(context) ==
  LET db == Block(context, "db")
  IN FirstDefined([system |-> Opt(db, "system") \o Opt(db, "db_type") \o Opt(db, "dbType"),
                   operation |-> Opt(db, "operation") \o Opt(db, "op") \o Opt(db, "operationName"),
                   table |-> Opt(db, "table"), statement |-> Opt(db, "statement"),
                   duration_ms |-> Opt(db, "duration_ms") \o Opt(db, "durationMs"), rows |-> Opt(db, "rows")])
MergeQueueFromLegacy(context) ==
  LET queue == Block(context, "queue")
  IN FirstDefined([name |-> Opt(queue, "name"),
                   duration_ms |-> Opt(queue, "duration_ms") \o Opt(queue, "durationMs")])

\* The user stays: the mapper reads it from the metadata.
StripReserved(context) ==
  [k \in DOMAIN context \ {"trace", "tags", "http", "db", "queue", "headers"} |-> context[k]]

\* The id the event carries, if it is a UUID; any other is replaced by a new one.
PickEventId(event, drawn) == IF event.id[1] = "uuid" THEN event.id ELSE <<"uuid", drawn>>

-----------------------------------------------------------------------------
\* maskDynamicRouteSegments() masks more than routeHasRawDynamicSegments() sees.
RawSegments(path) == "id" \in ToSet(path)
Mask(path) == [i \in DOMAIN path |-> IF path[i] \in {"id", "hex"} THEN ":id" ELSE path[i]]

\* pickV3HttpRoute(); the empty path is "/". What is masked has no raw segment
\* left, so its last resorts are out of reach.
PickV3HttpRoute(http) ==
  LET given == Opt(http, "route") \o Opt(http, "route_template")
      template == Opt(http, "route_template")
  IN CASE given = <<>> -> IF "url" \in DOMAIN http THEN Mask(http.url) ELSE <<>>
       [] given # <<>> /\ ~RawSegments(given[1]) -> given[1]
       [] OTHER -> IF template # <<>> /\ ~RawSegments(template[1]) THEN template[1] ELSE Mask(given[1])

\* The keys of the context that become no tag.
RESERVED_META_KEYS ==
  {"name", "stack", "business", "trace", "correlation", "headers", "http", "db", "request", "response",
   "queue", "user", "subtenant", "runtime", "resource", "release", "performance"}

\* structureMetadataFromV1Event(): the blocks, the tags and the keys it warns of.
Structured(meta, http, db, queue, tags) ==
  LET loose == DOMAIN meta \ RESERVED_META_KEYS
      present == [http |-> http # <<>>, db |-> db # <<>>, queue |-> queue # <<>>,
                  business |-> "business" \in DOMAIN meta /\ meta.business = "valid",
                  correlation |-> "correlation" \in DOMAIN meta,
                  user |-> "id" \in DOMAIN Block(meta, "user"),
                  subtenant |-> "subtenant" \in DOMAIN meta, runtime |-> "runtime" \in DOMAIN meta]
  IN [blocks |-> {b \in DOMAIN present : present[b]},
      tags |-> {k \in loose : meta[k] = "scalar"} \cup DOMAIN tags,
      performance |-> DOMAIN Block(meta, "performance"),
      warned |-> {k \in loose : meta[k] = "object"}]

\* The schemas of the blocks reject a negative duration, and with it the event.
Rejected(http, db, queue) ==
  \E block \in {http, db, queue} : "duration_ms" \in DOMAIN block /\ block.duration_ms < 0

\* Of the blocks only the correlation passes on fields it does not know, whatever they
\* hold: the field "bigint" stands for what JSON.stringify() throws on.
Stringifies(context) == "bigint" \notin DOMAIN Block(context, "correlation")

\* normalizeEventV4(): ids are never invented, and no span outlives its trace.
NormalizeEventV4(event, drawn) ==
  LET context == event.context
      http == FinalizeHttp(MergeHttpFromLegacy(context))
      db == MergeDbFromLegacy(context)
      queue == MergeQueueFromLegacy(context)
      ids == Block(context, "trace")
      picked == PickTraceId(context)
      trace == IF picked \in Valid THEN picked ELSE NULL
      span == Opt(ids, "span_id")
  IN [rejected |-> Rejected(http, db, queue),
      event_id |-> PickEventId(event, drawn),
      type |-> IF event.type = "error" THEN "error" ELSE "log",
      trace_id |-> trace,
      span_id |-> IF trace # NULL /\ span # <<>> /\ span[1] \in Valid THEN span[1] ELSE NULL,
      parent_span_id |-> SelectSeq(Opt(ids, "parent_span_id"), LAMBDA p : p \in Valid),
      route |-> IF http = <<>> THEN <<>> ELSE <<PickV3HttpRoute(http)>>,
      metadata |-> Structured(StripReserved(context), http, db, queue, Block(context, "tags"))]
=============================================================================
