--------------------------- MODULE MCClientPipeline ---------------------------
(* ClientPipeline with environments that differ in one respect each.              *)
EXTENDS ClientPipeline

MCValid == {"t1", "t2", "s1", "s2", "p1"}
MCDraws == {0, 1}

Base == [type |-> "log", id |-> <<"none">>, span |-> <<>>, snap |-> <<>>, scope |-> <<>>,
         business |-> <<>>, explicit |-> <<>>, ms |-> 5, failed |-> FALSE]

InSpan(stack) == <<[trace_id |-> "t1", stack |-> stack]>>
Snap(url, route, status, headers) ==
  <<[method |-> "GET", url |-> url, route |-> route, status |-> status, headers |-> headers]>>
CalledBy(trace_id, parent_id) == [traceparent |-> [trace_id |-> trace_id, parent_id |-> parent_id]]
Caller(trace_id) == CalledBy(trace_id, "p1")
Users == <<"users", ":id">>

Request == [Base EXCEPT !.span = InSpan(<<"s1">>),
                        !.snap = Snap(<<"users", "id">>, <<Users>>, <<200>>, Caller("t1"))]
Logged(explicit) == [Base EXCEPT !.explicit = explicit]

Traced == Request
Failing == [Request EXCEPT !.type = "error", !.failed = TRUE,
                           !.snap[1].status = <<500>>, !.span = InSpan(<<"s1", "s2">>)]
Slow == [Request EXCEPT !.ms = 50]
Poison == Logged([db |-> [system |-> "mssql", duration_ms |-> -1]])

Inexpressible == Logged([correlation |-> [traceId |-> "t2", bigint |-> "1n"]])

MCCompany == {Traced, Failing, Slow, Poison, Inexpressible, Base}

MCEnvironments == MCCompany \cup
  {[Request EXCEPT !.snap = Snap(<<"users", segment>>, <<>>, <<404>>, <<>>)] : segment \in {"id", "hex"}}
  \cup {[Request EXCEPT !.span = span, !.snap[1].headers = headers] :
          span \in {<<>>, InSpan(<<>>)}, headers \in {<<>>, Caller("t2"), Caller("zeros"),
                                                       CalledBy("t2", "zeros")}}
  \cup {[Request EXCEPT !.snap[1].route = <<<<"errors", "id">>>>, !.explicit = [resource |-> "object"]],
        [Request EXCEPT !.span = <<>>, !.explicit = [trace |-> [span_id |-> "s2"]]],
        [Request EXCEPT !.span = <<>>, !.snap[1].headers = <<>>, !.explicit = [correlation |-> [traceId |-> "t2"]]]}
  \cup {[Base EXCEPT !.span = InSpan(<<"s1">>), !.type = "error", !.id = <<"uuid", 0>>],
        [Base EXCEPT !.id = <<"custom">>, !.business = [business |-> "valid"]],
        [Request EXCEPT !.scope = [user |-> [id |-> "u1"], tags |-> [plan |-> "pro"]]]}
  \cup {Logged(explicit) : explicit \in {
          [trace |-> [trace_id |-> "bad", span_id |-> "s1"]],
          [trace |-> [trace_id |-> "t2", span_id |-> "bad", parent_span_id |-> "zeros"]],
          [request |-> [method |-> "GET", url |-> <<"users", "id">>], response |-> [statusCode |-> 200, durationMs |-> 3]],
          [headers |-> Caller("t2"), db |-> [colour |-> "red"], response |-> [durationMs |-> -1]],
          [request |-> [colour |-> "red"], performance |-> <<>>, user |-> <<>>, colour |-> "blank"],
          [http |-> [route |-> <<"users", "id">>, route_template |-> Users]],
          [queue |-> [name |-> "jobs", durationMs |-> 2], colour |-> "scalar", thing |-> "object"],
          [performance |-> [operation |-> "job"], subtenant |-> "scalar", critical |-> "scalar"],
          [db |-> [dbType |-> "mssql", op |-> "SELECT"], user |-> [id |-> "u2"]]}}

Rule(match, action) == [match |-> match, action |-> action]
V2(enabled, defaults, rules) ==
  [shape |-> "v2", enabled |-> enabled, defaultCapture |-> defaults, rules |-> rules]

MCAnswers ==
  {V2(FALSE, <<>>, <<>>),
   V2(TRUE, [log |-> FALSE, span |-> FALSE],
      <<Rule([eventType |-> "metric"], [capture |-> FALSE]), Rule([endpoint |-> Users], [sampleRate |-> 0])>>),
   V2(TRUE, <<>>, <<Rule([minDurationMs |-> 20], [forceCapture |-> TRUE]),
                    Rule([status_code |-> 200], [capture |-> FALSE, sampleRate |-> 1]),
                    Rule([service_name |-> "svc"], [sampleRate |-> 0])>>),
   V2(TRUE, [log |-> FALSE], <<Rule([colour |-> "red"], [capture |-> FALSE])>>),
   [shape |-> "legacy", captureErrors |-> TRUE, captureLogs |-> TRUE, captureHttpRequests |-> FALSE,
    logSampleRate |-> 0, rules |-> <<>>],
   [shape |-> "other", rules |-> <<>>]}
=============================================================================
