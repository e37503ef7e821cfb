---------------------------- MODULE CapturePolicy ----------------------------
(* The capture policy of a service: from what the server answers to the decision *)
(* on one item (src/shared/schema/capture-policy-engine.ts).                      *)
(* A rule is [match, action], each a record of the fields the rule gives; what is *)
(* evaluated is a record of the same fields, "minDurationMs" being its duration.  *)
(* A draw stands for rng(), a number of Draws, and a rate for a number as well.   *)
EXTENDS Integers, Sequences, SequencesExt

EventTypes == {"log", "error", "http", "span"}
MatchFields == {"eventType", "endpoint", "status_code", "service_name", "minDurationMs"}
ActionFields == {"capture", "forceCapture", "sampleRate"}

Field(record, f, default) == IF f \in DOMAIN record THEN record[f] ELSE default

\* What is not said is permitted.
MergeDefaults(partial) == [type \in EventTypes |-> Field(partial, type, TRUE)]

Compile(wire) == [enabled |-> wire.enabled, defaults |-> MergeDefaults(wire.defaultCapture),
                  rules |-> wire.rules]

DEFAULT_COMPILED_CAPTURE_POLICY == [enabled |-> TRUE, defaults |-> MergeDefaults(<<>>), rules |-> <<>>]

\* The flat policy of old rows; a rate of AlwaysRate or more needs no rule.
LegacyToV2Wire(legacy, always) ==
  [enabled |-> TRUE,
   defaultCapture |-> [log |-> legacy.captureLogs, error |-> legacy.captureErrors,
                       http |-> legacy.captureHttpRequests, span |-> legacy.captureLogs],
   rules |-> IF Field(legacy, "logSampleRate", always) >= always THEN <<>>
             ELSE <<[match |-> [eventType |-> "log"], action |-> [sampleRate |-> legacy.logSampleRate]]>>]

\* The elements of a sequence at some of its indices, in order.
Filter(s, indices) ==
  LET upTo[n \in 0..Len(s)] == IF n = 0 THEN <<>>
                               ELSE IF n \in indices THEN Append(upTo[n - 1], s[n]) ELSE upTo[n - 1]
  IN upTo[Len(s)]

\* Rules for metrics, an event type that is gone, are dropped before the strict parse.
DropLegacyMetricRules(rules) ==
  Filter(rules, {i \in DOMAIN rules : Field(rules[i].match, "eventType", "log") # "metric"})

ValidRule(rule) == /\ DOMAIN rule.match \subseteq MatchFields /\ DOMAIN rule.action \subseteq ActionFields
                   /\ Field(rule.match, "eventType", "log") \in EventTypes

\* parseAndCompileCapturePolicy(): anything else is the permissive policy.
ParseAndCompile(raw, always) ==
  LET rules == DropLegacyMetricRules(raw.rules)
  IN CASE raw.shape = "v2" /\ (\A i \in DOMAIN rules : ValidRule(rules[i])) ->
            Compile([enabled |-> raw.enabled, defaultCapture |-> raw.defaultCapture, rules |-> rules])
       [] raw.shape = "legacy" -> Compile(LegacyToV2Wire(raw, always))
       [] OTHER -> DEFAULT_COMPILED_CAPTURE_POLICY

-----------------------------------------------------------------------------
\* A field of the match that the item lacks does not match.
RuleMatches(rule, item) ==
  \A f \in DOMAIN rule.match :
    /\ f \in DOMAIN item
    /\ IF f = "minDurationMs" THEN item[f] >= rule.match[f] ELSE item[f] = rule.match[f]

Matching(compiled, item) == {i \in DOMAIN compiled.rules : RuleMatches(compiled.rules[i], item)}
FirstMatch(compiled, item) == LET hits == Matching(compiled, item)
                              IN CHOOSE i \in hits : \A j \in hits : i <= j

\* The first rule that matches decides: force, else drop, else sample, else keep.
ActionKeeps(action, draw) ==
  \/ Field(action, "forceCapture", FALSE)
  \/ /\ Field(action, "capture", TRUE)
     /\ "sampleRate" \in DOMAIN action => ~(draw > action.sampleRate)

\* The master switch, then what is critical, the rules and the defaults.
EvaluateCapture(compiled, item, critical, draw) ==
  /\ compiled.enabled
  /\ \/ critical
     \/ IF Matching(compiled, item) = {} THEN compiled.defaults[item.eventType]
        ELSE ActionKeeps(compiled.rules[FirstMatch(compiled, item)].action, draw)

-----------------------------------------------------------------------------
\* The simulator of the dashboard has its own loop over the rules, which also
\* says what decided. Mutant: it looks at the rate before it looks at `capture`.
RuleVerdictRateFirst(action, draw) ==
  IF Field(action, "forceCapture", FALSE) THEN TRUE
  ELSE IF "sampleRate" \in DOMAIN action THEN ~(draw > action.sampleRate)
  ELSE Field(action, "capture", TRUE)
RuleVerdict(action, draw) ==
  IF Field(action, "forceCapture", FALSE) THEN TRUE
  ELSE IF ~Field(action, "capture", TRUE) THEN FALSE
  ELSE IF "sampleRate" \in DOMAIN action THEN ~(draw > action.sampleRate)
  ELSE TRUE

EvaluateCaptureDiagnostics(compiled, item, critical, draw) ==
  LET last == Len(compiled.rules) + 1
      from[i \in 1..last] ==
        IF i = last THEN [allowed |-> compiled.defaults[item.eventType], phase |-> "default", rule |-> 0]
        ELSE IF ~RuleMatches(compiled.rules[i], item) THEN from[i + 1]
        ELSE [allowed |-> RuleVerdict(compiled.rules[i].action, draw), phase |-> "rule", rule |-> i]
  IN CASE ~compiled.enabled -> [allowed |-> FALSE, phase |-> "disabled", rule |-> 0]
       [] compiled.enabled /\ critical -> [allowed |-> TRUE, phase |-> "critical", rule |-> 0]
       [] OTHER -> from[1]

\* What the API stores and answers again.
CompiledToV2Wire(compiled) ==
  [shape |-> "v2", enabled |-> compiled.enabled, defaultCapture |-> compiled.defaults, rules |-> compiled.rules]

SpanRowToCaptureEventType(span_type) == IF span_type = "http" THEN "http" ELSE "span"
=============================================================================
