---------------------------- MODULE OutboundHttp ----------------------------
(* src/integrations/outbound-http: fetch.ts and node-http.ts put a wrapper on a   *)
(* global function that applications and other libraries wrap as well, and each   *)
(* wrapper ends the client span of a call at the first of the callbacks that say  *)
(* how it went.                                                                   *)
(* A function is the sequence of its wrappers, outermost first, each <<owner, n>>. *)
EXTENDS Integers, Sequences, FiniteSets, SequencesExt

CONSTANTS MaxPatches,   \* bound: wrappers put on
          MaxCalls      \* bound: calls made

ASSUME OutboundAssumption == MaxPatches \in Nat /\ MaxCalls \in Nat

VARIABLES fn,        \* the wrappers on "fetch" and on "http" (request and get)
          marked,    \* the INSTRUMENTED mark of node:http
          handles,   \* [target, wrapped, original]: what each returned function undoes
          outbound   \* the calls made

outboundVars == <<fn, marked, handles, outbound>>

Sdk(chain) == {i \in DOMAIN chain : chain[i][1] = "sdk"}

-----------------------------------------------------------------------------
\* instrumentFetch() looks for its mark on the function it finds,
\* instrumentNodeHttp() on the module; both return what restores the original.
Already(target) == IF target = "http" THEN marked
                   ELSE fn.fetch # <<>> /\ fn.fetch[1][1] = "sdk"

Instrument(target) ==
  /\ Len(handles) < MaxPatches /\ ~Already(target)
  /\ LET wrapped == <<<<"sdk", Len(handles)>>>> \o fn[target]
     IN /\ fn' = [fn EXCEPT ![target] = wrapped]
        /\ handles' = Append(handles, [target |-> target, wrapped |-> wrapped, original |-> fn[target]])
  /\ marked' = (marked \/ target = "http")
  /\ UNCHANGED outbound

\* fetch is restored if nobody wrapped it since, node:http in any case.
RestoredAlways(h) == TRUE
Restored(h) == h.target = "http" \/ fn.fetch = h.wrapped

Restore(i) ==
  LET h == handles[i]
  IN /\ fn' = IF Restored(h) THEN [fn EXCEPT ![h.target] = h.original] ELSE fn
     /\ marked' = (marked /\ h.target # "http")
     /\ UNCHANGED <<handles, outbound>>

\* Another library does the same, for good.
OtherWraps(target) ==
  /\ Len(fn[target]) < MaxPatches
  /\ \A i \in DOMAIN fn[target] : fn[target][i][1] = "sdk"
  /\ fn' = [fn EXCEPT ![target] = <<<<"other", Len(handles)>>>> \o @]
  /\ UNCHANGED <<marked, handles, outbound>>

-----------------------------------------------------------------------------
\* A call in a trace, whose URL is not ignored: each SDK wrapper begins a leaf
\* span. `listens` is how the application listens for a response and an error of
\* an http request: not at all, once, or on.
Call(target, listens) ==
  /\ Len(outbound) < MaxCalls
  /\ target = "fetch" => listens = "on"
  /\ outbound' = Append(outbound, [target |-> target, layers |-> Cardinality(Sdk(fn[target])),
                                   listens |-> listens, state |-> "open", finished |-> FALSE,
                                   spans |-> <<>>, discarded |-> FALSE, thrown |-> FALSE])
  /\ UNCHANGED <<fn, marked, handles>>

\* finish(): the first callback decides, in each wrapper.
FinishAgain(c, outcome) == [c EXCEPT !.finished = TRUE, !.spans = Append(@, outcome)]
Finish(c, outcome) ==
  IF c.finished \/ c.layers = 0 THEN c
  ELSE [c EXCEPT !.finished = TRUE, !.spans = @ \o [i \in 1..c.layers |-> outcome]]

\* listenerCount() in our listener, which prependListener() put before those of
\* the application: one that listens once has not been taken off yet.
CountAppended(c) == IF c.listens = "on" THEN 2 ELSE 1
Count(c) == IF c.listens = "none" THEN 1 ELSE 2
Alone(c) == c.target = "http" /\ c.layers > 0 /\ Count(c) = 1

Becomes(i, c) == outbound' = [outbound EXCEPT ![i] = c] /\ UNCHANGED <<fn, marked, handles>>

\* The answer: a fetch resolves, an http request emits 'response'. Alone, we do
\* what Node does without a listener: the body is discarded.
Answered(i, status) ==
  LET c == outbound[i]
  IN /\ c.state \in {"open", "timed out"}
     /\ Becomes(i, [Finish(c, status) EXCEPT !.state = IF c.target = "fetch" THEN "closed" ELSE "answered",
                                              !.discarded = Alone(c) \/ (c.layers = 0 /\ c.listens = "none")])

\* A network failure, before or after the answer: the error is thrown if nobody
\* listens, as Node does.
NetworkFails(i) ==
  LET c == outbound[i]
  IN /\ c.state # "closed" /\ c.state # "failed"
     /\ c.target = "fetch" => c.state = "open"
     /\ Becomes(i, [Finish(c, "network") EXCEPT !.state = IF c.target = "fetch" THEN "closed" ELSE "failed",
                                                 !.thrown = Alone(c) \/ (c.layers = 0 /\ c.listens = "none")])

\* 'timeout' tells of an idle socket, and the request goes on.
TimesOut(i) ==
  LET c == outbound[i]
  IN /\ c.target = "http" /\ c.state \in {"open", "answered"}
     /\ Becomes(i, [Finish(c, "timeout") EXCEPT !.state = IF @ = "open" THEN "timed out" ELSE @])

\* 'close', the last of all; without a response the span has no status.
Closes(i) ==
  LET c == outbound[i]
  IN /\ c.target = "http" /\ c.state # "closed"
     /\ Becomes(i, [Finish(c, "none") EXCEPT !.state = "closed"])

-----------------------------------------------------------------------------
OutboundInit == /\ fn = [f \in {"fetch", "http"} |-> <<>>] /\ marked = FALSE
                /\ handles = <<>> /\ outbound = <<>>

OutboundNext ==
  \/ \E target \in {"fetch", "http"} :
       \/ Instrument(target) \/ OtherWraps(target)
       \/ \E listens \in {"none", "once", "on"} : Call(target, listens)
  \/ \E i \in DOMAIN handles : Restore(i)
  \/ \E i \in DOMAIN outbound :
       \/ \E status \in {"ok", "error"} : Answered(i, status)
       \/ NetworkFails(i) \/ TimesOut(i) \/ Closes(i)

-----------------------------------------------------------------------------
\* A call that has ended has the one span of each SDK wrapper it went through,
\* whatever the callbacks and their order; and there is one wrapper, unless
\* another library wrapped fetch over the first.
OneSpanPerCall ==
  \A i \in DOMAIN outbound :
    LET c == outbound[i]
    IN /\ c.state = "closed" => Len(c.spans) = c.layers
       /\ Len(c.spans) <= c.layers
       /\ c.layers > 1 => c.target = "fetch" /\ \E j \in DOMAIN fn.fetch : fn.fetch[j][1] = "other"

\* The application does not notice us: a body is discarded and an error thrown
\* only when it listens for neither.
Transparent ==
  \A i \in DOMAIN outbound :
    outbound[i].discarded \/ outbound[i].thrown => outbound[i].listens = "none"

\* Undoing our patch never undoes that of another library, on fetch.
OthersStay ==
  [][\A n \in 0..MaxPatches : <<"other", n>> \in ToSet(fn.fetch) => <<"other", n>> \in ToSet(fn'.fetch)]_fn
=============================================================================
