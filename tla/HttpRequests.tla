---------------------------- MODULE HttpRequests ----------------------------
(* The HTTP integrations (fastify, express, adonis, generic-http): what the       *)
(* callbacks of a request do, in any order Node may run them, so that one root    *)
(* span and the right error event leave, with the scope of that request           *)
(* (request-context.ts, scope-metadata.ts).                                       *)
(* A kind is an integration; "bare" is Adonis on a response without on(), where   *)
(* nothing is listened to. A request's root has the request for its id, an error  *)
(* is <<request, n>>, a user is the request that called setUser(), or Boot.       *)
EXTENDS ErrorTracking

CONSTANTS Requests, Kinds,
          Boot,         \* the scope outside of any request (fallback)
          MaxActs       \* bound: exceptions, calls of setUser() and clearUser(), starts and
                        \* stops of the client and passings of ten minutes, together

ASSUME RequestsAssumption ==
  /\ Kinds \subseteq {"fastify", "express", "adonis", "bare", "generic"}
  /\ MaxActs \in Nat /\ None \notin Requests /\ Boot \notin Requests

\* What an integration hands over; None, null in the source, is none of it.
Errors == Requests \X Nat
Candidates == [error : Errors, root : Requests, span : 0..1, depth : 0..1,
               scope : Requests \cup {Boot, None}]
ASSUME NoneAssumption ==
  /\ None \notin {"fastify", "express", "adonis", "bare", "generic"}
  /\ None \notin Errors /\ None \notin Candidates

VARIABLES t,        \* the state of src/core/error-tracking.ts
          req,      \* each request's kind, progress, and what its closures hold
          rows,     \* root span rows handed to enqueueSpan(), per request
          user,     \* the user of each scope
          first,    \* history: the exception that first reached the edge, per request
          away,     \* history: some moment had no client
          acts

vars == <<t, req, rows, user, first, away, acts>>

\* handler: the application; response: the socket; client: the one of the arrival.
NotArrived == [kind |-> None, handler |-> "none", response |-> "none", status |-> "ok",
               emitted |-> FALSE, client |-> FALSE, errors |-> 0]
Arrived(r) == req[r].kind # None
Act == acts < MaxActs /\ acts' = acts + 1

\* The flow of a request runs in its scope; a socket event perhaps outside of it.
\* Until 2.1.x current() was the fallback for every request.
CurrentFallback(scope) == Boot
Current(scope) == scope
In(scope) == [t EXCEPT !.ambient = user[Current(scope)]]

CandidateOf(r, n, depth, scope) ==
  [error |-> <<r, n>>, root |-> r, span |-> depth, depth |-> depth, scope |-> user[Current(scope)]]

-----------------------------------------------------------------------------
\* emitRootSpan(), in the tracker state `known`: the root is completed before a
\* missing client cuts it short. Express and Adonis look the client up on arrival,
\* the others now, and Fastify is not done unless there was one.
ClientFor(r) == IF req[r].kind \in {"express", "adonis", "bare"} THEN req[r].client ELSE t.client
Done(r) == req[r].kind = "fastify" => t.client

Row(known, r, aborted) ==
  LET boundary == BoundaryError(known, r, req'[r].status = "error")
  IN [aborted |-> aborted, status |-> req'[r].status,
      error |-> IF boundary = None THEN None ELSE boundary.error]

EmitRootSpanAgain(r, known, aborted) ==
  /\ t' = CompleteLocalRoot(known, r, req'[r].status = "error")
  /\ rows' = IF ClientFor(r) THEN [rows EXCEPT ![r] = Append(@, Row(known, r, aborted))] ELSE rows
EmitRootSpan(r, known, aborted) ==
  IF req[r].emitted THEN UNCHANGED <<t, rows>>
  ELSE /\ t' = CompleteLocalRoot(known, r, req'[r].status = "error")
       /\ rows' = IF ClientFor(r) THEN [rows EXCEPT ![r] = Append(@, Row(known, r, aborted))]
                                  ELSE rows

-----------------------------------------------------------------------------
\* The hook or middleware runs the handler in a scope that begins as a copy of
\* the one it is called in.
Arrive(r, kind) ==
  /\ ~Arrived(r)
  /\ req' = [req EXCEPT ![r].kind = kind, ![r].handler = "running", ![r].response = "pending",
                        ![r].client = t.client]
  /\ user' = [user EXCEPT ![Current(r)] = user[Current(Boot)]]
  /\ UNCHANGED <<t, rows, first, away, acts>>

\* setUser() and clearUser(), by a running handler or at boot.
SetUser(scope, u) ==
  /\ scope # Boot => Arrived(scope) /\ req[scope].handler = "running"
  /\ Act /\ u \in {scope, None} /\ user' = [user EXCEPT ![Current(scope)] = u]
  /\ UNCHANGED <<t, req, rows, first, away>>

\* A span of the request, or of work it left behind, ends with a new exception.
SpanFails(r) ==
  /\ Arrived(r) /\ Act
  /\ req' = [req EXCEPT ![r].errors = @ + 1]
  /\ t' = IF t.client THEN RecordSpanError(In(r), r, CandidateOf(r, req'[r].errors, 1, r)) ELSE t
  /\ UNCHANGED <<rows, user, first, away>>

\* The handler throws, a new exception or the last one of its spans: Fastify runs
\* onError unless a reply was sent, Express its error middleware, Adonis and the
\* generic run() their catch. The framework then has a status for it.
HandlerThrows(r, fresh, status) ==
  /\ Arrived(r) /\ req[r].handler = "running"
  /\ IF fresh THEN Act ELSE req[r].errors > 0 /\ UNCHANGED acts
  /\ req' = [req EXCEPT ![r].handler = "threw",
                        ![r].errors = @ + (IF fresh THEN 1 ELSE 0),
                        ![r].status = IF req[r].response \in {"pending", "aborted"} THEN status ELSE @]
  /\ LET n == req'[r].errors
         seen == req[r].kind = "fastify" => req[r].response \in {"pending", "aborted"}
     IN /\ t' = IF seen THEN RecordBoundaryError(In(r), r, CandidateOf(r, n, 0, r)) ELSE t
        /\ first' = IF seen /\ first[r] = None /\ ~req[r].emitted
                    THEN [first EXCEPT ![r] = <<r, n>>] ELSE first
  /\ UNCHANGED <<rows, user, away>>

\* It returns with a status chosen; Adonis with nothing to listen to emits now.
HandlerReturns(r, status) ==
  /\ Arrived(r) /\ req[r].handler = "running"
  /\ req' = [req EXCEPT ![r].handler = "returned", ![r].emitted = @ \/ req[r].kind = "bare",
                        ![r].status = IF req[r].response \in {"pending", "aborted"} THEN status ELSE @]
  /\ IF req[r].kind = "bare" THEN EmitRootSpan(r, In(r), FALSE) ELSE UNCHANGED <<t, rows>>
  /\ UNCHANGED <<user, first, away, acts>>

\* The response is sent, perhaps by a handler that goes on; Fastify runs onSend
\* first, also for a socket that is gone.
OnSocket(r) == req[r].kind \in {"fastify", "express", "adonis"}
Respond(r, status) ==
  /\ OnSocket(r)
  /\ req[r].response = "pending" \/ (req[r].kind = "fastify" /\ req[r].response = "aborted")
  /\ req[r].handler # "running" => status = req[r].status
  /\ req' = [req EXCEPT ![r].response = IF @ = "pending" THEN "sent" ELSE "closed",
                        ![r].status = status,
                        ![r].emitted = @ \/ (req[r].kind = "fastify" /\ Done(r))]
  /\ IF req[r].kind = "fastify" THEN EmitRootSpan(r, In(r), FALSE) ELSE UNCHANGED <<t, rows>>
  /\ UNCHANGED <<user, first, away, acts>>

\* 'finish': the response was flushed. Fastify has nothing to do.
Finish(r, scope) ==
  /\ req[r].response = "sent" /\ scope \in {r, Boot}
  /\ req' = [req EXCEPT ![r].response = "finished", ![r].emitted = @ \/ req[r].kind # "fastify"]
  /\ IF req[r].kind # "fastify" THEN EmitRootSpan(r, In(scope), FALSE) ELSE UNCHANGED <<t, rows>>
  /\ UNCHANGED <<user, first, away, acts>>

\* 'close': after the response was flushed, or because the peer went away.
Close(r, scope) ==
  /\ OnSocket(r) /\ scope \in {r, Boot}
  /\ req[r].response \in {"pending", "sent", "finished"}
  /\ req' = [req EXCEPT ![r].response = IF @ = "pending" THEN "aborted" ELSE "closed",
                        ![r].emitted = @ \/ Done(r)]
  /\ EmitRootSpan(r, In(scope), req[r].kind = "adonis" \/ req[r].response # "finished")
  /\ UNCHANGED <<user, first, away, acts>>

\* end() of the generic integration, with the exception the caller has at hand: once
\* run() has returned, or else by what it runs, in its scope.
End(r, scope, status, withError) ==
  /\ scope \in {r, Boot} /\ req[r].kind = "generic" /\ ~req[r].emitted
  /\ withError => req[r].errors > 0
  /\ req' = [req EXCEPT ![r].emitted = TRUE, ![r].response = "closed", ![r].status = status]
  /\ first' = IF withError /\ first[r] = None
              THEN [first EXCEPT ![r] = <<r, req[r].errors>>] ELSE first
  /\ LET known == IF withError
                  THEN RecordBoundaryError(In(scope), r, CandidateOf(r, req[r].errors, 0, scope))
                  ELSE In(scope)
     IN EmitRootSpan(r, known, FALSE)
  /\ UNCHANGED <<user, away, acts>>

\* init() and shutdown(), and time.
ClientToggles == /\ Act
                 /\ t' = [t EXCEPT !.client = ~@] /\ away' = TRUE
                 /\ UNCHANGED <<req, rows, user, first>>
TenMinutesPass(n) == /\ Act
                     /\ n <= Len(t.pending) /\ t' = Age(t, n)
                     /\ UNCHANGED <<req, rows, user, first, away>>

-----------------------------------------------------------------------------
Init == /\ t = InitTracker /\ acts = 0 /\ away = FALSE
        /\ req = [r \in Requests |-> NotArrived]
        /\ rows = [r \in Requests |-> <<>>]
        /\ user = [scope \in Requests \cup {Boot} |-> None]
        /\ first = [r \in Requests |-> None]

Next ==
  \/ \E r \in Requests : \/ \E kind \in Kinds : Arrive(r, kind)
                         \/ SpanFails(r)
                         \/ \E scope \in {r, Boot} : Finish(r, scope) \/ Close(r, scope)
                         \/ \E status \in {"ok", "error"} :
                              \/ HandlerReturns(r, status) \/ Respond(r, status)
                              \/ \E b \in BOOLEAN :
                                   \/ HandlerThrows(r, b, status)
                                   \/ \E scope \in {r, Boot} : End(r, scope, status, b)
  \/ \E scope \in DOMAIN user, u \in DOMAIN user \cup {None} : SetUser(scope, u)
  \/ ClientToggles
  \/ \E n \in 1..MaxPendingRoots : TenMinutesPass(n)

Spec == Init /\ [][Next]_vars

-----------------------------------------------------------------------------
\* The request has ended as far as its integration can tell. Without listeners
\* Adonis sees no end when the handler throws, and emits nothing then.
Over(r) == CASE OnSocket(r)             -> req[r].response \in {"aborted", "closed"}
             [] req[r].kind = "bare"    -> req[r].handler = "returned"
             [] req[r].kind = "generic" -> req[r].emitted
             [] OTHER                   -> FALSE

\* "Emit the root span exactly once, however the request ends": normally, by an
\* exception, aborted before or after it was answered, with the callbacks in any
\* order. A request that saw no client, at some time, may have none.
OneRootSpan ==
  \A r \in Requests : Len(rows[r]) <= 1 /\ (Over(r) /\ ~away => rows[r] # <<>>)

\* The exception on the root span is the one that reached the edge first, on a
\* server error and only then, and its event leaves with the span; and an event
\* of the edge tells of no request that was answered otherwise. An eviction
\* forgets the exception of the edge.
SpanAndEventAgree ==
  ~away =>
    /\ \A r \in Requests : \A i \in DOMAIN rows[r] :
         LET row == rows[r][i]
         IN /\ r \notin t.evicted => row.error = IF row.status = "error" THEN first[r] ELSE None
            /\ row.error # None /\ Enabled => row.error \in t.captured
    /\ \A i \in DOMAIN t.events :
         LET c == t.events[i].candidate
         IN c.depth = 0 => \E j \in DOMAIN rows[c.root] : rows[c.root][j].error = c.error

\* attachCommonContext() adds the scope it runs in to what the event lacks.
SentUser(event) == IF event.candidate.scope # None THEN event.candidate.scope ELSE event.ambient

\* Whatever its callbacks run in, the event of a request names the user of that
\* request or the one set at boot; all but the events of evicted roots.
EventsNameOwnUser ==
  \A i \in DOMAIN t.events :
    t.events[i].via # "stale" => SentUser(t.events[i]) \in {None, Boot, t.events[i].candidate.root}

\* scope-metadata.ts: the scope isolates each request, none is attributed to
\* another's user.
NoForeignUser ==
  \A i \in DOMAIN t.events :
    SentUser(t.events[i]) \in {None, Boot, t.events[i].candidate.root}
=============================================================================
