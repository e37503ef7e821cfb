------------------------- MODULE HttpRequestsProofs -------------------------
(***************************************************************************)
(* Proofs about HttpRequests, for any number of requests of any kinds, any *)
(* caps and any run: one root span per request, events that name the       *)
(* request's own user, and a span and an event that tell the same story.   *)
(***************************************************************************)
EXTENDS ErrorTrackingProofs, HttpRequests

-----------------------------------------------------------------------------
(* What the integrations put in the tracker: a request's spans fail with   *)
(* depth 1, its edge with depth 0, and the scope of a candidate is the     *)
(* user of its request or the one set at boot.                             *)
Users == Requests \cup {Boot, None}
OwnCandidates(r) == {c \in Candidates : c.root = r /\ c.scope \in {r, Boot, None}}
OfRequests == {c \in Candidates : c \in OwnCandidates(c.root)}

Http ==
  [roots |-> Requests, candidates |-> OfRequests,
   best |-> {p \in Requests \X OfRequests : p[2].root = p[1] /\ p[2].depth = 1},
   boundary |-> {p \in Requests \X OfRequests : p[2].root = p[1] /\ p[2].depth = 0},
   scopes |-> Users]

LEMMA HttpFields ==
  /\ Http.roots = Requests /\ Http.candidates = OfRequests /\ Http.scopes = Users
  /\ \A r, c : <<r, c>> \in Http.best <=>
       r \in Requests /\ c \in OfRequests /\ c.root = r /\ c.depth = 1
  /\ \A r, c : <<r, c>> \in Http.boundary <=>
       r \in Requests /\ c \in OfRequests /\ c.root = r /\ c.depth = 0
BY DEF Http

LEMMA OwnCandidate ==
  ASSUME NEW r \in Requests, NEW c \in OwnCandidates(r)
  PROVE  c \in OfRequests /\ c.root = r /\ c \in Candidates /\ c # None
BY NoneAssumption DEF OwnCandidates, OfRequests

(* An event that is not stale names its own user. *)
Own(e) == e.via # "stale" => SentUser(e) \in {None, Boot, e.candidate.root}
OwnEvents(x) == \A i \in 1 .. Len(x.events) : Own(x.events[i])

LEMMA OwnEventsReported ==
  ASSUME NEW x, Sound(Http, x), OwnEvents(x), NEW y, NEW New, Reports(x, y, New),
         \A e \in New : Own(e), Len(y.events) \in Nat
  PROVE  OwnEvents(y)
<1>1. Len(x.events) \in Nat
  BY LenProperties DEF Sound, Trackers
<1>2. ASSUME NEW i \in 1 .. Len(y.events) PROVE Own(y.events[i])
  <2>1. CASE i <= Len(x.events)
    BY <1>1, <2>1 DEF Reports, OwnEvents
  <2>2. CASE ~(i <= Len(x.events))
    BY <1>1, <2>2 DEF Reports
  <2> QED BY <2>1, <2>2
<1> QED BY <1>2 DEF OwnEvents

LEMMA OwnEvent ==
  ASSUME NEW x, NEW r \in Requests, x.ambient \in {r, Boot, None},
         NEW c \in OwnCandidates(r), NEW via
  PROVE  Own(EventOf(x, c, via))
BY DEF Own, SentUser, EventOf, OwnCandidates

LEMMA StaleEventsAreOwn ==
  \A e \in StaleEvents(Http) : Own(e)
BY DEF StaleEvents, Own

-----------------------------------------------------------------------------
(* The operations on a tracker that runs in the scope of a request or of   *)
(* boot: what they leave true of it.                                       *)
TrackerOK(x) == Sound(Http, x) /\ OwnEvents(x)

LEMMA EventCount ==
  ASSUME NEW x, Sound(Http, x)
  PROVE  Len(x.events) \in Nat /\ DOMAIN x.events = 1 .. Len(x.events)
         /\ x.events \in Seq(Events(Http))
BY LenProperties DEF Sound, Trackers

LEMMA SpanErrorOK ==
  ASSUME NEW x, TrackerOK(x), NEW r \in Requests, x.ambient \in {r, Boot, None},
         NEW c \in OwnCandidates(r), c.depth = 1
  PROVE  LET y == RecordSpanError(x, r, c) IN
         /\ TrackerOK(y) /\ y.client = x.client /\ y.ambient = x.ambient
         /\ Follows(Http, x, y, {r})
         /\ Reports(x, y, StaleEvents(Http) \cup {EventOf(x, c, "late")})
         /\ KeepsSpanError(x, y, r, c) \/ Held(y) = Held(x)
<1> DEFINE y == RecordSpanError(x, r, c)
<1>1. Sound(Http, x) /\ OwnEvents(x)
  BY DEF TrackerOK
<1>2. c \in Http.candidates /\ c # None /\ r \in Http.roots /\ <<r, c>> \in Http.best
  BY OwnCandidate, HttpFields
<1>3. /\ Follows(Http, x, y, {r})
      /\ Reports(x, y, StaleEvents(Http) \cup {EventOf(x, c, "late")})
      /\ KeepsSpanError(x, y, r, c) \/ KeepsNoError(x, y, c)
  <2>1. \A d \in Http.candidates : d.depth \in Int
    BY HttpFields DEF OfRequests, Candidates
  <2> QED BY <1>1, <1>2, <2>1, RecordSpanErrorKeeps
<1> HIDE DEF y
<1>4. \A e \in StaleEvents(Http) \cup {EventOf(x, c, "late")} : Own(e)
  BY OwnEvent, StaleEventsAreOwn
<1>5. Sound(Http, y)
  BY <1>3 DEF Follows
<1>6. OwnEvents(y)
  BY <1>1, <1>3, <1>4, <1>5, EventCount, OwnEventsReported
<1> QED BY <1>3, <1>5, <1>6 DEF TrackerOK, KeepsNoError, Reports, y

LEMMA BoundaryErrorOK ==
  ASSUME NEW x, TrackerOK(x), NEW r \in Requests,
         NEW c \in OwnCandidates(r), c.depth = 0
  PROVE  LET y == RecordBoundaryError(x, r, c) IN
         /\ TrackerOK(y) /\ y.client = x.client /\ y.ambient = x.ambient
         /\ Follows(Http, x, y, {r}) /\ Reports(x, y, StaleEvents(Http))
         /\ KeepsBoundary(x, y, r, c)
<1> DEFINE y == RecordBoundaryError(x, r, c)
<1>1. Sound(Http, x) /\ OwnEvents(x)
  BY DEF TrackerOK
<1>2. /\ c \in Http.candidates /\ c # None /\ r \in Http.roots /\ r # None
      /\ <<r, c>> \in Http.boundary
  BY OwnCandidate, HttpFields, RequestsAssumption
<1>3. /\ Follows(Http, x, y, {r}) /\ Reports(x, y, StaleEvents(Http))
      /\ KeepsBoundary(x, y, r, c)
  BY <1>1, <1>2, RecordBoundaryErrorKeeps
<1> HIDE DEF y
<1>4. Sound(Http, y)
  BY <1>3 DEF Follows
<1>5. OwnEvents(y)
  BY <1>1, <1>3, <1>4, EventCount, StaleEventsAreOwn, OwnEventsReported
<1> QED BY <1>3, <1>4, <1>5 DEF TrackerOK, Reports, y

(* The event of a root that completes: its edge's, or one of its spans'. *)
CompleteEvents(x, r, serverError) ==
  {EventOf(x, c, "complete") :
     c \in {c \in OwnCandidates(r) : c.depth = 0 => c = BoundaryError(x, r, serverError)}}

LEMMA CompleteOK ==
  ASSUME NEW x, TrackerOK(x), NEW r \in Requests, x.ambient \in {r, Boot, None},
         NEW serverError \in BOOLEAN
  PROVE  LET y == CompleteLocalRoot(x, r, serverError)
             b == BoundaryError(x, r, serverError)
         IN /\ TrackerOK(y) /\ y.client = x.client /\ y.ambient = x.ambient
            /\ Follows(Http, x, y, {r}) /\ Reports(x, y, CompleteEvents(x, r, serverError))
            /\ b # None => b \in OwnCandidates(r) /\ b.depth = 0
            /\ b # None /\ x.client /\ Enabled => b.error \in y.captured
<1> DEFINE y == CompleteLocalRoot(x, r, serverError)
           b == BoundaryError(x, r, serverError)
           winner == WinnerOf(x, r, serverError)
<1>1. Sound(Http, x) /\ OwnEvents(x) /\ r \in Http.roots
  BY HttpFields DEF TrackerOK
<1>2. Completes(Http, x, y, r, winner)
  BY <1>1, CompleteLocalRootSends
<1> HIDE DEF y
<1>3. /\ b # None => b \in OwnCandidates(r) /\ b.depth = 0 /\ winner = b
      /\ winner # None => winner \in OwnCandidates(r) /\ (winner.depth = 0 => winner = b)
  <2>1. CASE r \in PendingRoots(x)
    <3> DEFINE e == EntryOf(x, r)
    <3>1. e \in Entries(Http) /\ e.root = r
      BY <1>1, <2>1, HeldEntries
    <3>2. /\ e.best # None => e.best \in OwnCandidates(r) /\ e.best.depth = 1
          /\ e.boundary # None => e.boundary \in OwnCandidates(r) /\ e.boundary.depth = 0
      <4>1. /\ e.best # None => <<r, e.best>> \in Http.best
            /\ e.boundary # None => <<r, e.boundary>> \in Http.boundary
        BY <3>1 DEF Entries
      <4> HIDE DEF e
      <4> QED BY <4>1, HttpFields DEF OfRequests
    <3>3. b = IF serverError THEN e.boundary ELSE None
      BY <2>1 DEF BoundaryError
    <3>4. winner = IF b # None THEN b ELSE e.best
      BY <2>1 DEF WinnerOf, Winner
    <3> HIDE DEF e, b, winner
    <3> QED BY <3>2, <3>3, <3>4
  <2>2. CASE r \notin PendingRoots(x)
    BY <2>2 DEF WinnerOf, BoundaryError
  <2> QED BY <2>1, <2>2
<1> HIDE DEF b, winner
<1>4. {EventOf(x, c, "complete") : c \in {winner} \ {None}}
        \subseteq CompleteEvents(x, r, serverError)
  BY <1>3 DEF CompleteEvents, b
<1>5. Follows(Http, x, y, {r}) /\ Reports(x, y, CompleteEvents(x, r, serverError))
  BY <1>2, <1>4 DEF Completes, Reports
<1>6. \A e \in CompleteEvents(x, r, serverError) : Own(e)
  BY OwnEvent DEF CompleteEvents
<1>7. Sound(Http, y)
  BY <1>5 DEF Follows
<1>8. OwnEvents(y)
  BY <1>1, <1>5, <1>6, <1>7, EventCount, OwnEventsReported
<1>9. b # None /\ x.client /\ Enabled => b.error \in y.captured
  BY <1>2, <1>3 DEF Completes
<1> QED BY <1>3, <1>5, <1>7, <1>8, <1>9 DEF TrackerOK, Reports, y, b

-----------------------------------------------------------------------------
(* What the tracker x knows of the exception f that reached the edge of r. *)
EdgeOf(x, f, r) ==
  /\ \A e \in Held(x) : e.root = r =>
       /\ e.boundary = None <=> f = None
       /\ e.boundary # None => e.boundary.error = f
  /\ f # None => \E e \in Held(x) : e.root = r

LEMMA EdgeStays ==
  ASSUME NEW x, NEW y, NEW f, NEW r, NEW roots, EdgeOf(x, f, r),
         Follows(Http, x, y, roots), r \notin roots, r \notin y.evicted
  PROVE  EdgeOf(y, f, r)
<1>1. ASSUME NEW e \in Held(y), e.root = r
      PROVE  \E g \in Held(x) : g.root = r /\ g.boundary = e.boundary
  BY <1>1 DEF Follows, Match
<1>2. ASSUME NEW e \in Held(x), e.root = r
      PROVE  \E g \in Held(y) : g.root = r
  BY <1>2 DEF Follows, Match
<1> QED BY <1>1, <1>2 DEF EdgeOf

LEMMA EdgeAfterSpanError ==
  ASSUME NEW x, NEW y, NEW f, NEW r, NEW c, EdgeOf(x, f, r),
         KeepsSpanError(x, y, r, c) \/ Held(y) = Held(x)
  PROVE  EdgeOf(y, f, r)
<1>1. CASE Held(y) = Held(x)
  BY <1>1 DEF EdgeOf
<1>2. CASE KeepsSpanError(x, y, r, c)
  <2>1. \E e \in Held(y) : e.root = r
    BY <1>2 DEF KeepsSpanError
  <2>2. ASSUME NEW e \in Held(y), e.root = r
        PROVE  /\ e.boundary = None <=> f = None
               /\ e.boundary # None => e.boundary.error = f
    <3>1. CASE e.boundary = None /\ \A g \in Held(x) : g.root # r
      BY <3>1 DEF EdgeOf
    <3>2. CASE \E g \in Held(x) : g.root = r /\ e.boundary = g.boundary
      BY <3>2 DEF EdgeOf
    <3> QED BY <1>2, <2>2, <3>1, <3>2 DEF KeepsSpanError
  <2> QED BY <2>1, <2>2 DEF EdgeOf
<1> QED BY <1>1, <1>2

LEMMA EdgeAfterBoundaryError ==
  ASSUME NEW x, Sound(Http, x), NEW y, NEW f, NEW r, NEW c, c # None, c.error # None,
         EdgeOf(x, f, r), KeepsBoundary(x, y, r, c)
  PROVE  EdgeOf(y, IF f = None THEN c.error ELSE f, r)
<1> DEFINE g == IF f = None THEN c.error ELSE f
<1>1. \E e \in Held(y) : e.root = r
  BY DEF KeepsBoundary
<1>2. ASSUME NEW e \in Held(y), e.root = r
      PROVE  e.boundary # None /\ e.boundary.error = g
  <2>1. CASE e.boundary = c /\ \A d \in Held(x) : d.root = r => d.boundary = None
    <3>1. f = None
      BY <2>1 DEF EdgeOf
    <3> QED BY <2>1, <3>1
  <2>2. CASE \E d \in Held(x) : d.root = r /\ d.boundary # None /\ e.boundary = d.boundary
    <3>1. f # None /\ e.boundary.error = f
      BY <2>2 DEF EdgeOf
    <3> QED BY <2>2, <3>1
  <2> QED BY <1>2, <2>1, <2>2 DEF KeepsBoundary
<1>3. g # None
  OBVIOUS
<1> HIDE DEF g
<1>4. EdgeOf(y, g, r)
  BY <1>1, <1>2, <1>3 DEF EdgeOf
<1> QED BY <1>4 DEF g

LEMMA EdgeIsBoundary ==
  ASSUME NEW x, Sound(Http, x), NEW f, NEW r, EdgeOf(x, f, r), NEW serverError \in BOOLEAN
  PROVE  LET b == BoundaryError(x, r, serverError) IN
         /\ b = None <=> ~serverError \/ f = None
         /\ b # None => b.error = f
<1>1. CASE r \in PendingRoots(x)
  <2>1. EntryOf(x, r) \in Held(x) /\ EntryOf(x, r).root = r
    BY <1>1, HeldEntries
  <2> QED BY <1>1, <2>1 DEF EdgeOf, BoundaryError
<1>2. CASE r \notin PendingRoots(x)
  <2>1. \A e \in Held(x) : e.root # r
    BY <1>2, HeldEntries
  <2> QED BY <1>2, <2>1 DEF EdgeOf, BoundaryError
<1> QED BY <1>1, <1>2

-----------------------------------------------------------------------------
(* The inductive invariant. *)
Responses == {"none", "pending", "sent", "finished", "aborted", "closed"}
Statuses == {"ok", "error"}
Progress ==
  [kind : {"fastify", "express", "adonis", "bare", "generic", None},
   handler : {"none", "running", "returned", "threw"}, response : Responses,
   status : Statuses, emitted : BOOLEAN, client : BOOLEAN, errors : Nat]
Rows == [aborted : BOOLEAN, status : Statuses, error : Errors \cup {None}]

HttpTypes ==
  /\ TrackerOK(t)
  /\ user \in [Requests \cup {Boot} -> Users]
  /\ \A scope \in Requests \cup {Boot} : user[scope] \in {scope, Boot, None}
  /\ req \in [Requests -> Progress]
  /\ rows \in [Requests -> Seq(Rows)]
  /\ first \in [Requests -> Errors \cup {None}]
  /\ away \in BOOLEAN

(* A row goes with the end of the request, if there always was a client. *)
RowsOf(r) ==
  /\ Len(rows[r]) <= 1
  /\ rows[r] # <<>> => req[r].emitted
  /\ req[r].kind = None =>
       req[r].handler = "none" /\ req[r].response = "none" /\ ~req[r].emitted
  /\ ~away => /\ req[r].emitted => rows[r] # <<>>
              /\ Over(r) => req[r].emitted
              /\ req[r].kind # None => req[r].client
RowsInv == (~away => t.client) /\ \A r \in Requests : RowsOf(r)

(* Until it is emitted, the tracker knows the exception of the edge; a row *)
(* tells it, its event has left, and no event of an edge lacks its row.    *)
RowAgrees(x, f, r, row) ==
  /\ r \notin x.evicted => row.error = IF row.status = "error" THEN f ELSE None
  /\ row.error # None /\ Enabled => row.error \in x.captured
EventsHaveRows(x, sent) ==
  \A i \in 1 .. Len(x.events) :
    LET c == x.events[i].candidate
    IN c.depth = 0 => \E j \in 1 .. Len(sent[c.root]) : sent[c.root][j].error = c.error
EdgeInv ==
  ~away =>
    /\ \A r \in Requests :
         /\ ~req[r].emitted /\ r \notin t.evicted => EdgeOf(t, first[r], r)
         /\ \A i \in 1 .. Len(rows[r]) : RowAgrees(t, first[r], r, rows[r][i])
    /\ EventsHaveRows(t, rows)

HttpInv == HttpTypes /\ RowsInv /\ EdgeInv

(* The tracker in the scope of a request, or of boot. *)
LEMMA InScope ==
  ASSUME HttpTypes, NEW r \in Requests, NEW scope \in {r, Boot}
  PROVE  LET x == In(scope) IN
         /\ TrackerOK(x) /\ x.ambient \in {r, Boot, None} /\ x.client = t.client
         /\ x.events = t.events /\ x.captured = t.captured /\ x.evicted = t.evicted
         /\ Held(x) = Held(t)
         /\ \A y, roots : Follows(Http, x, y, roots) => Follows(Http, t, y, roots)
<1> DEFINE x == In(scope)
<1>1. Sound(Http, t) /\ t \in Trackers(Http) /\ OwnEvents(t)
  BY DEF HttpTypes, TrackerOK, Sound
<1>2. user[scope] \in Users /\ user[scope] \in {r, Boot, None} /\ Http.scopes = Users
  BY HttpFields DEF HttpTypes
<1>3. x = [t EXCEPT !.ambient = user[scope]]
  BY DEF In, Current
<1> HIDE DEF x
<1>4. /\ x \in Trackers(Http) /\ x.ambient = user[scope] /\ x.client = t.client
      /\ x.events = t.events /\ x.captured = t.captured /\ x.evicted = t.evicted
      /\ x.pending = t.pending /\ x.closed = t.closed /\ x.tracked = t.tracked
  BY <1>1, <1>2, <1>3 DEF Trackers
<1>5. Held(x) = Held(t) /\ ClosedRoots(x) = ClosedRoots(t)
  BY <1>4 DEF Held, ClosedRoots
<1>6. TrackerOK(x)
  BY <1>1, <1>4 DEF TrackerOK, Sound, OwnEvents, OneEventEach, PendingMap, ClosedMap
<1>7. \A y, roots : Follows(Http, x, y, roots) => Follows(Http, t, y, roots)
  BY <1>4, <1>5 DEF Follows
<1> QED BY <1>2, <1>4, <1>5, <1>6, <1>7 DEF x

LEMMA RequestCandidate ==
  ASSUME HttpTypes, NEW r \in Requests, NEW n \in Nat, NEW depth \in 0 .. 1,
         NEW scope \in {r, Boot}
  PROVE  LET c == CandidateOf(r, n, depth, scope) IN
         /\ c \in OwnCandidates(r) /\ c.depth = depth /\ c.error = <<r, n>>
         /\ c.error \in Errors
BY DEF CandidateOf, OwnCandidates, Candidates, Errors, HttpTypes, Users, Current

-----------------------------------------------------------------------------
(* What every step of a request r has in common: the other requests stay   *)
(* as they are, and what was emitted stays so.                             *)
Steady(r) ==
  /\ req' \in [Requests -> Progress] /\ first' \in [Requests -> Errors \cup {None}]
  /\ \A s \in Requests \ {r} : req'[s] = req[s] /\ first'[s] = first[s]
  /\ req[r].emitted => req'[r].emitted /\ first'[r] = first[r]
  /\ req'[r].kind # None /\ (~away => req'[r].client)
  /\ user' \in [Requests \cup {Boot} -> Users]
  /\ \A scope \in Requests \cup {Boot} : user'[scope] \in {scope, Boot, None}
  /\ away' = away

NoEdgeEvents(x, y) ==
  \A i \in 1 .. Len(y.events) : y.events[i].candidate.depth = 0 =>
    \E j \in 1 .. Len(x.events) : x.events[j] = y.events[i]

LEMMA NoEdgeEventsReported ==
  ASSUME NEW x, Sound(Http, x), NEW y, Sound(Http, y), NEW New, Reports(x, y, New),
         \A e \in New : e.candidate.depth # 0
  PROVE  NoEdgeEvents(x, y)
<1>1. Len(x.events) \in Nat /\ Len(y.events) \in Nat
  BY EventCount
<1>2. ASSUME NEW i \in 1 .. Len(y.events), y.events[i].candidate.depth = 0
      PROVE  \E j \in 1 .. Len(x.events) : x.events[j] = y.events[i]
  <2>1. CASE i <= Len(x.events)
    BY <1>1, <2>1 DEF Reports
  <2>2. CASE ~(i <= Len(x.events))
    BY <1>1, <1>2, <2>2 DEF Reports
  <2> QED BY <2>1, <2>2
<1> QED BY <1>2 DEF NoEdgeEvents

LEMMA StaleEventsOfSpans ==
  \A e \in StaleEvents(Http) : e.candidate.depth # 0
<1>1. TAKE e \in StaleEvents(Http)
<1>2. PICK r \in Http.roots : <<r, e.candidate>> \in Http.best
  BY DEF StaleEvents
<1>3. e.candidate.depth = 1
  BY <1>2, HttpFields
<1> QED BY <1>3

LEMMA FollowsSelf ==
  ASSUME NEW W, NEW x, Sound(W, x), NEW roots
  PROVE  Follows(W, x, x, roots)
BY DEF Follows, Match

(* A step of r that emits no row. *)
LEMMA QuietStep ==
  ASSUME HttpInv, NEW r \in Requests, Steady(r),
         TrackerOK(t'), t'.client = t.client, Follows(Http, t, t', {r}),
         NoEdgeEvents(t, t'), rows' = rows,
         ~away /\ Over(r)' => req'[r].emitted,
         ~away /\ req'[r].emitted => req[r].emitted,
         ~away /\ ~req'[r].emitted /\ r \notin t'.evicted => EdgeOf(t', first'[r], r)
  PROVE  HttpInv'
<1>1. HttpTypes'
  BY DEF HttpInv, HttpTypes, Steady
<1>2. RowsInv'
  <2>1. ASSUME NEW s \in Requests PROVE RowsOf(s)'
    <3>1. CASE s = r
      BY <3>1 DEF HttpInv, RowsInv, RowsOf, Steady
    <3>2. CASE s # r
      <4>1. req'[s] = req[s] /\ away' = away /\ rows'[s] = rows[s]
        BY <3>2 DEF Steady
      <4>2. Over(s)' <=> Over(s)
        BY <4>1 DEF Over, OnSocket
      <4>3. RowsOf(s)
        BY DEF HttpInv, RowsInv
      <4> QED BY <4>1, <4>2, <4>3 DEF RowsOf
    <3> QED BY <3>1, <3>2
  <2>2. ~away' => t'.client
    BY DEF HttpInv, RowsInv, Steady
  <2> QED BY <2>1, <2>2 DEF RowsInv
<1>3. EdgeInv'
  <2> SUFFICES ASSUME ~away'
               PROVE  /\ \A s \in Requests :
                           /\ ~req'[s].emitted /\ s \notin t'.evicted => EdgeOf(t', first'[s], s)
                           /\ \A i \in 1 .. Len(rows'[s]) :
                                RowAgrees(t', first'[s], s, rows'[s][i])
                      /\ EventsHaveRows(t', rows')
    BY DEF EdgeInv
  <2>1. ~away /\ EdgeInv /\ t.evicted \subseteq t'.evicted /\ t.captured \subseteq t'.captured
    BY DEF Steady, HttpInv, Follows
  <2>2. ASSUME NEW s \in Requests, ~req'[s].emitted, s \notin t'.evicted
        PROVE  EdgeOf(t', first'[s], s)
    <3>1. CASE s = r
      BY <2>1, <2>2, <3>1
    <3>2. CASE s # r
      <4>1. req'[s] = req[s] /\ first'[s] = first[s] /\ s \notin t.evicted
        BY <2>1, <2>2, <3>2 DEF Steady
      <4>2. EdgeOf(t, first[s], s)
        BY <2>1, <2>2, <4>1 DEF EdgeInv
      <4> QED BY <2>2, <3>2, <4>1, <4>2, EdgeStays
    <3> QED BY <3>1, <3>2
  <2>3. ASSUME NEW s \in Requests, NEW i \in 1 .. Len(rows'[s])
        PROVE  RowAgrees(t', first'[s], s, rows'[s][i])
    <3>1. RowAgrees(t, first[s], s, rows[s][i])
      BY <2>1 DEF EdgeInv
    <3>2. req[s].emitted
      <4>1. rows[s] # <<>>
        <5>1. Len(<<>>) = 0 /\ 1 .. 0 = {}
          OBVIOUS
        <5> QED BY <5>1
      <4> QED BY <4>1 DEF HttpInv, RowsInv, RowsOf
    <3>3. first'[s] = first[s]
      BY <3>2 DEF Steady
    <3> QED BY <2>1, <3>1, <3>3 DEF RowAgrees
  <2>4. ASSUME NEW i \in 1 .. Len(t'.events), t'.events[i].candidate.depth = 0
        PROVE  LET c == t'.events[i].candidate
               IN \E j \in 1 .. Len(rows'[c.root]) : rows'[c.root][j].error = c.error
    <3>1. PICK k \in 1 .. Len(t.events) : t.events[k] = t'.events[i]
      BY <2>4 DEF NoEdgeEvents
    <3>2. EventsHaveRows(t, rows)
      BY <2>1 DEF EdgeInv
    <3> DEFINE c == t.events[k].candidate
    <3>3. \E j \in 1 .. Len(rows[c.root]) : rows[c.root][j].error = c.error
      BY <2>4, <3>1, <3>2 DEF EventsHaveRows
    <3> QED BY <2>4, <3>1, <3>3
  <2> QED BY <2>2, <2>3, <2>4 DEF EventsHaveRows
<1> QED BY <1>1, <1>2, <1>3 DEF HttpInv

(* A step of r that ends with emitRootSpan(), which finds the tracker as   *)
(* `known`.                                                                *)
LEMMA EmissionStep ==
  ASSUME HttpInv, NEW r \in Requests, Steady(r), NEW known, NEW aborted \in BOOLEAN,
         TrackerOK(known), known.ambient \in {r, Boot, None}, known.client = t.client,
         Follows(Http, t, known, {r}), NoEdgeEvents(t, known),
         EmitRootSpan(r, known, aborted),
         req'[r].kind = req[r].kind, req[r].kind # None,
         ~away => req'[r].emitted, ClientFor(r) => req'[r].emitted,
         ~away /\ ~req[r].emitted /\ r \notin known.evicted => EdgeOf(known, first'[r], r)
  PROVE  HttpInv'
<1> DEFINE se == req'[r].status = "error"
           b == BoundaryError(known, r, se)
           row == [aborted |-> aborted, status |-> req'[r].status,
                   error |-> IF b = None THEN None ELSE b.error]
<1>1. HttpTypes /\ Sound(Http, t) /\ Sound(Http, known)
  BY DEF HttpInv, HttpTypes, TrackerOK
<1>2. CASE req[r].emitted
  <2>1. t' = t /\ rows' = rows
    BY <1>2 DEF EmitRootSpan
  <2>2. NoEdgeEvents(t, t)
    BY DEF NoEdgeEvents
  <2>3. TrackerOK(t) /\ Follows(Http, t, t, {r})
    BY <1>1, FollowsSelf DEF HttpTypes
  <2>4. req'[r].emitted
    BY <1>2 DEF Steady
  <2> QED BY <1>2, <2>1, <2>2, <2>3, <2>4, QuietStep
<1>3. CASE ~req[r].emitted
  <2>1. /\ t' = CompleteLocalRoot(known, r, se)
        /\ rows' = IF ClientFor(r) THEN [rows EXCEPT ![r] = Append(@, row)] ELSE rows
    BY <1>3 DEF EmitRootSpan, Row
  <2>2. se \in BOOLEAN /\ req'[r].status \in Statuses
    BY DEF Steady, Progress
  <2>3. /\ TrackerOK(t') /\ t'.client = t.client /\ t'.ambient = known.ambient
        /\ Follows(Http, known, t', {r}) /\ Reports(known, t', CompleteEvents(known, r, se))
        /\ b # None => b \in OwnCandidates(r) /\ b.depth = 0
        /\ b # None /\ t.client /\ Enabled => b.error \in t'.captured
    BY <2>1, <2>2, CompleteOK
  <2>4. Follows(Http, t, t', {r}) /\ t.evicted \subseteq t'.evicted
        /\ t.captured \subseteq t'.captured /\ known.evicted \subseteq t'.evicted
    BY <1>1, <2>3, FollowsTwice DEF Follows
  <2> HIDE DEF se, b
  <2>5. row \in Rows /\ row.error = (IF b = None THEN None ELSE b.error)
        /\ row.status = req'[r].status
    <3>1. b # None => b.error \in Errors
      BY <2>3 DEF OwnCandidates, Candidates
    <3> QED BY <2>2, <3>1 DEF Rows
  <2> HIDE DEF row
  <2>6. rows[r] = <<>> /\ rows \in [Requests -> Seq(Rows)] /\ Len(rows[r]) = 0
    BY <1>3 DEF HttpInv, HttpTypes, RowsInv, RowsOf
  <2>7. /\ rows' \in [Requests -> Seq(Rows)]
        /\ \A s \in Requests \ {r} : rows'[s] = rows[s]
        /\ ClientFor(r) => Len(rows'[r]) = 1 /\ rows'[r][1] = row /\ rows'[r] # <<>>
        /\ ~ClientFor(r) => rows'[r] = <<>>
    <3>1. /\ Append(<<>>, row) \in Seq(Rows) /\ Len(Append(<<>>, row)) = 1
          /\ Append(<<>>, row)[1] = row /\ Append(<<>>, row) # <<>>
      <4>1. <<>> \in Seq(Rows) /\ Len(<<>>) = 0
        OBVIOUS
      <4>2. /\ Append(<<>>, row) \in Seq(Rows) /\ Len(Append(<<>>, row)) = 0 + 1
            /\ Append(<<>>, row)[0 + 1] = row
        BY <2>5, <4>1, AppendProperties
      <4> QED BY <4>1, <4>2
    <3>2. CASE ClientFor(r)
      <4>1. rows' = [rows EXCEPT ![r] = Append(<<>>, row)]
        BY <2>1, <2>6, <3>2
      <4> QED BY <2>6, <3>1, <3>2, <4>1
    <3>3. CASE ~ClientFor(r)
      BY <2>1, <2>6, <3>3
    <3> QED BY <3>2, <3>3
  <2>8. ~away => ClientFor(r)
    BY DEF HttpInv, RowsInv, RowsOf, ClientFor
  <2>9. HttpTypes'
    BY <2>3, <2>7 DEF HttpInv, HttpTypes, Steady
  <2>10. RowsInv'
    <3>1. ASSUME NEW s \in Requests PROVE RowsOf(s)'
      <4>1. CASE s = r
        <5>1. Len(rows'[r]) <= 1 /\ (rows'[r] # <<>> => ClientFor(r))
          <6>1. CASE ClientFor(r)
            <7>1. Len(rows'[r]) = 1
              BY <2>7, <6>1
            <7> QED BY <6>1, <7>1
          <6>2. CASE ~ClientFor(r)
            <7>1. rows'[r] = <<>> /\ Len(<<>>) = 0
              BY <2>7, <6>2
            <7>2. Len(rows'[r]) = 0
              BY <7>1
            <7> QED BY <7>1, <7>2
          <6> QED BY <6>1, <6>2
        <5>2. ~away => rows'[r] # <<>> /\ req'[r].emitted
          BY <2>7, <2>8
        <5> QED BY <4>1, <5>1, <5>2 DEF RowsOf, Steady
      <4>2. CASE s # r
        <5>1. req'[s] = req[s] /\ away' = away /\ rows'[s] = rows[s]
          BY <2>7, <4>2 DEF Steady
        <5>2. Over(s)' <=> Over(s)
          BY <5>1 DEF Over, OnSocket
        <5>3. RowsOf(s)
          BY DEF HttpInv, RowsInv
        <5> QED BY <5>1, <5>2, <5>3 DEF RowsOf
      <4> QED BY <4>1, <4>2
    <3>2. ~away' => t'.client
      BY <2>3 DEF HttpInv, RowsInv, Steady
    <3> QED BY <3>1, <3>2 DEF RowsInv
  <2>11. EdgeInv'
    <3> SUFFICES ASSUME ~away'
                 PROVE  /\ \A s \in Requests :
                             /\ ~req'[s].emitted /\ s \notin t'.evicted =>
                                  EdgeOf(t', first'[s], s)
                             /\ \A i \in 1 .. Len(rows'[s]) :
                                  RowAgrees(t', first'[s], s, rows'[s][i])
                        /\ EventsHaveRows(t', rows')
      BY DEF EdgeInv
    <3>1. ~away /\ EdgeInv /\ ClientFor(r) /\ t.client /\ req'[r].emitted
      BY <2>8 DEF Steady, HttpInv, RowsInv
    <3>2. ASSUME NEW s \in Requests, ~req'[s].emitted, s \notin t'.evicted
          PROVE  EdgeOf(t', first'[s], s)
      <4>1. s # r
        BY <3>1, <3>2
      <4>2. req'[s] = req[s] /\ first'[s] = first[s] /\ s \notin t.evicted
        BY <2>4, <3>2, <4>1 DEF Steady
      <4>3. EdgeOf(t, first[s], s)
        BY <3>1, <3>2, <4>2 DEF EdgeInv
      <4> QED BY <2>4, <3>2, <4>1, <4>2, <4>3, EdgeStays
    <3>3. RowAgrees(t', first'[r], r, row)
      <4>1. row.error # None /\ Enabled => row.error \in t'.captured
        BY <2>3, <2>5, <3>1
      <4>2. ASSUME r \notin t'.evicted
            PROVE  row.error = IF row.status = "error" THEN first'[r] ELSE None
        <5>1. EdgeOf(known, first'[r], r)
          BY <1>3, <2>4, <3>1, <4>2
        <5>2. (b = None <=> ~se \/ first'[r] = None) /\ (b # None => b.error = first'[r])
          BY <1>1, <2>2, <5>1, EdgeIsBoundary DEF b
        <5>3. se <=> row.status = "error"
          BY <2>5 DEF se
        <5> QED BY <2>5, <5>2, <5>3
      <4> QED BY <4>1, <4>2 DEF RowAgrees
    <3>4. ASSUME NEW s \in Requests, NEW i \in 1 .. Len(rows'[s])
          PROVE  RowAgrees(t', first'[s], s, rows'[s][i])
      <4>1. CASE s = r
        <5>1. i = 1
          <6>1. Len(rows'[s]) = 1
            BY <2>7, <3>1, <4>1
          <6> QED BY <6>1
        <5> QED BY <2>7, <3>1, <3>3, <4>1, <5>1
      <4>2. CASE s # r
        <5>1. rows'[s] = rows[s] /\ first'[s] = first[s]
          BY <2>7, <4>2 DEF Steady
        <5>2. RowAgrees(t, first[s], s, rows[s][i])
          BY <3>1, <5>1 DEF EdgeInv
        <5> QED BY <2>4, <5>1, <5>2 DEF RowAgrees
      <4> QED BY <4>1, <4>2
    <3>5. ASSUME NEW i \in 1 .. Len(t'.events), t'.events[i].candidate.depth = 0
          PROVE  LET c == t'.events[i].candidate
                 IN \E j \in 1 .. Len(rows'[c.root]) : rows'[c.root][j].error = c.error
      <4> DEFINE c == t'.events[i].candidate
      <4>1. Len(known.events) \in Nat /\ Len(t'.events) \in Nat
        BY <1>1, <2>3, EventCount DEF TrackerOK
      <4>2. CASE i <= Len(known.events)
        <5>1. i \in 1 .. Len(known.events) /\ known.events[i] = t'.events[i]
          BY <2>3, <4>1, <4>2 DEF Reports
        <5>2. PICK k \in 1 .. Len(t.events) : t.events[k] = t'.events[i]
          BY <3>5, <5>1 DEF NoEdgeEvents
        <5>3. \E j \in 1 .. Len(rows[c.root]) : rows[c.root][j].error = c.error
          BY <3>1, <3>5, <5>2 DEF EdgeInv, EventsHaveRows
        <5>4. c.root \in Requests
          <6>1. t'.events[i] \in Events(Http)
            BY <2>3, EventCount, ElementOfSeq DEF TrackerOK
          <6> QED BY <6>1, HttpFields DEF Events, OfRequests, Candidates
        <5>5. c.root # r
          <6>1. \A j \in 1 .. Len(rows[r]) : FALSE
            BY <2>6
          <6> QED BY <5>3, <6>1
        <5> QED BY <2>7, <5>3, <5>4, <5>5
      <4>3. CASE ~(i <= Len(known.events))
        <5>1. t'.events[i] \in CompleteEvents(known, r, se)
          BY <2>3, <4>1, <4>3 DEF Reports
        <5>2. c \in OwnCandidates(r) /\ c = b
          BY <3>5, <5>1 DEF CompleteEvents, EventOf, b
        <5>3. c # None /\ c.root = r
          BY <5>2, OwnCandidate
        <5>4. rows'[r][1].error = c.error /\ 1 \in 1 .. Len(rows'[r])
          BY <2>5, <2>7, <3>1, <5>2, <5>3
        <5> QED BY <5>3, <5>4
      <4> QED BY <4>2, <4>3
    <3> QED BY <3>2, <3>4, <3>5 DEF EventsHaveRows
  <2> QED BY <2>9, <2>10, <2>11 DEF HttpInv
<1> QED BY <1>2, <1>3

-----------------------------------------------------------------------------
(* The steps, one by one. *)
LEMMA RequestTypes ==
  ASSUME HttpInv, NEW r \in Requests
  PROVE  /\ req[r] \in Progress /\ first[r] \in Errors \cup {None} /\ RowsOf(r)
         /\ Sound(Http, t) /\ TrackerOK(t) /\ HttpTypes
         /\ Follows(Http, t, t, {r}) /\ NoEdgeEvents(t, t)
         /\ ~away => t.client
         /\ ~away /\ ~req[r].emitted /\ r \notin t.evicted => EdgeOf(t, first[r], r)
<1>1. HttpTypes /\ TrackerOK(t) /\ Sound(Http, t)
  BY DEF HttpInv, HttpTypes, TrackerOK
<1>2. Follows(Http, t, t, {r})
  BY <1>1, FollowsSelf
<1>3. NoEdgeEvents(t, t)
  BY DEF NoEdgeEvents
<1> QED BY <1>1, <1>2, <1>3 DEF HttpInv, HttpTypes, RowsInv, EdgeInv

LEMMA ArriveStep ==
  ASSUME HttpInv, NEW r \in Requests, NEW kind \in Kinds, Arrive(r, kind)
  PROVE  HttpInv'
<1>1. /\ req[r] \in Progress /\ RowsOf(r) /\ TrackerOK(t) /\ HttpTypes /\ (~away => t.client)
      /\ Follows(Http, t, t, {r}) /\ NoEdgeEvents(t, t)
      /\ ~away /\ ~req[r].emitted /\ r \notin t.evicted => EdgeOf(t, first[r], r)
  BY RequestTypes
<1>2. /\ t' = t /\ rows' = rows /\ first' = first /\ away' = away
      /\ req' = [req EXCEPT ![r].kind = kind, ![r].handler = "running",
                            ![r].response = "pending", ![r].client = t.client]
      /\ user' = [user EXCEPT ![r] = user[Boot]]
      /\ req[r].kind = None
  BY DEF Arrive, Arrived, Current
<1>3. ~req[r].emitted
  BY <1>1, <1>2 DEF RowsOf
<1>4. kind \in {"fastify", "express", "adonis", "bare", "generic"} /\ kind # None
  BY RequestsAssumption, NoneAssumption
<1>5. req'[r] = [req[r] EXCEPT !.kind = kind, !.handler = "running",
                               !.response = "pending", !.client = t.client]
  BY <1>1, <1>2 DEF HttpTypes
<1>6. /\ req'[r] \in Progress /\ req'[r].kind = kind /\ req'[r].client = t.client
      /\ req'[r].response = "pending" /\ req'[r].handler = "running" /\ ~req'[r].emitted
  <2>1. t.client \in BOOLEAN
    BY <1>1 DEF TrackerOK, Sound, Trackers
  <2> QED BY <1>1, <1>3, <1>4, <1>5, <2>1 DEF Progress, Responses
<1>7. /\ req' \in [Requests -> Progress]
      /\ \A s \in Requests \ {r} : req'[s] = req[s]
  BY <1>1, <1>2, <1>6 DEF HttpTypes
<1>8. /\ user' \in [Requests \cup {Boot} -> Users]
      /\ \A scope \in Requests \cup {Boot} : user'[scope] \in {scope, Boot, None}
  BY <1>1, <1>2 DEF HttpTypes
<1>9. Steady(r)
  BY <1>1, <1>2, <1>3, <1>4, <1>6, <1>7, <1>8 DEF Steady, HttpTypes
<1>10. ~Over(r)'
  BY <1>6 DEF Over, OnSocket
<1> QED BY <1>1, <1>2, <1>3, <1>6, <1>9, <1>10, QuietStep

LEMMA SpanFailsStep ==
  ASSUME HttpInv, NEW r \in Requests, SpanFails(r)
  PROVE  HttpInv'
<1>1. /\ req[r] \in Progress /\ RowsOf(r) /\ TrackerOK(t) /\ HttpTypes /\ (~away => t.client)
      /\ Follows(Http, t, t, {r}) /\ NoEdgeEvents(t, t) /\ Sound(Http, t)
      /\ ~away /\ ~req[r].emitted /\ r \notin t.evicted => EdgeOf(t, first[r], r)
  BY RequestTypes
<1> DEFINE n == req[r].errors + 1
           x == In(r)
           c == CandidateOf(r, n, 1, r)
<1>2. /\ rows' = rows /\ first' = first /\ away' = away /\ user' = user
      /\ req' = [req EXCEPT ![r].errors = @ + 1] /\ req[r].kind # None
  BY DEF SpanFails, Arrived
<1>3. /\ req'[r] \in Progress /\ req'[r].errors = n /\ n \in Nat
      /\ req'[r].emitted = req[r].emitted /\ req'[r].kind = req[r].kind
      /\ req'[r].client = req[r].client /\ req'[r].response = req[r].response
      /\ req'[r].handler = req[r].handler
      /\ req' \in [Requests -> Progress] /\ \A s \in Requests \ {r} : req'[s] = req[s]
  <2>1. req'[r] = [req[r] EXCEPT !.errors = @ + 1]
    BY <1>1, <1>2 DEF HttpTypes
  <2>2. req'[r] \in Progress /\ req'[r].errors = n /\ n \in Nat
        /\ req'[r].emitted = req[r].emitted /\ req'[r].kind = req[r].kind
        /\ req'[r].client = req[r].client /\ req'[r].response = req[r].response
        /\ req'[r].handler = req[r].handler
    BY <1>1, <2>1 DEF Progress
  <2> QED BY <1>1, <1>2, <2>2 DEF HttpTypes
<1>4. t' = IF t.client THEN RecordSpanError(x, r, c) ELSE t
  BY <1>3 DEF SpanFails
<1>5. Steady(r)
  BY <1>1, <1>2, <1>3 DEF Steady, HttpTypes, RowsOf
<1>6. Over(r)' <=> Over(r)
  BY <1>3 DEF Over, OnSocket
<1>7. /\ TrackerOK(x) /\ x.ambient \in {r, Boot, None} /\ x.client = t.client
      /\ x.events = t.events /\ Held(x) = Held(t)
      /\ \A y, roots : Follows(Http, x, y, roots) => Follows(Http, t, y, roots)
  BY <1>1, InScope
<1>8. c \in OwnCandidates(r) /\ c.depth = 1
  BY <1>1, <1>3, RequestCandidate
<1> HIDE DEF n, x, c
<1>9. /\ TrackerOK(t') /\ t'.client = t.client /\ Follows(Http, t, t', {r})
      /\ NoEdgeEvents(t, t')
      /\ \A f : EdgeOf(t, f, r) => EdgeOf(t', f, r)
  <2>1. CASE t.client
    <3>1. t' = RecordSpanError(x, r, c)
      BY <1>4, <2>1
    <3>2. /\ TrackerOK(t') /\ t'.client = x.client /\ Follows(Http, x, t', {r})
          /\ Reports(x, t', StaleEvents(Http) \cup {EventOf(x, c, "late")})
          /\ KeepsSpanError(x, t', r, c) \/ Held(t') = Held(x)
      BY <1>7, <1>8, <3>1, SpanErrorOK
    <3>3. \A e \in StaleEvents(Http) \cup {EventOf(x, c, "late")} : e.candidate.depth # 0
      BY <1>8, StaleEventsOfSpans DEF EventOf
    <3>4. NoEdgeEvents(x, t')
      BY <1>7, <3>2, <3>3, NoEdgeEventsReported DEF TrackerOK
    <3>5. \A f : EdgeOf(x, f, r) => EdgeOf(t', f, r)
      BY <3>2, EdgeAfterSpanError
    <3> QED BY <1>7, <3>2, <3>4, <3>5 DEF NoEdgeEvents, EdgeOf
  <2>2. CASE ~t.client
    BY <1>1, <1>4, <2>2
  <2> QED BY <2>1, <2>2
<1>10. ~away /\ ~req'[r].emitted /\ r \notin t'.evicted => EdgeOf(t', first'[r], r)
  BY <1>1, <1>2, <1>3, <1>9 DEF Follows
<1> QED BY <1>1, <1>2, <1>3, <1>5, <1>6, <1>9, <1>10, QuietStep DEF RowsOf

LEMMA HandlerThrowsStep ==
  ASSUME HttpInv, NEW r \in Requests, NEW fresh \in BOOLEAN, NEW status \in Statuses,
         HandlerThrows(r, fresh, status)
  PROVE  HttpInv'
<1>1. /\ req[r] \in Progress /\ RowsOf(r) /\ TrackerOK(t) /\ HttpTypes /\ (~away => t.client)
      /\ Follows(Http, t, t, {r}) /\ NoEdgeEvents(t, t) /\ Sound(Http, t)
      /\ first[r] \in Errors \cup {None}
      /\ ~away /\ ~req[r].emitted /\ r \notin t.evicted => EdgeOf(t, first[r], r)
  BY RequestTypes
<1> DEFINE n == req'[r].errors
           x == In(r)
           c == CandidateOf(r, n, 0, r)
           seen == req[r].kind = "fastify" => req[r].response \in {"pending", "aborted"}
           open == req[r].response \in {"pending", "aborted"}
<1>2. /\ rows' = rows /\ away' = away /\ user' = user
      /\ req' = [req EXCEPT ![r].handler = "threw",
                            ![r].errors = @ + (IF fresh THEN 1 ELSE 0),
                            ![r].status = IF open THEN status ELSE @]
      /\ req[r].kind # None
      /\ t' = IF seen THEN RecordBoundaryError(x, r, c) ELSE t
      /\ first' = IF seen /\ first[r] = None /\ ~req[r].emitted
                  THEN [first EXCEPT ![r] = <<r, n>>] ELSE first
  BY DEF HandlerThrows, Arrived
<1> HIDE DEF open
<1>3. /\ req'[r] \in Progress /\ n \in Nat
      /\ req'[r].emitted = req[r].emitted /\ req'[r].kind = req[r].kind
      /\ req'[r].client = req[r].client /\ req'[r].response = req[r].response
      /\ req'[r].handler = "threw"
      /\ req' \in [Requests -> Progress] /\ \A s \in Requests \ {r} : req'[s] = req[s]
  <2>1. req'[r] = [req[r] EXCEPT !.handler = "threw",
                                 !.errors = @ + (IF fresh THEN 1 ELSE 0),
                                 !.status = IF open THEN status ELSE @]
    BY <1>1, <1>2 DEF HttpTypes
  <2>2. /\ req'[r] \in Progress
        /\ req'[r].emitted = req[r].emitted /\ req'[r].kind = req[r].kind
        /\ req'[r].client = req[r].client /\ req'[r].response = req[r].response
        /\ req'[r].handler = "threw"
    <3> DEFINE e == req[r].errors + (IF fresh THEN 1 ELSE 0)
               st == IF open THEN status ELSE req[r].status
    <3>1. e \in Nat /\ st \in Statuses
      BY <1>1 DEF Progress
    <3>2. req'[r] = [req[r] EXCEPT !.handler = "threw", !.errors = e, !.status = st]
      BY <2>1
    <3> HIDE DEF e, st
    <3> QED BY <1>1, <3>1, <3>2 DEF Progress
  <2> QED BY <1>1, <1>2, <2>2 DEF HttpTypes, Progress
<1>4. /\ TrackerOK(x) /\ x.ambient \in {r, Boot, None} /\ x.client = t.client
      /\ x.events = t.events /\ Held(x) = Held(t)
      /\ \A y, roots : Follows(Http, x, y, roots) => Follows(Http, t, y, roots)
  BY <1>1, InScope
<1>5. /\ c \in OwnCandidates(r) /\ c.depth = 0 /\ c.error = <<r, n>> /\ c.error \in Errors
      /\ c # None /\ c.error # None
  <2>1. c \in OwnCandidates(r) /\ c.depth = 0 /\ c.error = <<r, n>> /\ c.error \in Errors
    BY <1>1, <1>3, RequestCandidate
  <2> QED BY <2>1, OwnCandidate, NoneAssumption
<1> HIDE DEF n, x, c, seen
<1>6. /\ first' \in [Requests -> Errors \cup {None}]
      /\ \A s \in Requests \ {r} : first'[s] = first[s]
      /\ req[r].emitted => first'[r] = first[r]
      /\ ~seen => first'[r] = first[r]
      /\ seen /\ ~req[r].emitted =>
           first'[r] = IF first[r] = None THEN c.error ELSE first[r]
  BY <1>1, <1>2, <1>5 DEF HttpTypes
<1>7. Steady(r)
  BY <1>1, <1>2, <1>3, <1>6 DEF Steady, HttpTypes, RowsOf
<1>8. Over(r)' => Over(r)
  BY <1>3 DEF Over, OnSocket
<1>9. /\ TrackerOK(t') /\ t'.client = t.client /\ Follows(Http, t, t', {r})
      /\ NoEdgeEvents(t, t')
      /\ seen => \A f : EdgeOf(t, f, r) => EdgeOf(t', IF f = None THEN c.error ELSE f, r)
      /\ ~seen => t' = t
  <2>1. CASE seen
    <3>1. t' = RecordBoundaryError(x, r, c)
      BY <1>2, <2>1
    <3>2. /\ TrackerOK(t') /\ t'.client = x.client /\ Follows(Http, x, t', {r})
          /\ Reports(x, t', StaleEvents(Http)) /\ KeepsBoundary(x, t', r, c)
      BY <1>4, <1>5, <3>1, BoundaryErrorOK
    <3>3. NoEdgeEvents(x, t') /\ Sound(Http, x)
      BY <1>4, <3>2, StaleEventsOfSpans, NoEdgeEventsReported DEF TrackerOK
    <3>4. \A f : EdgeOf(x, f, r) => EdgeOf(t', IF f = None THEN c.error ELSE f, r)
      BY <1>5, <3>2, <3>3, EdgeAfterBoundaryError
    <3>5. \A f : EdgeOf(t, f, r) => EdgeOf(x, f, r)
      BY <1>4 DEF EdgeOf
    <3> QED BY <1>4, <2>1, <3>2, <3>3, <3>4, <3>5 DEF NoEdgeEvents
  <2>2. CASE ~seen
    BY <1>1, <1>2, <2>2
  <2> QED BY <2>1, <2>2
<1>10. ~away /\ ~req'[r].emitted /\ r \notin t'.evicted => EdgeOf(t', first'[r], r)
  <2>1. t.evicted \subseteq t'.evicted
    BY <1>9 DEF Follows
  <2> QED BY <1>1, <1>3, <1>6, <1>9, <2>1
<1> QED BY <1>1, <1>2, <1>3, <1>7, <1>8, <1>9, <1>10, QuietStep DEF RowsOf

(* Steps that emit in a scope of the request or of boot, unless the        *)
(* integration has nothing to do.                                          *)
LEMMA InScopeEmission ==
  ASSUME HttpInv, NEW r \in Requests, Steady(r), NEW scope \in {r, Boot},
         NEW aborted \in BOOLEAN, EmitRootSpan(r, In(scope), aborted), first' = first,
         req'[r].kind = req[r].kind, req[r].kind # None,
         ~away => req'[r].emitted, ClientFor(r) => req'[r].emitted
  PROVE  HttpInv'
<1> DEFINE x == In(scope)
<1>1. /\ TrackerOK(t) /\ HttpTypes /\ Sound(Http, t)
      /\ ~away /\ ~req[r].emitted /\ r \notin t.evicted => EdgeOf(t, first[r], r)
  BY RequestTypes
<1>2. /\ TrackerOK(x) /\ x.ambient \in {r, Boot, None} /\ x.client = t.client
      /\ x.events = t.events /\ Held(x) = Held(t) /\ x.evicted = t.evicted
      /\ \A y, roots : Follows(Http, x, y, roots) => Follows(Http, t, y, roots)
  BY <1>1, InScope
<1>3. EmitRootSpan(r, x, aborted)
  OBVIOUS
<1> HIDE DEF x
<1>4. Follows(Http, t, x, {r})
  BY <1>2, FollowsSelf DEF TrackerOK
<1>5. NoEdgeEvents(t, x)
  BY <1>2 DEF NoEdgeEvents
<1>6. ~away /\ ~req[r].emitted /\ r \notin x.evicted => EdgeOf(x, first'[r], r)
  BY <1>1, <1>2 DEF EdgeOf
<1> QED BY <1>2, <1>3, <1>4, <1>5, <1>6, EmissionStep

LEMMA QuietEmission ==
  ASSUME HttpInv, NEW r \in Requests, Steady(r), UNCHANGED <<t, rows>>, first' = first,
         ~away /\ Over(r)' => req'[r].emitted,
         ~away /\ req'[r].emitted => req[r].emitted
  PROVE  HttpInv'
<1>1. /\ TrackerOK(t) /\ Follows(Http, t, t, {r}) /\ NoEdgeEvents(t, t)
      /\ ~away /\ ~req[r].emitted /\ r \notin t.evicted => EdgeOf(t, first[r], r)
  BY RequestTypes
<1>2. req[r].emitted => req'[r].emitted
  BY DEF Steady
<1> QED BY <1>1, <1>2, QuietStep

LEMMA HandlerReturnsStep ==
  ASSUME HttpInv, NEW r \in Requests, NEW status \in Statuses, HandlerReturns(r, status)
  PROVE  HttpInv'
<1>1. /\ req[r] \in Progress /\ RowsOf(r) /\ HttpTypes /\ (~away => t.client)
  BY RequestTypes
<1> DEFINE bare == req[r].kind = "bare"
           st == IF req[r].response \in {"pending", "aborted"} THEN status ELSE req[r].status
<1>2. /\ away' = away /\ user' = user /\ first' = first /\ req[r].kind # None
      /\ req' = [req EXCEPT ![r].handler = "returned", ![r].emitted = @ \/ bare,
                            ![r].status = st]
      /\ IF bare THEN EmitRootSpan(r, In(r), FALSE) ELSE UNCHANGED <<t, rows>>
  BY <1>1 DEF HandlerReturns, Arrived, HttpTypes
<1>3. st \in Statuses
  BY <1>1 DEF Progress
<1> HIDE DEF st
<1>4. /\ req'[r] \in Progress /\ req'[r].emitted = (req[r].emitted \/ bare)
      /\ req'[r].kind = req[r].kind /\ req'[r].client = req[r].client
      /\ req'[r].response = req[r].response
      /\ req' \in [Requests -> Progress] /\ \A s \in Requests \ {r} : req'[s] = req[s]
  <2>1. req'[r] = [req[r] EXCEPT !.handler = "returned", !.emitted = @ \/ bare, !.status = st]
    BY <1>1, <1>2 DEF HttpTypes
  <2>2. /\ req'[r] \in Progress /\ req'[r].emitted = (req[r].emitted \/ bare)
        /\ req'[r].kind = req[r].kind /\ req'[r].client = req[r].client
        /\ req'[r].response = req[r].response
    BY <1>1, <1>3, <2>1 DEF Progress
  <2> QED BY <1>1, <1>2, <2>2 DEF HttpTypes
<1>5. Steady(r)
  BY <1>1, <1>2, <1>4 DEF Steady, HttpTypes, RowsOf
<1>6. CASE bare
  <2>1. req'[r].emitted
    BY <1>4, <1>6
  <2> QED BY <1>2, <1>4, <1>5, <1>6, <2>1, InScopeEmission
<1>7. CASE ~bare
  <2>1. req'[r].emitted <=> req[r].emitted
    BY <1>4, <1>7
  <2>2. Over(r)' => Over(r)
    BY <1>4, <1>7, <2>1 DEF Over, OnSocket
  <2> QED BY <1>1, <1>2, <1>5, <1>7, <2>1, <2>2, QuietEmission DEF RowsOf
<1> QED BY <1>6, <1>7

LEMMA RespondStep ==
  ASSUME HttpInv, NEW r \in Requests, NEW status \in Statuses, Respond(r, status)
  PROVE  HttpInv'
<1>1. /\ req[r] \in Progress /\ RowsOf(r) /\ HttpTypes /\ (~away => t.client)
      /\ t.client \in BOOLEAN
  BY RequestTypes DEF TrackerOK, Sound, Trackers
<1> DEFINE fastify == req[r].kind = "fastify"
           res == IF req[r].response = "pending" THEN "sent" ELSE "closed"
           out == req[r].emitted \/ (fastify /\ Done(r))
<1>2. /\ away' = away /\ user' = user /\ first' = first
      /\ req[r].kind \in {"fastify", "express", "adonis"}
      /\ req[r].response = "pending" \/ (fastify /\ req[r].response = "aborted")
      /\ req' = [req EXCEPT ![r].response = res, ![r].status = status, ![r].emitted = out]
      /\ IF fastify THEN EmitRootSpan(r, In(r), FALSE) ELSE UNCHANGED <<t, rows>>
  BY <1>1 DEF Respond, OnSocket, HttpTypes
<1>3. res \in Responses /\ out \in BOOLEAN /\ (~fastify => res = "sent")
  BY <1>1, <1>2 DEF Progress, Responses
<1> HIDE DEF res, out
<1>4. /\ req'[r] \in Progress /\ req'[r].emitted = out /\ req'[r].response = res
      /\ req'[r].kind = req[r].kind /\ req'[r].client = req[r].client
      /\ req' \in [Requests -> Progress] /\ \A s \in Requests \ {r} : req'[s] = req[s]
  <2>1. req'[r] = [req[r] EXCEPT !.response = res, !.status = status, !.emitted = out]
    BY <1>1, <1>2 DEF HttpTypes
  <2>2. /\ req'[r] \in Progress /\ req'[r].emitted = out /\ req'[r].response = res
        /\ req'[r].kind = req[r].kind /\ req'[r].client = req[r].client
    BY <1>1, <1>3, <2>1 DEF Progress
  <2> QED BY <1>1, <1>2, <2>2 DEF HttpTypes
<1>5. req[r].kind # None
  BY <1>2, NoneAssumption
<1>6. Steady(r)
  BY <1>1, <1>2, <1>4, <1>5 DEF Steady, HttpTypes, RowsOf, out
<1>7. CASE fastify
  <2>1. t.client => out
    BY <1>7 DEF out, Done
  <2>2. ClientFor(r) = t.client
    BY <1>7 DEF ClientFor
  <2> QED BY <1>1, <1>2, <1>4, <1>5, <1>6, <1>7, <2>1, <2>2, InScopeEmission
<1>8. CASE ~fastify
  <2>1. req'[r].emitted <=> req[r].emitted
    BY <1>4, <1>8 DEF out
  <2>2. ~Over(r)'
    BY <1>2, <1>3, <1>4, <1>8 DEF Over, OnSocket
  <2> QED BY <1>2, <1>6, <1>8, <2>1, <2>2, QuietEmission
<1> QED BY <1>7, <1>8

LEMMA FinishStep ==
  ASSUME HttpInv, NEW r \in Requests, NEW scope \in {r, Boot}, Finish(r, scope)
  PROVE  HttpInv'
<1>1. /\ req[r] \in Progress /\ RowsOf(r) /\ HttpTypes /\ (~away => t.client)
  BY RequestTypes
<1> DEFINE fastify == req[r].kind = "fastify"
<1>2. /\ away' = away /\ user' = user /\ first' = first
      /\ req[r].response = "sent"
      /\ req' = [req EXCEPT ![r].response = "finished", ![r].emitted = @ \/ ~fastify]
      /\ IF ~fastify THEN EmitRootSpan(r, In(scope), FALSE) ELSE UNCHANGED <<t, rows>>
  BY <1>1 DEF Finish, HttpTypes
<1>3. req[r].kind # None
  BY <1>1, <1>2 DEF RowsOf
<1>4. /\ req'[r] \in Progress /\ req'[r].emitted = (req[r].emitted \/ ~fastify)
      /\ req'[r].response = "finished"
      /\ req'[r].kind = req[r].kind /\ req'[r].client = req[r].client
      /\ req' \in [Requests -> Progress] /\ \A s \in Requests \ {r} : req'[s] = req[s]
  <2>1. req'[r] = [req[r] EXCEPT !.response = "finished", !.emitted = @ \/ ~fastify]
    BY <1>1, <1>2 DEF HttpTypes
  <2>2. /\ req'[r] \in Progress /\ req'[r].emitted = (req[r].emitted \/ ~fastify)
        /\ req'[r].response = "finished"
        /\ req'[r].kind = req[r].kind /\ req'[r].client = req[r].client
    BY <1>1, <2>1 DEF Progress, Responses
  <2> QED BY <1>1, <1>2, <2>2 DEF HttpTypes
<1>5. Steady(r)
  BY <1>1, <1>2, <1>3, <1>4 DEF Steady, HttpTypes, RowsOf
<1>6. CASE ~fastify
  <2>1. req'[r].emitted
    BY <1>4, <1>6
  <2> QED BY <1>2, <1>3, <1>4, <1>5, <1>6, <2>1, InScopeEmission
<1>7. CASE fastify
  <2>1. req'[r].emitted <=> req[r].emitted
    BY <1>4, <1>7
  <2>2. ~Over(r)'
    BY <1>4, <1>7 DEF Over, OnSocket
  <2> QED BY <1>2, <1>5, <1>7, <2>1, <2>2, QuietEmission
<1> QED BY <1>6, <1>7

LEMMA CloseStep ==
  ASSUME HttpInv, NEW r \in Requests, NEW scope \in {r, Boot}, Close(r, scope)
  PROVE  HttpInv'
<1>1. /\ req[r] \in Progress /\ RowsOf(r) /\ HttpTypes /\ (~away => t.client)
      /\ t.client \in BOOLEAN
  BY RequestTypes DEF TrackerOK, Sound, Trackers
<1> DEFINE res == IF req[r].response = "pending" THEN "aborted" ELSE "closed"
           out == req[r].emitted \/ Done(r)
           aborted == req[r].kind = "adonis" \/ req[r].response # "finished"
<1>2. /\ away' = away /\ user' = user /\ first' = first
      /\ req[r].kind \in {"fastify", "express", "adonis"}
      /\ req' = [req EXCEPT ![r].response = res, ![r].emitted = out]
      /\ EmitRootSpan(r, In(scope), aborted)
  BY <1>1 DEF Close, OnSocket, HttpTypes
<1>3. res \in Responses /\ out \in BOOLEAN /\ aborted \in BOOLEAN
  BY <1>1 DEF Progress, Responses, Done
<1> HIDE DEF res, out, aborted
<1>4. /\ req'[r] \in Progress /\ req'[r].emitted = out
      /\ req'[r].kind = req[r].kind /\ req'[r].client = req[r].client
      /\ req' \in [Requests -> Progress] /\ \A s \in Requests \ {r} : req'[s] = req[s]
  <2>1. req'[r] = [req[r] EXCEPT !.response = res, !.emitted = out]
    BY <1>1, <1>2 DEF HttpTypes
  <2>2. /\ req'[r] \in Progress /\ req'[r].emitted = out
        /\ req'[r].kind = req[r].kind /\ req'[r].client = req[r].client
    BY <1>1, <1>3, <2>1 DEF Progress
  <2> QED BY <1>1, <1>2, <2>2 DEF HttpTypes
<1>5. req[r].kind # None
  BY <1>2, NoneAssumption
<1>6. Steady(r)
  BY <1>1, <1>2, <1>4, <1>5 DEF Steady, HttpTypes, RowsOf, out
<1>7. (~away => out) /\ (ClientFor(r) => out)
  BY <1>1 DEF out, Done, ClientFor
<1> QED BY <1>2, <1>3, <1>4, <1>5, <1>6, <1>7, InScopeEmission

LEMMA EndStep ==
  ASSUME HttpInv, NEW r \in Requests, NEW scope \in {r, Boot}, NEW status \in Statuses,
         NEW withError \in BOOLEAN, End(r, scope, status, withError)
  PROVE  HttpInv'
<1>1. /\ req[r] \in Progress /\ RowsOf(r) /\ HttpTypes /\ (~away => t.client)
      /\ Sound(Http, t) /\ first[r] \in Errors \cup {None}
      /\ ~away /\ ~req[r].emitted /\ r \notin t.evicted => EdgeOf(t, first[r], r)
  BY RequestTypes
<1> DEFINE n == req[r].errors
           x == In(scope)
           c == CandidateOf(r, n, 0, scope)
           known == IF withError THEN RecordBoundaryError(x, r, c) ELSE x
           f == IF withError /\ first[r] = None THEN <<r, n>> ELSE first[r]
<1>2. /\ away' = away /\ user' = user
      /\ req[r].kind = "generic" /\ ~req[r].emitted
      /\ req' = [req EXCEPT ![r].emitted = TRUE, ![r].response = "closed", ![r].status = status]
      /\ first' = IF withError /\ first[r] = None THEN [first EXCEPT ![r] = <<r, n>>] ELSE first
  BY DEF End
<1>3. EmitRootSpan(r, known, FALSE)
  <2>1. req'[r].errors = n
    BY <1>1, <1>2 DEF HttpTypes, Progress
  <2> QED BY <2>1 DEF End
<1>4. n \in Nat /\ req[r].kind # None
  BY <1>1, <1>2, NoneAssumption DEF Progress
<1>5. /\ req'[r] \in Progress /\ req'[r].emitted
      /\ req'[r].kind = req[r].kind /\ req'[r].client = req[r].client
      /\ req' \in [Requests -> Progress] /\ \A s \in Requests \ {r} : req'[s] = req[s]
  <2>1. req'[r] = [req[r] EXCEPT !.emitted = TRUE, !.response = "closed", !.status = status]
    BY <1>1, <1>2 DEF HttpTypes
  <2>2. /\ req'[r] \in Progress /\ req'[r].emitted
        /\ req'[r].kind = req[r].kind /\ req'[r].client = req[r].client
    BY <1>1, <2>1 DEF Progress, Responses
  <2> QED BY <1>1, <1>2, <2>2 DEF HttpTypes
<1>6. /\ TrackerOK(x) /\ x.ambient \in {r, Boot, None} /\ x.client = t.client
      /\ x.events = t.events /\ Held(x) = Held(t) /\ x.evicted = t.evicted
      /\ \A y, roots : Follows(Http, x, y, roots) => Follows(Http, t, y, roots)
  BY <1>1, InScope
<1>7. /\ c \in OwnCandidates(r) /\ c.depth = 0 /\ c.error = <<r, n>> /\ c.error \in Errors
      /\ c # None /\ c.error # None
  <2>1. c \in OwnCandidates(r) /\ c.depth = 0 /\ c.error = <<r, n>> /\ c.error \in Errors
    BY <1>1, <1>4, RequestCandidate
  <2> QED BY <2>1, OwnCandidate, NoneAssumption
<1> HIDE DEF x, c, n
<1>8. /\ first' \in [Requests -> Errors \cup {None}] /\ first'[r] = f
      /\ \A s \in Requests \ {r} : first'[s] = first[s]
  BY <1>1, <1>2, <1>7 DEF HttpTypes
<1>9. Steady(r)
  BY <1>1, <1>2, <1>4, <1>5, <1>8 DEF Steady, HttpTypes, RowsOf
<1>10. /\ TrackerOK(known) /\ known.ambient = x.ambient /\ known.client = t.client
       /\ Follows(Http, t, known, {r}) /\ NoEdgeEvents(t, known)
       /\ EdgeOf(t, first[r], r) => EdgeOf(known, f, r)
  <2>1. CASE withError
    <3>1. known = RecordBoundaryError(x, r, c)
      BY <2>1
    <3> HIDE DEF known
    <3>2. /\ TrackerOK(known) /\ known.client = x.client /\ known.ambient = x.ambient
          /\ Follows(Http, x, known, {r})
          /\ Reports(x, known, StaleEvents(Http)) /\ KeepsBoundary(x, known, r, c)
      BY <1>6, <1>7, <3>1, BoundaryErrorOK
    <3>3. NoEdgeEvents(x, known) /\ Sound(Http, x)
      BY <1>6, <3>2, StaleEventsOfSpans, NoEdgeEventsReported DEF TrackerOK
    <3>4. EdgeOf(x, first[r], r) =>
            EdgeOf(known, IF first[r] = None THEN c.error ELSE first[r], r)
      BY <1>7, <3>2, <3>3, EdgeAfterBoundaryError
    <3>5. EdgeOf(t, first[r], r) => EdgeOf(x, first[r], r)
      BY <1>6 DEF EdgeOf
    <3>6. f = IF first[r] = None THEN c.error ELSE first[r]
      BY <1>7, <2>1
    <3> QED BY <1>6, <3>2, <3>3, <3>4, <3>5, <3>6 DEF NoEdgeEvents
  <2>2. CASE ~withError
    <3>1. known = x /\ f = first[r]
      BY <2>2
    <3>2. Follows(Http, t, x, {r})
      BY <1>6, FollowsSelf DEF TrackerOK
    <3>3. NoEdgeEvents(t, x)
      BY <1>6 DEF NoEdgeEvents
    <3> QED BY <1>6, <3>1, <3>2, <3>3 DEF EdgeOf
  <2> QED BY <2>1, <2>2
<1> HIDE DEF known, f
<1>11. ~away /\ ~req[r].emitted /\ r \notin known.evicted => EdgeOf(known, first'[r], r)
  <2>1. t.evicted \subseteq known.evicted
    BY <1>10 DEF Follows
  <2> QED BY <1>1, <1>8, <1>10, <2>1
<1> QED BY <1>3, <1>4, <1>5, <1>6, <1>9, <1>10, <1>11, EmissionStep

LEMMA OtherSteps ==
  ASSUME HttpInv,
         \/ \E scope \in DOMAIN user, u \in DOMAIN user \cup {None} : SetUser(scope, u)
         \/ ClientToggles
         \/ \E n \in 1 .. MaxPendingRoots : TenMinutesPass(n)
         \/ UNCHANGED vars
  PROVE  HttpInv'
<1>1. HttpTypes /\ RowsInv /\ EdgeInv /\ TrackerOK(t) /\ Sound(Http, t)
  BY DEF HttpInv, HttpTypes, TrackerOK
<1>2. \A s : req' = req => (Over(s)' <=> Over(s))
  BY DEF Over, OnSocket
<1>3. ASSUME NEW scope \in DOMAIN user, NEW u \in DOMAIN user \cup {None}, SetUser(scope, u)
      PROVE  HttpInv'
  <2>1. /\ UNCHANGED <<t, req, rows, first, away>>
        /\ u \in {scope, None} /\ user' = [user EXCEPT ![scope] = u]
    BY <1>3 DEF SetUser, Current
  <2>2. /\ user' \in [Requests \cup {Boot} -> Users]
        /\ \A s \in Requests \cup {Boot} : user'[s] \in {s, Boot, None}
    BY <1>1, <2>1 DEF HttpTypes, Users
  <2>3. HttpTypes'
    BY <1>1, <2>1, <2>2 DEF HttpTypes
  <2>4. RowsInv' /\ EdgeInv'
    BY <1>1, <1>2, <2>1 DEF RowsInv, RowsOf, EdgeInv
  <2> QED BY <2>3, <2>4 DEF HttpInv
<1>4. CASE ClientToggles
  <2>1. /\ UNCHANGED <<req, rows, user, first>> /\ away' = TRUE
        /\ t' = [t EXCEPT !.client = ~@]
    BY <1>4 DEF ClientToggles
  <2>2. TrackerOK(t')
    <3>1. t \in Trackers(Http)
      BY <1>1 DEF Sound
    <3>2. /\ t' \in Trackers(Http) /\ t'.events = t.events /\ t'.captured = t.captured
          /\ t'.pending = t.pending /\ t'.closed = t.closed
      BY <2>1, <3>1 DEF Trackers
    <3> QED BY <1>1, <3>2
            DEF TrackerOK, Sound, OwnEvents, OneEventEach, PendingMap, ClosedMap
  <2>3. HttpTypes'
    BY <1>1, <2>1, <2>2 DEF HttpTypes
  <2>4. RowsInv' /\ EdgeInv'
    BY <1>1, <2>1 DEF RowsInv, RowsOf, EdgeInv
  <2> QED BY <2>3, <2>4 DEF HttpInv
<1>5. ASSUME NEW n \in 1 .. MaxPendingRoots, TenMinutesPass(n)
      PROVE  HttpInv'
  <2>1. UNCHANGED <<req, rows, user, first, away>> /\ t' = Age(t, n)
    BY <1>5 DEF TenMinutesPass
  <2>2. /\ Follows(Http, t, t', {}) /\ t'.events = t.events /\ t'.captured = t.captured
        /\ t'.client = t.client
    BY <1>1, <2>1, AgeFollows
  <2>3. TrackerOK(t') /\ t.evicted \subseteq t'.evicted
    BY <1>1, <2>2 DEF TrackerOK, Follows, OwnEvents
  <2>4. HttpTypes'
    BY <1>1, <2>1, <2>3 DEF HttpTypes
  <2>5. RowsInv'
    <3>1. \A r \in Requests : RowsOf(r)'
      BY <1>1, <1>2, <2>1 DEF RowsInv, RowsOf
    <3> QED BY <1>1, <2>1, <2>2, <3>1 DEF RowsInv
  <2>6. ASSUME ~away
        PROVE  /\ \A r \in Requests :
                    /\ ~req[r].emitted /\ r \notin t'.evicted => EdgeOf(t', first[r], r)
                    /\ \A i \in 1 .. Len(rows[r]) : RowAgrees(t', first[r], r, rows[r][i])
               /\ EventsHaveRows(t', rows)
    <3>1. EventsHaveRows(t', rows)
      BY <1>1, <2>2, <2>6 DEF EdgeInv, EventsHaveRows
    <3>2. ASSUME NEW r \in Requests, NEW i \in 1 .. Len(rows[r])
          PROVE  RowAgrees(t', first[r], r, rows[r][i])
      <4>1. RowAgrees(t, first[r], r, rows[r][i])
        BY <1>1, <2>6 DEF EdgeInv
      <4> QED BY <2>2, <2>3, <4>1 DEF RowAgrees
    <3>3. ASSUME NEW r \in Requests, ~req[r].emitted, r \notin t'.evicted
          PROVE  EdgeOf(t', first[r], r)
      <4>1. EdgeOf(t, first[r], r)
        BY <1>1, <2>3, <2>6, <3>3 DEF EdgeInv
      <4> QED BY <2>2, <3>3, <4>1, EdgeStays
    <3> QED BY <3>1, <3>2, <3>3
  <2>7. EdgeInv'
    BY <2>1, <2>6 DEF EdgeInv
  <2> QED BY <2>4, <2>5, <2>7 DEF HttpInv
<1>6. CASE UNCHANGED vars
  <2>1. UNCHANGED <<t, req, rows, user, first, away>>
    BY <1>6 DEF vars
  <2>2. HttpTypes'
    BY <1>1, <2>1 DEF HttpTypes
  <2>3. RowsInv' /\ EdgeInv'
    BY <1>1, <1>2, <2>1 DEF RowsInv, RowsOf, EdgeInv
  <2> QED BY <2>2, <2>3 DEF HttpInv
<1> QED BY <1>3, <1>4, <1>5, <1>6

LEMMA HttpInit == Init => HttpInv
<1> SUFFICES ASSUME Init PROVE HttpInv
  OBVIOUS
<1>1. /\ t = InitTracker /\ away = FALSE /\ req = [r \in Requests |-> NotArrived]
      /\ rows = [r \in Requests |-> <<>>]
      /\ user = [scope \in Requests \cup {Boot} |-> None]
      /\ first = [r \in Requests |-> None]
  BY DEF Init
<1>2. <<>> \in Seq(Rows) /\ Len(<<>>) = 0 /\ 1 .. 0 = {}
  OBVIOUS
<1>3. TrackerOK(t)
  <2>1. t \in Trackers(Http)
    BY <1>1, HttpFields DEF InitTracker, Trackers, Users
  <2>2. /\ t.events = <<>> /\ t.pending = <<>> /\ t.closed = <<>>
    BY <1>1 DEF InitTracker
  <2>3. 0 <= MaxPendingRoots /\ 0 <= MaxClosedRoots
    BY CapsAssumption
  <2> QED BY <1>2, <2>1, <2>2, <2>3
          DEF TrackerOK, Sound, OwnEvents, OneEventEach, PendingMap, ClosedMap
<1>4. HttpTypes
  <2>1. NotArrived \in Progress
    BY DEF NotArrived, Progress, Responses, Statuses
  <2> QED BY <1>1, <1>2, <1>3, <2>1 DEF HttpTypes, Users
<1>5. RowsInv
  <2>1. \A r \in Requests : RowsOf(r)
    BY <1>1, <1>2, NoneAssumption DEF RowsOf, NotArrived, Over, OnSocket
  <2>2. t.client
    BY <1>1 DEF InitTracker
  <2> QED BY <2>1, <2>2 DEF RowsInv
<1>6. EdgeInv
  <2>1. t.events = <<>> /\ t.pending = <<>>
    BY <1>1 DEF InitTracker
  <2>2. Held(t) = {}
    BY <1>2, <2>1 DEF Held
  <2> QED BY <1>1, <1>2, <2>1, <2>2 DEF EdgeInv, EdgeOf, EventsHaveRows
<1> QED BY <1>4, <1>5, <1>6 DEF HttpInv

LEMMA HttpStep == HttpInv /\ [Next]_vars => HttpInv'
<1> SUFFICES ASSUME HttpInv, [Next]_vars PROVE HttpInv'
  OBVIOUS
<1>1. ASSUME NEW r \in Requests, NEW kind \in Kinds, Arrive(r, kind) PROVE HttpInv'
  BY <1>1, ArriveStep
<1>2. ASSUME NEW r \in Requests, SpanFails(r) PROVE HttpInv'
  BY <1>2, SpanFailsStep
<1>3. ASSUME NEW r \in Requests, NEW scope \in {r, Boot}, Finish(r, scope) \/ Close(r, scope)
      PROVE  HttpInv'
  BY <1>3, FinishStep, CloseStep
<1>4. ASSUME NEW r \in Requests, NEW status \in {"ok", "error"},
             HandlerReturns(r, status) \/ Respond(r, status)
      PROVE  HttpInv'
  BY <1>4, HandlerReturnsStep, RespondStep DEF Statuses
<1>5. ASSUME NEW r \in Requests, NEW status \in {"ok", "error"}, NEW b \in BOOLEAN,
             HandlerThrows(r, b, status) \/ \E scope \in {r, Boot} : End(r, scope, status, b)
      PROVE  HttpInv'
  BY <1>5, HandlerThrowsStep, EndStep DEF Statuses
<1>6. CASE \/ \E scope \in DOMAIN user, u \in DOMAIN user \cup {None} : SetUser(scope, u)
           \/ ClientToggles
           \/ \E n \in 1 .. MaxPendingRoots : TenMinutesPass(n)
           \/ UNCHANGED vars
  BY <1>6, OtherSteps
<1> QED BY <1>1, <1>2, <1>3, <1>4, <1>5, <1>6 DEF Next

LEMMA HttpInvariant == Spec => []HttpInv
<1>1. Init => HttpInv
  BY HttpInit
<1>2. HttpInv /\ [Next]_vars => HttpInv'
  BY HttpStep
<1> QED BY <1>1, <1>2, PTL DEF Spec

-----------------------------------------------------------------------------
(* Whatever the integration and however its callbacks interleave, at most  *)
(* one root span row leaves per request, and exactly one once it is over,  *)
(* if there always was a client.                                           *)
THEOREM RootSpansAreUnique == Spec => []OneRootSpan
<1>1. HttpInv => OneRootSpan
  BY DEF HttpInv, RowsInv, RowsOf, OneRootSpan
<1> QED BY <1>1, HttpInvariant, PTL

(* The event of a request names the user of that request, or the one set   *)
(* at boot, in whatever scope the callback that sends it runs; all but the *)
(* events of evicted roots.                                                *)
THEOREM EventsStayWithTheirUser == Spec => []EventsNameOwnUser
<1>1. HttpInv => EventsNameOwnUser
  <2> SUFFICES ASSUME HttpInv PROVE EventsNameOwnUser
    OBVIOUS
  <2>1. OwnEvents(t) /\ DOMAIN t.events = 1 .. Len(t.events)
    BY EventCount DEF HttpInv, HttpTypes, TrackerOK
  <2> QED BY <2>1 DEF EventsNameOwnUser, OwnEvents, Own
<1> QED BY <1>1, HttpInvariant, PTL

(* The row of a request tells the exception that first reached its edge,   *)
(* on a server error and only then; its event has left with the row; and   *)
(* no event of an edge lacks a row that tells the same.                    *)
THEOREM SpansAgreeWithEvents == Spec => []SpanAndEventAgree
<1>1. HttpInv => SpanAndEventAgree
  <2> SUFFICES ASSUME HttpInv, ~away PROVE SpanAndEventAgree
    BY DEF SpanAndEventAgree
  <2>1. EdgeInv /\ HttpTypes /\ DOMAIN t.events = 1 .. Len(t.events)
        /\ t.events \in Seq(Events(Http))
    BY EventCount DEF HttpInv, HttpTypes, TrackerOK
  <2>2. \A r \in Requests : DOMAIN rows[r] = 1 .. Len(rows[r])
    BY <2>1, LenProperties DEF HttpTypes
  <2>3. ASSUME NEW r \in Requests, NEW i \in DOMAIN rows[r]
        PROVE  LET row == rows[r][i]
               IN /\ r \notin t.evicted =>
                       row.error = IF row.status = "error" THEN first[r] ELSE None
                  /\ row.error # None /\ Enabled => row.error \in t.captured
    <3>1. RowAgrees(t, first[r], r, rows[r][i])
      BY <2>1, <2>2 DEF EdgeInv
    <3> QED BY <3>1 DEF RowAgrees
  <2>4. ASSUME NEW i \in DOMAIN t.events, t.events[i].candidate.depth = 0
        PROVE  LET c == t.events[i].candidate
               IN \E j \in DOMAIN rows[c.root] : rows[c.root][j].error = c.error
    <3>1. t.events[i].candidate.root \in Requests
      <4>1. t.events[i] \in Events(Http)
        BY <2>1, ElementOfSeq
      <4> QED BY <4>1, HttpFields DEF Events, OfRequests, Candidates
    <3>2. EventsHaveRows(t, rows)
      BY <2>1 DEF EdgeInv
    <3> QED BY <2>1, <2>2, <2>4, <3>1, <3>2 DEF EventsHaveRows
  <2> QED BY <2>3, <2>4 DEF SpanAndEventAgree
<1> QED BY <1>1, HttpInvariant, PTL
=============================================================================
