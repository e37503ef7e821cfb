------------------------ MODULE ErrorTrackingProofs ------------------------
(***************************************************************************)
(* What the operators of ErrorTracking preserve, for every cap: the facts  *)
(* that the proofs about Tracing and HttpRequests rest on.                 *)
(***************************************************************************)
EXTENDS ErrorTracking, FiniteSetTheorems, SequenceTheorems,
        WellFoundedInduction, TLAPS

-----------------------------------------------------------------------------
(* W says what its user puts in the tracker: the roots, the candidates,    *)
(* which candidate may be the best and which the boundary of which root,   *)
(* and the scopes.                                                         *)
Named(W) == {c.error : c \in W.candidates}

Entries(W) ==
  {e \in [root : W.roots, old : BOOLEAN, best : W.candidates \cup {None},
          boundary : W.candidates \cup {None}] :
     /\ e.best # None => <<e.root, e.best>> \in W.best
     /\ e.boundary # None => <<e.root, e.boundary>> \in W.boundary}

Vias == {"direct", "stale", "late", "complete"}
Events(W) == [candidate : W.candidates, via : Vias, ambient : W.scopes]

Trackers(W) ==
  [client : BOOLEAN, captured : SUBSET Named(W), tracked : SUBSET Named(W),
   pending : Seq(Entries(W)), closed : Seq(W.roots), ambient : W.scopes,
   events : Seq(Events(W)), evicted : SUBSET W.roots]

(* The error of an event is marked as captured, and no two events share it. *)
OneEventEach(x) ==
  /\ \A i \in 1 .. Len(x.events) : x.events[i].candidate.error \in x.captured
  /\ \A i, j \in 1 .. Len(x.events) :
       i # j => x.events[i].candidate.error # x.events[j].candidate.error

(* The Maps hold a root once and respect their caps. *)
PendingMap(x) ==
  /\ \A i, j \in 1 .. Len(x.pending) :
       i # j => x.pending[i].root # x.pending[j].root
  /\ Len(x.pending) <= MaxPendingRoots
ClosedMap(x) ==
  /\ \A i, j \in 1 .. Len(x.closed) : i # j => x.closed[i] # x.closed[j]
  /\ Len(x.closed) <= MaxClosedRoots

Sound(W, x) ==
  x \in Trackers(W) /\ OneEventEach(x) /\ PendingMap(x) /\ ClosedMap(x)

(* From x to y, events of the set New were appended and errors captured. *)
Reports(x, y, New) ==
  /\ Len(x.events) <= Len(y.events)
  /\ \A i \in 1 .. Len(x.events) : y.events[i] = x.events[i]
  /\ \A i \in Len(x.events) + 1 .. Len(y.events) : y.events[i] \in New
  /\ x.captured \subseteq y.captured
  /\ y.client = x.client /\ y.ambient = x.ambient

LEMMA ReportsTwice ==
  ASSUME NEW W, NEW x \in Trackers(W), NEW y \in Trackers(W), NEW z \in Trackers(W),
         NEW New, NEW More, Reports(x, y, New), Reports(y, z, More)
  PROVE  Reports(x, z, New \cup More)
<1>1. Len(x.events) \in Nat /\ Len(y.events) \in Nat /\ Len(z.events) \in Nat
  BY LenProperties DEF Trackers
<1>2. ASSUME NEW i \in Len(x.events) + 1 .. Len(z.events)
      PROVE  z.events[i] \in New \cup More
  <2>1. CASE i <= Len(y.events)
    BY <1>1, <1>2, <2>1 DEF Reports
  <2>2. CASE ~(i <= Len(y.events))
    BY <1>1, <1>2, <2>2 DEF Reports
  <2> QED BY <2>1, <2>2
<1>3. \A i \in 1 .. Len(x.events) : z.events[i] = x.events[i]
  BY <1>1 DEF Reports
<1> QED BY <1>1, <1>2, <1>3 DEF Reports

LEMMA ReportsNothing ==
  ASSUME NEW W, NEW x \in Trackers(W), NEW y, NEW New, y.events = x.events,
         y.captured = x.captured, y.client = x.client, y.ambient = x.ambient
  PROVE  Reports(x, y, New)
<1>1. Len(x.events) \in Nat
  BY LenProperties DEF Trackers
<1> QED BY <1>1 DEF Reports

-----------------------------------------------------------------------------
(* What enqueueError() and its callers do: nothing, or mark the error of   *)
(* one candidate that was not captured before and hand it to the client.   *)
EventOf(x, c, via) == [candidate |-> c, via |-> via, ambient |-> x.ambient]

LEMMA EnqueueErrorSound ==
  ASSUME NEW W, NEW x, Sound(W, x), NEW c \in W.candidates, NEW via \in Vias,
         c.error \notin x.captured
  PROVE  LET y == EnqueueError(x, c, via) IN
         /\ Sound(W, y) /\ Reports(x, y, {EventOf(x, c, via)})
         /\ y.pending = x.pending /\ y.closed = x.closed
         /\ y.tracked = x.tracked /\ y.evicted = x.evicted
         /\ x.client => c.error \in y.captured
<1> DEFINE e == EventOf(x, c, via)
           events == Append(x.events, e)
           captured == x.captured \cup {c.error}
           y == [x EXCEPT !.captured = captured, !.events = events]
<1>1. x \in Trackers(W) /\ OneEventEach(x) /\ PendingMap(x) /\ ClosedMap(x)
  BY DEF Sound
<1>2. CASE ~x.client
  <2>1. EnqueueError(x, c, via) = x
    BY <1>2 DEF EnqueueError
  <2>2. Reports(x, x, {EventOf(x, c, via)})
    BY <1>1, ReportsNothing
  <2> QED BY <1>2, <2>1, <2>2
<1>3. CASE x.client
  <2>1. EnqueueError(x, c, via) = y
    BY <1>1, <1>3 DEF EnqueueError, Enqueue, EventOf, Trackers
  <2>2. x.events \in Seq(Events(W)) /\ e \in Events(W) /\ e.candidate = c
    BY <1>1 DEF Trackers, Events, EventOf
  <2>3. /\ Len(x.events) \in Nat /\ events \in Seq(Events(W))
        /\ Len(events) = Len(x.events) + 1
        /\ \A i \in 1 .. Len(x.events) : events[i] = x.events[i]
        /\ events[Len(x.events) + 1] = e
    BY <2>2, AppendProperties, LenProperties
  <2> HIDE DEF events, e
  <2>4. captured \subseteq Named(W) /\ c.error \in captured
        /\ x.captured \subseteq captured
    BY <1>1 DEF Trackers, Named
  <2> HIDE DEF captured
  <2>5. /\ y \in Trackers(W) /\ y.events = events /\ y.captured = captured
        /\ y.pending = x.pending /\ y.closed = x.closed
        /\ y.tracked = x.tracked /\ y.evicted = x.evicted
        /\ y.client = x.client /\ y.ambient = x.ambient
    BY <1>1, <2>3, <2>4 DEF Trackers
  <2> HIDE DEF y
  <2>6. OneEventEach(y)
    <3>1. ASSUME NEW i \in 1 .. Len(events)
          PROVE  \/ i \in 1 .. Len(x.events) /\ events[i] = x.events[i]
                                             /\ events[i].candidate.error \in x.captured
                 \/ i = Len(x.events) + 1 /\ events[i].candidate = c
      BY <1>1, <2>2, <2>3, <3>1 DEF OneEventEach
    <3>2. \A i \in 1 .. Len(events) : events[i].candidate.error \in captured
      BY <2>4, <3>1
    <3>3. \A i, j \in 1 .. Len(events) :
            i # j => events[i].candidate.error # events[j].candidate.error
      BY <1>1, <3>1 DEF OneEventEach
    <3> QED BY <2>5, <3>2, <3>3 DEF OneEventEach
  <2>7. PendingMap(y) /\ ClosedMap(y)
    BY <1>1, <2>5 DEF PendingMap, ClosedMap
  <2>8. Reports(x, y, {e})
    BY <2>3, <2>4, <2>5 DEF Reports
  <2> QED BY <2>1, <2>4, <2>5, <2>6, <2>7, <2>8 DEF Sound, e
<1> QED BY <1>2, <1>3

(* Whatever is sent or not. *)
Sent(x, y, c, via) ==
  \/ y = x
  \/ c.error \notin x.captured /\ y = EnqueueError(x, c, via)

LEMMA SentSound ==
  ASSUME NEW W, NEW x, Sound(W, x), NEW c \in W.candidates, NEW via \in Vias,
         NEW y, Sent(x, y, c, via)
  PROVE  /\ Sound(W, y) /\ Reports(x, y, {EventOf(x, c, via)})
         /\ y.pending = x.pending /\ y.closed = x.closed
         /\ y.tracked = x.tracked /\ y.evicted = x.evicted
<1>1. CASE y = x
  BY <1>1, ReportsNothing DEF Sound
<1>2. CASE y # x
  BY <1>2, EnqueueErrorSound DEF Sent
<1> QED BY <1>1, <1>2

LEMMA EmitSends ==
  ASSUME NEW W, NEW x, Sound(W, x), NEW c \in W.candidates, NEW via \in Vias
  PROVE  /\ Sent(x, Emit(x, c, via), c, via)
         /\ x.client /\ Tracking(x) => c.error \in Emit(x, c, via).captured
<1>1. x.client /\ c.error \notin x.captured =>
        c.error \in EnqueueError(x, c, via).captured
  BY EnqueueErrorSound
<1> QED BY <1>1 DEF Emit, Sent

LEMMA CaptureErrorOnceSends ==
  ASSUME NEW x, NEW c
  PROVE  Sent(x, CaptureErrorOnce(x, c), c, "direct")
BY DEF CaptureErrorOnce, Sent

LEMMA CaptureUntrackedErrorSends ==
  ASSUME NEW x, NEW c
  PROVE  Sent(x, CaptureUntrackedError(x, c), c, "direct")
BY DEF CaptureUntrackedError, CaptureErrorOnce, Sent

-----------------------------------------------------------------------------
(* Map.delete(): one entry leaves, the others keep their order. *)
LEMMA RemoveAtProperties ==
  ASSUME NEW S, NEW s \in Seq(S), NEW p \in 1 .. Len(s)
  PROVE  /\ RemoveAt(s, p) \in Seq(S) /\ Len(RemoveAt(s, p)) = Len(s) - 1
         /\ \A j \in 1 .. Len(s) - 1 :
              RemoveAt(s, p)[j] = IF j < p THEN s[j] ELSE s[j + 1]
<1> DEFINE front == SubSeq(s, 1, p - 1)
           back == SubSeq(s, p + 1, Len(s))
<1>1. Len(s) \in Nat /\ p \in Nat /\ 1 <= p /\ p <= Len(s)
  BY LenProperties
<1>2. \A i \in 1 .. Len(s) : s[i] \in S
  BY ElementOfSeq
<1>3. /\ front \in Seq(S) /\ Len(front) = p - 1
      /\ \A i \in 1 .. p - 1 : front[i] = s[i]
  <2>1. \A i \in 1 .. p - 1 : s[i] \in S
    BY <1>1, <1>2
  <2>2. /\ SubSeq(s, 1, p - 1) \in Seq(S)
        /\ Len(SubSeq(s, 1, p - 1)) = IF 1 <= p - 1 THEN (p - 1) - 1 + 1 ELSE 0
        /\ \A i \in 1 .. (p - 1) - 1 + 1 : SubSeq(s, 1, p - 1)[i] = s[1 + i - 1]
    BY <1>1, <2>1, SubSeqProperties
  <2> QED BY <1>1, <2>2
<1>4. /\ back \in Seq(S) /\ Len(back) = Len(s) - p
      /\ \A i \in 1 .. Len(s) - p : back[i] = s[p + i]
  <2>1. \A i \in p + 1 .. Len(s) : s[i] \in S
    BY <1>1, <1>2
  <2>2. /\ SubSeq(s, p + 1, Len(s)) \in Seq(S)
        /\ Len(SubSeq(s, p + 1, Len(s))) =
             IF p + 1 <= Len(s) THEN Len(s) - (p + 1) + 1 ELSE 0
        /\ \A i \in 1 .. Len(s) - (p + 1) + 1 :
             SubSeq(s, p + 1, Len(s))[i] = s[(p + 1) + i - 1]
    BY <1>1, <2>1, SubSeqProperties
  <2> QED BY <1>1, <2>2
<1> HIDE DEF front, back
<1>5. /\ front \o back \in Seq(S) /\ Len(front \o back) = (p - 1) + (Len(s) - p)
      /\ \A i \in 1 .. (p - 1) + (Len(s) - p) : (front \o back)[i] =
           IF i <= p - 1 THEN front[i] ELSE back[i - (p - 1)]
  <2>1. /\ front \o back \in Seq(S) /\ Len(front \o back) = Len(front) + Len(back)
        /\ \A i \in 1 .. Len(front) + Len(back) : (front \o back)[i] =
             IF i <= Len(front) THEN front[i] ELSE back[i - Len(front)]
    BY <1>3, <1>4, ConcatProperties
  <2> QED BY <1>3, <1>4, <2>1
<1>6. RemoveAt(s, p) = front \o back
  BY DEF RemoveAt, front, back
<1>7. ASSUME NEW j \in 1 .. Len(s) - 1
      PROVE  (front \o back)[j] = IF j < p THEN s[j] ELSE s[j + 1]
  <2>1. CASE j < p
    BY <1>1, <1>3, <1>5, <2>1
  <2>2. CASE ~(j < p)
    <3>1. j - (p - 1) \in 1 .. Len(s) - p /\ p + (j - (p - 1)) = j + 1
      BY <1>1, <2>2
    <3>2. back[j - (p - 1)] = s[j + 1]
      BY <1>4, <3>1
    <3> QED BY <1>1, <1>5, <2>2, <3>2
  <2> QED BY <2>1, <2>2
<1>8. (p - 1) + (Len(s) - p) = Len(s) - 1
  BY <1>1
<1> QED BY <1>5, <1>6, <1>7, <1>8

(* Where the entries of a sequence are once one of them has left. *)
LEMMA RemoveAtKeeps ==
  ASSUME NEW S, NEW s \in Seq(S), NEW p \in 1 .. Len(s)
  PROVE  /\ \A j \in 1 .. Len(s) - 1 :
              \E i \in 1 .. Len(s) : i # p /\ RemoveAt(s, p)[j] = s[i]
                                     /\ (i = j \/ i = j + 1) /\ (i = j => j < p)
                                     /\ (i = j + 1 => j >= p)
         /\ \A i \in 1 .. Len(s) :
              i # p => \E j \in 1 .. Len(s) - 1 : RemoveAt(s, p)[j] = s[i]
<1>1. Len(s) \in Nat /\ p \in Nat /\ 1 <= p /\ p <= Len(s)
  BY LenProperties
<1>2. \A j \in 1 .. Len(s) - 1 :
        RemoveAt(s, p)[j] = IF j < p THEN s[j] ELSE s[j + 1]
  BY RemoveAtProperties
<1>3. ASSUME NEW j \in 1 .. Len(s) - 1
      PROVE  \E i \in 1 .. Len(s) : i # p /\ RemoveAt(s, p)[j] = s[i]
                                     /\ (i = j \/ i = j + 1) /\ (i = j => j < p)
                                     /\ (i = j + 1 => j >= p)
  <2>1. CASE j < p
    BY <1>1, <1>2, <2>1
  <2>2. CASE ~(j < p)
    BY <1>1, <1>2, <2>2
  <2> QED BY <2>1, <2>2
<1>4. ASSUME NEW i \in 1 .. Len(s), i # p
      PROVE  \E j \in 1 .. Len(s) - 1 : RemoveAt(s, p)[j] = s[i]
  <2>1. CASE i < p
    BY <1>1, <1>2, <2>1
  <2>2. CASE ~(i < p)
    <3>1. i - 1 \in 1 .. Len(s) - 1 /\ ~(i - 1 < p) /\ (i - 1) + 1 = i
      BY <1>1, <1>4, <2>2
    <3> QED BY <1>2, <3>1
  <2> QED BY <2>1, <2>2
<1> QED BY <1>3, <1>4

(* No two entries the same: so it is after one left. *)
LEMMA RemoveAtDistinct ==
  ASSUME NEW S, NEW s \in Seq(S), NEW p \in 1 .. Len(s), NEW i \in 1 .. Len(s) - 1,
         NEW j \in 1 .. Len(s) - 1, i # j
  PROVE  \E k, l \in 1 .. Len(s) :
           k # l /\ RemoveAt(s, p)[i] = s[k] /\ RemoveAt(s, p)[j] = s[l]
<1>1. Len(s) \in Nat
  BY LenProperties
<1>2. PICK k \in 1 .. Len(s) : RemoveAt(s, p)[i] = s[k] /\ (k = i \/ k = i + 1)
                               /\ (k = i => i < p) /\ (k = i + 1 => i >= p)
  BY RemoveAtKeeps
<1>3. PICK l \in 1 .. Len(s) : RemoveAt(s, p)[j] = s[l] /\ (l = j \/ l = j + 1)
                               /\ (l = j => j < p) /\ (l = j + 1 => j >= p)
  BY RemoveAtKeeps
<1>4. k # l
  BY <1>1, <1>2, <1>3
<1> QED BY <1>2, <1>3, <1>4

-----------------------------------------------------------------------------
(* The first and the last position of an entry. *)
LEMMA LeastNatural ==
  ASSUME NEW T \in SUBSET Nat, T # {}
  PROVE  \E n \in T : \A m \in T : n <= m
<1>1. \E n \in T : \A m \in T : <<m, n>> \notin OpToRel(<, Nat)
  BY NatLessThanWellFounded, WFMin
<1>2. ASSUME NEW m \in Nat, NEW n \in Nat, <<m, n>> \notin OpToRel(<, Nat)
      PROVE  n <= m
  <2>1. ~(m < n)
    BY <1>2 DEF OpToRel
  <2> QED BY <2>1
<1> QED BY <1>1, <1>2

LEMMA GreatestBelow ==
  ASSUME NEW n \in Nat, NEW T \in SUBSET (1 .. n), T # {}
  PROVE  \E k \in T : \A m \in T : m <= k
<1> DEFINE gaps == {n - m : m \in T}
<1>1. gaps \in SUBSET Nat /\ gaps # {}
  <2>1. \A m \in T : n - m \in Nat
    OBVIOUS
  <2> QED BY <2>1
<1>2. PICK g \in gaps : \A h \in gaps : g <= h
  BY <1>1, LeastNatural
<1>3. PICK k \in T : g = n - k
  BY <1>2
<1>4. ASSUME NEW m \in T PROVE m <= k
  <2>1. n - m \in gaps
    OBVIOUS
  <2>2. n - k <= n - m
    BY <1>2, <1>3, <2>1
  <2> QED BY <2>2
<1> QED BY <1>4

LEMMA FirstPosition ==
  ASSUME NEW s, Len(s) \in Nat, NEW e
  PROVE  LET p == SelectInSeq(s, LAMBDA v : v = e) IN
         /\ (\E i \in 1 .. Len(s) : s[i] = e) => p \in 1 .. Len(s) /\ s[p] = e
         /\ ~(\E i \in 1 .. Len(s) : s[i] = e) => p = 0
<1> DEFINE I == {i \in 1 .. Len(s) : s[i] = e}
<1>1. SelectInSeq(s, LAMBDA v : v = e) = IF I # {} THEN Min(I) ELSE 0
  BY DEF SelectInSeq
<1>2. ASSUME I # {} PROVE Min(I) \in I
  <2>1. \E n \in I : \A m \in I : n <= m
    <3>1. I \in SUBSET Nat
      OBVIOUS
    <3> HIDE DEF I
    <3> QED BY <1>2, <3>1, LeastNatural
  <2> QED BY <2>1 DEF Min
<1> QED BY <1>1, <1>2

LEMMA LastPosition ==
  ASSUME NEW s, Len(s) \in Nat, NEW e, \E i \in 1 .. Len(s) : s[i] = e
  PROVE  LET p == SelectLastInSeq(s, LAMBDA v : v = e) IN
         /\ p \in 1 .. Len(s) /\ s[p] = e
         /\ \A i \in 1 .. Len(s) : s[i] = e => i <= p
<1> DEFINE I == {i \in 1 .. Len(s) : s[i] = e}
<1>1. SelectLastInSeq(s, LAMBDA v : v = e) = IF I # {} THEN Max(I) ELSE 0
  BY DEF SelectLastInSeq
<1>2. I # {}
  OBVIOUS
<1>3. Max(I) \in I /\ \A i \in I : i <= Max(I)
  <2>1. \E n \in I : \A m \in I : m <= n
    BY <1>2, GreatestBelow
  <2> QED BY <2>1 DEF Max
<1> QED BY <1>1, <1>2, <1>3

-----------------------------------------------------------------------------
(* closed: the root is the youngest, and there never are too many. *)
LEMMA MarkClosedSound ==
  ASSUME NEW W, NEW x, Sound(W, x), NEW root \in W.roots
  PROVE  LET y == MarkClosed(x, root) IN
         /\ Sound(W, y) /\ y.events = x.events /\ y.captured = x.captured
         /\ y.client = x.client /\ y.ambient = x.ambient
         /\ y.pending = x.pending /\ y.tracked = x.tracked /\ y.evicted = x.evicted
         /\ root \in ClosedRoots(y)
         /\ ClosedRoots(y) \subseteq ClosedRoots(x) \cup {root}
<1> DEFINE s == x.closed
           others == RemoveFirst(s, root)
           marked == Append(others, root)
           closed == IF Len(marked) > MaxClosedRoots THEN Tail(marked) ELSE marked
           y == [x EXCEPT !.closed = closed]
<1>1. /\ x \in Trackers(W) /\ OneEventEach(x) /\ PendingMap(x)
      /\ s \in Seq(W.roots) /\ Len(s) \in Nat /\ Len(s) <= MaxClosedRoots
      /\ \A i, j \in 1 .. Len(s) : i # j => s[i] # s[j]
  <2>1. s \in Seq(W.roots)
    BY DEF Sound, Trackers
  <2> QED BY <2>1, LenProperties DEF Sound, ClosedMap
<1>2. MaxClosedRoots \in Nat \ {0}
  BY CapsAssumption
<1>3. /\ others \in Seq(W.roots) /\ Len(others) \in Nat /\ Len(others) <= Len(s)
      /\ \A i, j \in 1 .. Len(others) : i # j => others[i] # others[j]
      /\ \A i \in 1 .. Len(others) : others[i] # root
      /\ \A i \in 1 .. Len(others) : \E k \in 1 .. Len(s) : others[i] = s[k]
  <2>1. CASE \E i \in 1 .. Len(s) : s[i] = root
    <3> DEFINE p == SelectInSeq(s, LAMBDA v : v = root)
    <3>1. p \in 1 .. Len(s) /\ s[p] = root
      BY <1>1, <2>1, FirstPosition
    <3>2. others = RemoveAt(s, p)
      BY <2>1 DEF RemoveFirst
    <3> HIDE DEF s, others, p
    <3>3. /\ others \in Seq(W.roots) /\ Len(others) = Len(s) - 1
          /\ \A j \in 1 .. Len(s) - 1 :
               \E i \in 1 .. Len(s) : i # p /\ others[j] = s[i]
      <4>1. s \in Seq(W.roots)
        BY <1>1
      <4>2. RemoveAt(s, p) \in Seq(W.roots) /\ Len(RemoveAt(s, p)) = Len(s) - 1
        BY <3>1, <4>1, RemoveAtProperties
      <4>3. \A j \in 1 .. Len(s) - 1 :
              \E i \in 1 .. Len(s) : i # p /\ RemoveAt(s, p)[j] = s[i]
        <5>1. \A j \in 1 .. Len(s) - 1 :
                \E i \in 1 .. Len(s) : i # p /\ RemoveAt(s, p)[j] = s[i]
                                       /\ (i = j \/ i = j + 1) /\ (i = j => j < p)
                                       /\ (i = j + 1 => j >= p)
          BY <3>1, <4>1, RemoveAtKeeps, Zenon
        <5> QED BY <5>1
      <4> QED BY <3>2, <4>2, <4>3
    <3>4. \A i, j \in 1 .. Len(s) - 1 : i # j =>
            \E k, l \in 1 .. Len(s) : k # l /\ others[i] = s[k] /\ others[j] = s[l]
      <4>1. s \in Seq(W.roots)
        BY <1>1
      <4>2. \A i, j \in 1 .. Len(s) - 1 : i # j =>
              \E k, l \in 1 .. Len(s) : k # l /\ RemoveAt(s, p)[i] = s[k]
                                               /\ RemoveAt(s, p)[j] = s[l]
        BY <3>1, <4>1, RemoveAtDistinct
      <4> QED BY <3>2, <4>2
    <3>5. \A i, j \in 1 .. Len(others) : i # j => others[i] # others[j]
      BY <1>1, <3>3, <3>4
    <3>6. \A i \in 1 .. Len(others) : others[i] # root
      BY <1>1, <3>1, <3>3
    <3> QED BY <1>1, <3>1, <3>3, <3>5, <3>6
  <2>2. CASE ~(\E i \in 1 .. Len(s) : s[i] = root)
    <3>1. others = s
      BY <2>2 DEF RemoveFirst
    <3> HIDE DEF s, others
    <3> QED BY <1>1, <2>2, <3>1
  <2> QED BY <2>1, <2>2
<1> HIDE DEF others
<1>4. /\ marked \in Seq(W.roots) /\ marked # <<>> /\ Len(marked) = Len(others) + 1
      /\ \A i \in 1 .. Len(others) : marked[i] = others[i]
      /\ marked[Len(others) + 1] = root
  BY <1>3, AppendProperties
<1> HIDE DEF marked
<1>5. \A i, j \in 1 .. Len(marked) : i # j => marked[i] # marked[j]
  <2> SUFFICES ASSUME NEW i \in 1 .. Len(marked), NEW j \in 1 .. Len(marked), i # j
               PROVE  marked[i] # marked[j]
    OBVIOUS
  <2>1. CASE i \in 1 .. Len(others) /\ j \in 1 .. Len(others)
    BY <1>3, <1>4, <2>1
  <2>2. CASE i = Len(others) + 1 /\ j \in 1 .. Len(others)
    BY <1>3, <1>4, <2>2
  <2>3. CASE j = Len(others) + 1 /\ i \in 1 .. Len(others)
    BY <1>3, <1>4, <2>3
  <2> QED BY <1>3, <1>4, <2>1, <2>2, <2>3
<1>6. \A i \in 1 .. Len(marked) : marked[i] = root \/ \E k \in 1 .. Len(s) : marked[i] = s[k]
  BY <1>3, <1>4
<1>7. /\ closed \in Seq(W.roots) /\ Len(closed) \in Nat /\ Len(closed) <= MaxClosedRoots
      /\ \A i, j \in 1 .. Len(closed) : i # j => closed[i] # closed[j]
      /\ \E i \in 1 .. Len(closed) : closed[i] = root
      /\ \A i \in 1 .. Len(closed) : \E k \in 1 .. Len(marked) : closed[i] = marked[k]
  <2>1. CASE Len(marked) > MaxClosedRoots
    <3>1. closed = Tail(marked)
      BY <2>1
    <3> HIDE DEF closed
    <3>2. /\ closed \in Seq(W.roots) /\ Len(closed) = Len(marked) - 1
          /\ \A i \in 1 .. Len(closed) : closed[i] = marked[i + 1]
      BY <1>4, <3>1, HeadTailProperties
    <3>3. /\ Len(closed) \in Nat /\ Len(closed) = Len(others)
          /\ Len(closed) \in 1 .. Len(closed)
      BY <1>2, <1>3, <1>4, <2>1, <3>2
    <3>4. closed[Len(closed)] = root
      BY <1>4, <3>2, <3>3
    <3>5. \A i \in 1 .. Len(closed) : i + 1 \in 1 .. Len(marked)
      BY <1>3, <1>4, <3>3
    <3>6. \A i, j \in 1 .. Len(closed) : i # j => closed[i] # closed[j]
      <4> TAKE i, j \in 1 .. Len(closed)
      <4>1. i # j => i + 1 # j + 1
        BY <3>3
      <4> QED BY <1>5, <3>2, <3>5, <4>1
    <3>7. \A i \in 1 .. Len(closed) : \E k \in 1 .. Len(marked) : closed[i] = marked[k]
      BY <3>2, <3>5
    <3>8. Len(closed) <= MaxClosedRoots
      BY <1>1, <1>2, <1>3, <3>3
    <3>9. \E i \in 1 .. Len(closed) : closed[i] = root
      BY <3>3, <3>4
    <3> QED BY <3>2, <3>3, <3>6, <3>7, <3>8, <3>9
  <2>2. CASE ~(Len(marked) > MaxClosedRoots)
    <3>1. closed = marked
      BY <2>2
    <3> HIDE DEF closed
    <3>2. Len(marked) \in Nat /\ Len(marked) <= MaxClosedRoots
          /\ Len(others) + 1 \in 1 .. Len(marked)
      BY <1>2, <1>3, <1>4, <2>2
    <3> QED BY <1>4, <1>5, <3>1, <3>2
  <2> QED BY <2>1, <2>2
<1>8. MarkClosed(x, root) = y
  BY DEF MarkClosed, marked, others
<1> HIDE DEF closed
<1>9. /\ y \in Trackers(W) /\ y.closed = closed
      /\ y.events = x.events /\ y.captured = x.captured
      /\ y.client = x.client /\ y.ambient = x.ambient
      /\ y.pending = x.pending /\ y.tracked = x.tracked /\ y.evicted = x.evicted
  BY <1>1, <1>7 DEF Trackers
<1> HIDE DEF y
<1>10. Sound(W, y)
  BY <1>1, <1>7, <1>9 DEF Sound, OneEventEach, PendingMap, ClosedMap
<1>11. DOMAIN closed = 1 .. Len(closed) /\ DOMAIN s = 1 .. Len(s)
  BY <1>1, <1>7, LenProperties
<1>12. root \in ClosedRoots(y)
  BY <1>7, <1>9, <1>11 DEF ClosedRoots, ToSet
<1>13. ClosedRoots(y) \subseteq ClosedRoots(x) \cup {root}
  <2> SUFFICES ASSUME NEW i \in 1 .. Len(closed) PROVE closed[i] \in ClosedRoots(x) \cup {root}
    BY <1>9, <1>11 DEF ClosedRoots, ToSet
  <2>1. closed[i] = root \/ \E k \in 1 .. Len(s) : closed[i] = s[k]
    BY <1>6, <1>7
  <2> QED BY <1>11, <2>1 DEF ClosedRoots, ToSet
<1> QED BY <1>8, <1>9, <1>10, <1>12, <1>13

-----------------------------------------------------------------------------
(* flushStale(): the entries leave from the oldest on, and the loop ends.  *)
LEMMA SetInduction ==
  ASSUME NEW T, 0 \in T, \A n \in Nat : n \in T => n + 1 \in T
  PROVE  \A n \in Nat : n \in T
<1> DEFINE U == {n \in Nat : n \notin T}
<1> SUFFICES ASSUME U # {} PROVE FALSE
  OBVIOUS
<1>1. PICK n \in U : \A m \in U : n <= m
  <2>1. U \in SUBSET Nat
    OBVIOUS
  <2> HIDE DEF U
  <2> QED BY <2>1, LeastNatural
<1>2. n # 0 /\ n \in Nat
  OBVIOUS
<1>3. n - 1 \in Nat /\ ~(n <= n - 1) /\ (n - 1) + 1 = n
  BY <1>2
<1>4. n - 1 \in T
  BY <1>1, <1>3
<1>5. n \in T
  BY <1>3, <1>4
<1> QED BY <1>5

Evictions(g, x, s, n) ==
  g = [i \in 0 .. n |-> IF i = 0 THEN x ELSE Evict(g[i - 1], s[i])]

LEMMA EvictionsExist ==
  ASSUME NEW x, NEW s, NEW n \in Nat
  PROVE  \E g : Evictions(g, x, s, n)
<1> DEFINE T == {m \in Nat : \E g :
                   g = [i \in 0 .. m |-> IF i = 0 THEN x ELSE Evict(g[i - 1], s[i])]}
<1>1. 0 \in T
  <2> DEFINE g == [i \in 0 .. 0 |-> x]
  <2>1. g = [i \in 0 .. 0 |-> IF i = 0 THEN x ELSE Evict(g[i - 1], s[i])]
    OBVIOUS
  <2> QED BY <2>1
<1>2. ASSUME NEW m \in Nat, m \in T PROVE m + 1 \in T
  <2>1. PICK g : g = [i \in 0 .. m |-> IF i = 0 THEN x ELSE Evict(g[i - 1], s[i])]
    BY <1>2
  <2> DEFINE h == [i \in 0 .. m + 1 |-> IF i = m + 1 THEN Evict(g[m], s[m + 1]) ELSE g[i]]
             step(i) == IF i = 0 THEN x ELSE Evict(h[i - 1], s[i])
  <2>2. ASSUME NEW i \in 0 .. m + 1 PROVE h[i] = step(i)
    <3>1. CASE i = m + 1
      <4>1. i - 1 = m /\ m \in 0 .. m + 1 /\ m # m + 1 /\ i # 0
        BY <3>1
      <4>2. h[m] = g[m] /\ h[i] = Evict(g[m], s[m + 1])
        BY <3>1, <4>1
      <4> HIDE DEF h
      <4> QED BY <3>1, <4>1, <4>2
    <3>2. CASE i # m + 1
      <4>1. i \in 0 .. m
        BY <3>2
      <4>2. h[i] = g[i]
        BY <3>2
      <4>3. g[i] = IF i = 0 THEN x ELSE Evict(g[i - 1], s[i])
        BY <2>1, <4>1
      <4>4. i # 0 => h[i - 1] = g[i - 1]
        BY <4>1
      <4> HIDE DEF h
      <4> QED BY <4>2, <4>3, <4>4
    <3> QED BY <3>1, <3>2
  <2>3. h = [i \in 0 .. m + 1 |-> step(i)]
    <3>1. h = [i \in 0 .. m + 1 |-> h[i]]
      OBVIOUS
    <3> HIDE DEF h
    <3> QED BY <2>2, <3>1
  <2> HIDE DEF h
  <2> QED BY <2>3
<1> HIDE DEF T
<1>3. n \in T
  BY <1>1, <1>2, SetInduction
<1> QED BY <1>3 DEF T, Evictions

(* The entries to evict are the first ones, and leave room for one. *)
LEMMA StaleIsPrefix ==
  ASSUME NEW S, NEW s \in Seq(S), Len(s) <= MaxPendingRoots
  PROVE  /\ Cardinality(Stale(s)) \in 0 .. Len(s)
         /\ Len(s) - Cardinality(Stale(s)) < MaxPendingRoots
<1>1. Len(s) \in Nat /\ MaxPendingRoots \in Nat \ {0} /\ DOMAIN s = 1 .. Len(s)
  BY CapsAssumption, LenProperties
<1>2. Stale(s) \in SUBSET (1 .. Len(s))
  BY <1>1 DEF Stale
<1>3. CASE Stale(s) = {}
  <2>1. Cardinality(Stale(s)) = 0
    BY <1>3, FS_EmptySet
  <2>2. ~(Len(s) >= MaxPendingRoots)
    <3> SUFFICES ASSUME Len(s) >= MaxPendingRoots PROVE 1 \in Stale(s)
      BY <1>3
    <3>1. 1 \in 1 .. Len(s)
      BY <1>1
    <3>2. \A j \in 1 .. 1 : Len(s) - j + 1 >= MaxPendingRoots
      BY <1>1
    <3> QED BY <1>1, <3>1, <3>2 DEF Stale
  <2> QED BY <1>1, <2>1, <2>2
<1>4. CASE Stale(s) # {}
  <2>1. PICK k \in Stale(s) : \A m \in Stale(s) : m <= k
    BY <1>1, <1>2, <1>4, GreatestBelow
  <2>2. k \in 1 .. Len(s)
    BY <1>2
  <2>3. ASSUME NEW i \in 1 .. k PROVE i \in Stale(s)
    <3>1. \A j \in 1 .. k : s[j].old \/ Len(s) - j + 1 >= MaxPendingRoots
      BY <2>1 DEF Stale
    <3>2. \A j \in 1 .. i : j \in 1 .. k
      BY <1>1, <2>2
    <3>3. i \in 1 .. Len(s)
      BY <1>1, <2>2
    <3> QED BY <1>1, <3>1, <3>2, <3>3 DEF Stale
  <2>4. Stale(s) = 1 .. k
    <3>1. \A m \in Stale(s) : m \in 1 .. k
      BY <1>2, <2>1, <2>2
    <3> QED BY <2>3, <3>1
  <2>5. Cardinality(1 .. k) = k
    <3>1. 1 \in Int /\ k \in Int /\ k >= 1
      BY <2>2
    <3>2. Cardinality(1 .. k) = IF 1 > k THEN 0 ELSE k - 1 + 1
      BY <3>1, FS_Interval
    <3> QED BY <3>1, <3>2
  <2> QED BY <1>1, <2>2, <2>4, <2>5
<1> QED BY <1>3, <1>4

-----------------------------------------------------------------------------
(* An entry that is evicted is closed, and its best candidate is sent. *)
StaleEvents(W) ==
  {e \in Events(W) : e.via = "stale" /\ \E r \in W.roots : <<r, e.candidate>> \in W.best}

LEMMA PendingEntries ==
  ASSUME NEW W, NEW x, Sound(W, x)
  PROVE  /\ x.pending \in Seq(Entries(W)) /\ Len(x.pending) \in Nat
         /\ DOMAIN x.pending = 1 .. Len(x.pending)
         /\ \A i \in 1 .. Len(x.pending) : x.pending[i] \in Entries(W)
         /\ \A i, j \in 1 .. Len(x.pending) :
              x.pending[i].root = x.pending[j].root => i = j
         /\ Len(x.pending) <= MaxPendingRoots
<1>1. x.pending \in Seq(Entries(W)) /\ PendingMap(x)
  BY DEF Sound, Trackers
<1>2. /\ Len(x.pending) \in Nat /\ DOMAIN x.pending = 1 .. Len(x.pending)
      /\ \A i \in 1 .. Len(x.pending) : x.pending[i] \in Entries(W)
  BY <1>1, LenProperties, ElementOfSeq
<1> QED BY <1>1, <1>2 DEF PendingMap

LEMMA EvictSound ==
  ASSUME NEW W, NEW x, Sound(W, x), 0 < Len(x.pending)
  PROVE  LET entry == x.pending[1]
             y == Evict(x, entry)
         IN /\ Sound(W, y) /\ Reports(x, y, StaleEvents(W))
            /\ y.pending = Tail(x.pending) /\ y.tracked = x.tracked
            /\ y.evicted = x.evicted \cup {entry.root}
            /\ ClosedRoots(y) \subseteq ClosedRoots(x) \cup {entry.root}
            /\ entry.best # None /\ x.client /\ Enabled => entry.best.error \in y.captured
<1> DEFINE entry == x.pending[1]
           rest == Tail(x.pending)
           evicted == x.evicted \cup {entry.root}
           less == [x EXCEPT !.pending = rest, !.evicted = evicted]
           closed == MarkClosed(less, entry.root)
           y == Evict(x, entry)
<1>1. x \in Trackers(W) /\ OneEventEach(x) /\ ClosedMap(x)
  BY DEF Sound
<1>2. entry \in Entries(W) /\ 1 \in 1 .. Len(x.pending)
  BY PendingEntries
<1>3. entry.root \in W.roots /\ evicted \in SUBSET W.roots
  BY <1>1, <1>2 DEF Entries, Trackers
<1>4. /\ rest \in Seq(Entries(W)) /\ Len(rest) = Len(x.pending) - 1
      /\ \A i \in 1 .. Len(rest) : rest[i] = x.pending[i + 1]
  <2>1. x.pending # <<>>
    OBVIOUS
  <2> QED BY <2>1, PendingEntries, HeadTailProperties
<1> HIDE DEF rest, evicted
<1>5. /\ less \in Trackers(W) /\ less.pending = rest /\ less.evicted = evicted
      /\ less.events = x.events /\ less.captured = x.captured /\ less.closed = x.closed
      /\ less.client = x.client /\ less.ambient = x.ambient /\ less.tracked = x.tracked
  BY <1>1, <1>3, <1>4 DEF Trackers
<1> HIDE DEF less
<1>6. PendingMap(less)
  <2>1. Len(x.pending) \in Nat /\ Len(x.pending) <= MaxPendingRoots
        /\ MaxPendingRoots \in Nat
    BY PendingEntries, CapsAssumption
  <2>2. \A i \in 1 .. Len(rest) : i + 1 \in 1 .. Len(x.pending)
    BY <1>4, <2>1
  <2>3. ASSUME NEW i \in 1 .. Len(rest), NEW j \in 1 .. Len(rest), i # j
        PROVE  rest[i].root # rest[j].root
    <3>1. i + 1 # j + 1
      BY <2>3
    <3>2. x.pending[i + 1].root # x.pending[j + 1].root
      BY <2>2, <3>1, PendingEntries
    <3> QED BY <1>4, <3>2
  <2>4. Len(rest) <= MaxPendingRoots
    BY <1>4, <2>1
  <2> QED BY <1>5, <2>3, <2>4 DEF PendingMap
<1>7. Sound(W, less)
  BY <1>1, <1>5, <1>6 DEF Sound, OneEventEach, ClosedMap
<1>8. /\ Sound(W, closed) /\ closed.events = x.events /\ closed.captured = x.captured
      /\ closed.client = x.client /\ closed.ambient = x.ambient
      /\ closed.pending = rest /\ closed.tracked = x.tracked /\ closed.evicted = evicted
      /\ ClosedRoots(closed) \subseteq ClosedRoots(x) \cup {entry.root}
  <2> HIDE DEF entry
  <2>1. /\ Sound(W, closed) /\ closed.events = less.events
        /\ closed.captured = less.captured
        /\ closed.client = less.client /\ closed.ambient = less.ambient
        /\ closed.pending = less.pending /\ closed.tracked = less.tracked
        /\ closed.evicted = less.evicted
        /\ ClosedRoots(closed) \subseteq ClosedRoots(less) \cup {entry.root}
    BY <1>3, <1>7, MarkClosedSound
  <2>2. ClosedRoots(less) = ClosedRoots(x)
    BY <1>5 DEF ClosedRoots
  <2> HIDE DEF closed
  <2> QED BY <1>5, <2>1, <2>2
<1>9. y = IF entry.best = None THEN closed ELSE Emit(closed, entry.best, "stale")
  BY DEF Evict, less, rest, evicted
<1> HIDE DEF closed, y
<1>10. CASE entry.best = None
  <2>1. Reports(x, y, StaleEvents(W))
    BY <1>1, <1>8, <1>9, <1>10, ReportsNothing
  <2> QED BY <1>8, <1>9, <1>10, <2>1 DEF rest, evicted, y
<1>11. CASE entry.best # None
  <2>1. entry.best \in W.candidates /\ <<entry.root, entry.best>> \in W.best
        /\ "stale" \in Vias
    BY <1>2, <1>11 DEF Entries, Vias
  <2>2. Sent(closed, y, entry.best, "stale")
        /\ (closed.client /\ Tracking(closed) => entry.best.error \in y.captured)
    BY <1>8, <1>9, <1>11, <2>1, EmitSends
  <2>3. /\ Sound(W, y) /\ Reports(closed, y, {EventOf(closed, entry.best, "stale")})
        /\ y.pending = rest /\ y.closed = closed.closed
        /\ y.tracked = x.tracked /\ y.evicted = evicted
    <3>1. /\ Sound(W, y) /\ Reports(closed, y, {EventOf(closed, entry.best, "stale")})
          /\ y.pending = closed.pending /\ y.closed = closed.closed
          /\ y.tracked = closed.tracked /\ y.evicted = closed.evicted
      <4>1. Sound(W, closed)
        BY <1>8
      <4>2. Sent(closed, y, entry.best, "stale")
        BY <2>2
      <4>3. entry.best \in W.candidates /\ "stale" \in Vias
        BY <2>1
      <4> DEFINE best == entry.best
      <4> HIDE DEF entry, best
      <4> QED BY ONLY <4>1, <4>2, <4>3, SentSound DEF best
    <3> QED BY <1>8, <3>1
  <2>4. EventOf(closed, entry.best, "stale") \in StaleEvents(W)
    <3>1. closed.ambient \in W.scopes
      BY <1>1, <1>8 DEF Trackers
    <3> QED BY <1>3, <2>1, <3>1 DEF StaleEvents, Events, EventOf
  <2>5. Reports(x, y, StaleEvents(W))
    BY <1>8, <2>3, <2>4 DEF Reports
  <2>6. ClosedRoots(y) \subseteq ClosedRoots(x) \cup {entry.root}
    BY <1>8, <2>3 DEF ClosedRoots
  <2>7. x.client /\ Enabled => entry.best.error \in y.captured
    BY <1>8, <2>2 DEF Tracking
  <2> QED BY <2>3, <2>5, <2>6, <2>7 DEF rest, evicted, y
<1> QED BY <1>10, <1>11

(* After the m oldest entries of x have been evicted. *)
OldestRoots(x, m) == {x.pending[i].root : i \in 1 .. m}

AfterEvictions(W, x, m, y) ==
  /\ Sound(W, y) /\ Reports(x, y, StaleEvents(W)) /\ y.tracked = x.tracked
  /\ Len(y.pending) = Len(x.pending) - m
  /\ \A i \in 1 .. Len(x.pending) - m : y.pending[i] = x.pending[m + i]
  /\ y.evicted = x.evicted \cup OldestRoots(x, m)
  /\ ClosedRoots(y) \subseteq ClosedRoots(x) \cup OldestRoots(x, m)
  /\ x.client /\ Enabled =>
       \A i \in 1 .. m : x.pending[i].best # None => x.pending[i].best.error \in y.captured

LEMMA OneMoreEviction ==
  ASSUME NEW W, NEW x, Sound(W, x), NEW m \in Nat, m < Len(x.pending),
         NEW y, AfterEvictions(W, x, m, y)
  PROVE  AfterEvictions(W, x, m + 1, Evict(y, x.pending[m + 1]))
<1> DEFINE z == Evict(y, x.pending[m + 1])
           entry == x.pending[m + 1]
<1>1. /\ Len(x.pending) \in Nat /\ Len(y.pending) \in Nat
      /\ x \in Trackers(W) /\ y \in Trackers(W)
  BY PendingEntries DEF AfterEvictions, Sound
<1>2. y.pending[1] = entry /\ 0 < Len(y.pending) /\ y.pending # <<>>
      /\ y.pending \in Seq(Entries(W))
  <2>1. 1 \in 1 .. Len(x.pending) - m
    BY <1>1
  <2>2. y.pending[1] = entry /\ 0 < Len(y.pending)
    BY <1>1, <2>1 DEF AfterEvictions
  <2>3. Sound(W, y)
    BY DEF AfterEvictions
  <2>4. y.pending \in Seq(Entries(W))
    BY <2>3, PendingEntries
  <2>5. Len(<<>>) = 0
    OBVIOUS
  <2> QED BY <2>2, <2>4, <2>5
<1>3. /\ Sound(W, z) /\ Reports(y, z, StaleEvents(W))
      /\ z.pending = Tail(y.pending) /\ z.tracked = y.tracked
      /\ z.evicted = y.evicted \cup {entry.root}
      /\ ClosedRoots(z) \subseteq ClosedRoots(y) \cup {entry.root}
      /\ entry.best # None /\ y.client /\ Enabled => entry.best.error \in z.captured
  <2>1. Sound(W, y)
    BY DEF AfterEvictions
  <2>2. /\ Sound(W, Evict(y, y.pending[1]))
        /\ Reports(y, Evict(y, y.pending[1]), StaleEvents(W))
        /\ Evict(y, y.pending[1]).pending = Tail(y.pending)
        /\ Evict(y, y.pending[1]).tracked = y.tracked
        /\ Evict(y, y.pending[1]).evicted = y.evicted \cup {y.pending[1].root}
        /\ ClosedRoots(Evict(y, y.pending[1]))
             \subseteq ClosedRoots(y) \cup {y.pending[1].root}
        /\ y.pending[1].best # None /\ y.client /\ Enabled =>
             y.pending[1].best.error \in Evict(y, y.pending[1]).captured
    BY <1>2, <2>1, EvictSound
  <2> QED BY <1>2, <2>2
<1> HIDE DEF z, entry
<1>4. Reports(x, z, StaleEvents(W)) /\ z.tracked = x.tracked
  <2>1. z \in Trackers(W)
    BY <1>3 DEF Sound
  <2>2. Reports(x, y, StaleEvents(W)) /\ y.tracked = x.tracked
    BY DEF AfterEvictions
  <2>3. Reports(x, z, StaleEvents(W) \cup StaleEvents(W))
    BY <1>1, <1>3, <2>1, <2>2, ReportsTwice
  <2>4. StaleEvents(W) \cup StaleEvents(W) = StaleEvents(W)
    OBVIOUS
  <2> QED BY <1>3, <2>2, <2>3, <2>4
<1>5. /\ Len(z.pending) = Len(x.pending) - (m + 1)
      /\ \A i \in 1 .. Len(x.pending) - (m + 1) : z.pending[i] = x.pending[(m + 1) + i]
  <2>1. /\ Len(z.pending) = Len(y.pending) - 1
        /\ \A i \in 1 .. Len(z.pending) : z.pending[i] = y.pending[i + 1]
    BY <1>2, <1>3, HeadTailProperties
  <2>2. /\ Len(y.pending) = Len(x.pending) - m
        /\ \A i \in 1 .. Len(x.pending) - m : y.pending[i] = x.pending[m + i]
    BY DEF AfterEvictions
  <2>3. Len(z.pending) = Len(x.pending) - (m + 1)
    BY <1>1, <2>1, <2>2
  <2>4. ASSUME NEW i \in 1 .. Len(x.pending) - (m + 1)
        PROVE  z.pending[i] = x.pending[(m + 1) + i]
    <3>1. i \in 1 .. Len(z.pending) /\ i + 1 \in 1 .. Len(x.pending) - m
          /\ m + (i + 1) = (m + 1) + i
      BY <1>1, <2>3
    <3>2. z.pending[i] = y.pending[i + 1] /\ y.pending[i + 1] = x.pending[m + (i + 1)]
      BY <2>1, <2>2, <3>1
    <3> QED BY <3>1, <3>2
  <2> QED BY <2>3, <2>4
<1>6. OldestRoots(x, m + 1) = OldestRoots(x, m) \cup {entry.root}
  <2>1. 1 .. m + 1 = (1 .. m) \cup {m + 1}
    OBVIOUS
  <2> QED BY <2>1 DEF OldestRoots, entry
<1>7. /\ z.evicted = x.evicted \cup OldestRoots(x, m + 1)
      /\ ClosedRoots(z) \subseteq ClosedRoots(x) \cup OldestRoots(x, m + 1)
  BY <1>3, <1>6 DEF AfterEvictions
<1>8. ASSUME x.client, Enabled, NEW i \in 1 .. m + 1, x.pending[i].best # None
      PROVE  x.pending[i].best.error \in z.captured
  <2>1. y.client /\ y.captured \subseteq z.captured
    BY <1>3, <1>8 DEF AfterEvictions, Reports
  <2>2. CASE i \in 1 .. m
    BY <1>8, <2>1, <2>2 DEF AfterEvictions
  <2>3. CASE i = m + 1
    BY <1>3, <1>8, <2>1, <2>3 DEF entry
  <2> QED BY <2>2, <2>3
<1> QED BY <1>3, <1>4, <1>5, <1>7, <1>8 DEF AfterEvictions, z, entry

LEMMA FlushStaleSound ==
  ASSUME NEW W, NEW x, Sound(W, x)
  PROVE  \E m \in 0 .. Len(x.pending) :
           /\ AfterEvictions(W, x, m, FlushStale(x))
           /\ Len(FlushStale(x).pending) < MaxPendingRoots
<1> DEFINE n == Cardinality(Stale(x.pending))
           after == CHOOSE g : Evictions(g, x, x.pending, n)
           T == {m \in Nat : m <= n => AfterEvictions(W, x, m, after[m])}
<1>1. /\ n \in 0 .. Len(x.pending) /\ Len(x.pending) - n < MaxPendingRoots
      /\ Len(x.pending) \in Nat
  BY PendingEntries, StaleIsPrefix
<1>2. FlushStale(x) = after[n]
  BY DEF FlushStale, Evictions
<1> HIDE DEF n
<1>3. n \in Nat /\ n <= Len(x.pending)
  BY <1>1
<1>4. Evictions(after, x, x.pending, n)
  BY <1>3, EvictionsExist
<1> HIDE DEF after
<1>5. after[0] = x /\ \A m \in Nat : m + 1 <= n => after[m + 1] = Evict(after[m], x.pending[m + 1])
  <2>1. \A i \in 0 .. n : after[i] = IF i = 0 THEN x ELSE Evict(after[i - 1], x.pending[i])
    BY <1>4 DEF Evictions
  <2>2. after[0] = x
    <3>1. 0 \in 0 .. n
      BY <1>3
    <3> QED BY <2>1, <3>1
  <2>3. ASSUME NEW m \in Nat, m + 1 <= n
        PROVE  after[m + 1] = Evict(after[m], x.pending[m + 1])
    <3>1. m + 1 \in 0 .. n /\ m + 1 # 0 /\ (m + 1) - 1 = m
      BY <1>3, <2>3
    <3>2. after[m + 1] = Evict(after[(m + 1) - 1], x.pending[m + 1])
      BY <2>1, <3>1
    <3> QED BY <3>1, <3>2
  <2> QED BY <2>2, <2>3
<1>6. 0 \in T
  <2>1. x \in Trackers(W) /\ Reports(x, x, StaleEvents(W))
    BY ReportsNothing DEF Sound
  <2>2. \A i \in 1 .. 0 : FALSE
    OBVIOUS
  <2>3. Len(x.pending) - 0 = Len(x.pending)
        /\ \A i \in 1 .. Len(x.pending) - 0 : x.pending[0 + i] = x.pending[i]
    BY <1>1
  <2>4. AfterEvictions(W, x, 0, x)
    BY <2>1, <2>2, <2>3 DEF AfterEvictions, OldestRoots
  <2> QED BY <1>5, <2>4
<1>7. ASSUME NEW m \in Nat, m \in T PROVE m + 1 \in T
  <2> SUFFICES ASSUME m + 1 <= n PROVE AfterEvictions(W, x, m + 1, after[m + 1])
    OBVIOUS
  <2>1. m <= n /\ m < Len(x.pending)
    BY <1>1, <1>3
  <2>2. AfterEvictions(W, x, m, after[m])
    BY <1>7, <2>1
  <2>3. AfterEvictions(W, x, m + 1, Evict(after[m], x.pending[m + 1]))
    BY <2>1, <2>2, OneMoreEviction
  <2> QED BY <1>5, <2>3
<1> HIDE DEF T
<1>8. n \in T
  BY <1>3, <1>6, <1>7, SetInduction
<1>9. AfterEvictions(W, x, n, after[n])
  BY <1>3, <1>8 DEF T
<1>10. Len(after[n].pending) < MaxPendingRoots
  BY <1>1, <1>9 DEF AfterEvictions
<1> QED BY <1>1, <1>2, <1>9, <1>10

-----------------------------------------------------------------------------
(* The entries of the Map pending, whatever their order. *)
Held(x) == {x.pending[i] : i \in 1 .. Len(x.pending)}

LEMMA HeldEntries ==
  ASSUME NEW W, NEW x, Sound(W, x)
  PROVE  /\ Held(x) \subseteq Entries(W)
         /\ \A e, f \in Held(x) : e.root = f.root => e = f
         /\ PendingRoots(x) = {e.root : e \in Held(x)}
         /\ PendingRoots(x) \subseteq W.roots
         /\ \A root \in PendingRoots(x) :
              /\ Position(x, root) \in 1 .. Len(x.pending)
              /\ EntryOf(x, root) \in Held(x) /\ EntryOf(x, root).root = root
<1>1. Held(x) \subseteq Entries(W)
  BY PendingEntries DEF Held
<1>2. \A e, f \in Held(x) : e.root = f.root => e = f
  BY PendingEntries DEF Held
<1>3. PendingRoots(x) = {e.root : e \in Held(x)}
  BY PendingEntries DEF Held, PendingRoots
<1>4. PendingRoots(x) \subseteq W.roots
  BY <1>1, <1>3 DEF Entries
<1>5. ASSUME NEW root \in PendingRoots(x)
      PROVE  /\ Position(x, root) \in 1 .. Len(x.pending)
             /\ EntryOf(x, root) \in Held(x) /\ EntryOf(x, root).root = root
  <2>1. \E i \in DOMAIN x.pending : x.pending[i].root = root
    BY DEF PendingRoots
  <2>2. Position(x, root) \in DOMAIN x.pending /\ x.pending[Position(x, root)].root = root
    BY <2>1 DEF Position
  <2> QED BY <2>2, PendingEntries DEF EntryOf, Held
<1> QED BY <1>1, <1>2, <1>3, <1>4, <1>5

(* From x to y entries were evicted. *)
LetGo(W, x, y) ==
  /\ Sound(W, y) /\ Reports(x, y, StaleEvents(W)) /\ y.tracked = x.tracked
  /\ x.evicted \subseteq y.evicted
  /\ Held(y) \subseteq Held(x)
  /\ \A e \in Held(x) \ Held(y) :
       /\ e.root \in y.evicted
       /\ e.best # None /\ x.client /\ Enabled => e.best.error \in y.captured
  /\ ClosedRoots(y) \subseteq ClosedRoots(x) \cup {e.root : e \in Held(x) \ Held(y)}

LEMMA FlushStaleLetsGo ==
  ASSUME NEW W, NEW x, Sound(W, x)
  PROVE  LetGo(W, x, FlushStale(x)) /\ Len(FlushStale(x).pending) < MaxPendingRoots
<1> DEFINE y == FlushStale(x)
<1>1. PICK m \in 0 .. Len(x.pending) : AfterEvictions(W, x, m, y) /\ Len(y.pending) < MaxPendingRoots
  BY FlushStaleSound
<1> HIDE DEF y
<1>2. /\ Len(x.pending) \in Nat /\ m \in Nat /\ m <= Len(x.pending)
  BY <1>1, PendingEntries
<1>3. /\ Len(y.pending) = Len(x.pending) - m
      /\ \A i \in 1 .. Len(x.pending) - m : y.pending[i] = x.pending[m + i]
  BY <1>1 DEF AfterEvictions
<1>4. ASSUME NEW i \in m + 1 .. Len(x.pending) PROVE x.pending[i] \in Held(y)
  <2>1. i - m \in 1 .. Len(x.pending) - m /\ m + (i - m) = i
    BY <1>2
  <2> QED BY <1>3, <2>1 DEF Held
<1>5. ASSUME NEW e \in Held(x) \ Held(y) PROVE \E i \in 1 .. m : e = x.pending[i]
  <2>1. PICK i \in 1 .. Len(x.pending) : e = x.pending[i]
    BY DEF Held
  <2>2. i \in m + 1 .. Len(x.pending) \/ i \in 1 .. m
    BY <1>2
  <2> QED BY <1>4, <2>1, <2>2
<1>6. ASSUME NEW e \in Held(y) PROVE \E i \in m + 1 .. Len(x.pending) : e = x.pending[i]
  <2>1. PICK i \in 1 .. Len(x.pending) - m : e = x.pending[m + i]
    BY <1>3 DEF Held
  <2>2. m + i \in m + 1 .. Len(x.pending)
    BY <1>2
  <2> QED BY <2>1, <2>2
<1>7. ASSUME NEW i \in 1 .. m PROVE x.pending[i] \in Held(x) \ Held(y)
  <2>1. i \in 1 .. Len(x.pending)
    BY <1>2
  <2>2. x.pending[i] \in Held(y) => \E j \in m + 1 .. Len(x.pending) : x.pending[i] = x.pending[j]
    BY <1>6
  <2>3. ASSUME NEW j \in m + 1 .. Len(x.pending), x.pending[i] = x.pending[j] PROVE FALSE
    <3>1. j \in 1 .. Len(x.pending) /\ i # j
      BY <1>2
    <3> QED BY <2>1, <2>3, <3>1, PendingEntries
  <2> QED BY <2>1, <2>2, <2>3 DEF Held
<1>8. Held(y) \subseteq Held(x)
  <2>1. \A i \in m + 1 .. Len(x.pending) : i \in 1 .. Len(x.pending)
    BY <1>2
  <2> QED BY <1>6, <2>1 DEF Held
<1>9. ASSUME NEW e \in Held(x) \ Held(y)
      PROVE  /\ e.root \in y.evicted
             /\ e.best # None /\ x.client /\ Enabled => e.best.error \in y.captured
  <2>1. PICK i \in 1 .. m : e = x.pending[i]
    BY <1>5
  <2>2. e.root \in y.evicted
    BY <1>1, <2>1 DEF AfterEvictions, OldestRoots
  <2>3. e.best # None /\ x.client /\ Enabled => e.best.error \in y.captured
    BY <1>1, <2>1 DEF AfterEvictions
  <2> QED BY <2>2, <2>3
<1>10. OldestRoots(x, m) \subseteq {e.root : e \in Held(x) \ Held(y)}
  BY <1>7 DEF OldestRoots
<1>11. /\ Sound(W, y) /\ Reports(x, y, StaleEvents(W)) /\ y.tracked = x.tracked
       /\ x.evicted \subseteq y.evicted
       /\ ClosedRoots(y) \subseteq ClosedRoots(x) \cup OldestRoots(x, m)
  BY <1>1 DEF AfterEvictions
<1>12. LetGo(W, x, y)
  BY <1>8, <1>9, <1>10, <1>11 DEF LetGo
<1> QED BY <1>1, <1>12 DEF y

-----------------------------------------------------------------------------
(* Entries change in their places, and errors become tracked. *)
Changed(x, q, errors) == [x EXCEPT !.pending = q, !.tracked = errors]

LEMMA EntriesChange ==
  ASSUME NEW W, NEW x, Sound(W, x), NEW q \in Seq(Entries(W)), Len(q) = Len(x.pending),
         \A i \in 1 .. Len(q) : q[i].root = x.pending[i].root,
         NEW errors \in SUBSET Named(W)
  PROVE  LET y == Changed(x, q, errors) IN
         /\ Sound(W, y) /\ y.pending = q
         /\ y.events = x.events /\ y.captured = x.captured /\ y.client = x.client
         /\ y.ambient = x.ambient /\ y.evicted = x.evicted /\ y.closed = x.closed
         /\ y.tracked = errors
<1> DEFINE y == Changed(x, q, errors)
<1>1. x \in Trackers(W) /\ OneEventEach(x) /\ PendingMap(x) /\ ClosedMap(x)
  BY DEF Sound
<1>2. /\ y \in Trackers(W) /\ y.pending = q
      /\ y.events = x.events /\ y.captured = x.captured /\ y.client = x.client
      /\ y.ambient = x.ambient /\ y.evicted = x.evicted /\ y.closed = x.closed
      /\ y.tracked = errors
  BY <1>1 DEF Trackers, Changed
<1> HIDE DEF y
<1>3. PendingMap(y)
  BY <1>1, <1>2 DEF PendingMap
<1> QED BY <1>1, <1>2, <1>3 DEF Sound, OneEventEach, ClosedMap, y

(* pendingRoot(): the root has an entry, and perhaps others were evicted. *)
NewEntry(root) == [root |-> root, old |-> FALSE, best |-> None, boundary |-> None]

Admits(W, x, y, root) ==
  /\ Sound(W, y) /\ Reports(x, y, StaleEvents(W)) /\ y.tracked = x.tracked
  /\ x.evicted \subseteq y.evicted
  /\ root \in PendingRoots(y)
  /\ \A e \in Held(y) :
       \/ e \in Held(x)
       \/ e = NewEntry(root) /\ root \notin PendingRoots(x)
  /\ \A e \in Held(x) \ Held(y) :
       /\ e.root # root /\ e.root \in y.evicted
       /\ e.best # None /\ x.client /\ Enabled => e.best.error \in y.captured
  /\ ClosedRoots(y) \subseteq ClosedRoots(x) \cup {e.root : e \in Held(x) \ Held(y)}

LEMMA PendingRootAdmits ==
  ASSUME NEW W, NEW x, Sound(W, x), NEW root \in W.roots
  PROVE  Admits(W, x, PendingRoot(x, root), root)
<1>1. CASE root \in PendingRoots(x)
  <2>1. PendingRoot(x, root) = x
    BY <1>1 DEF PendingRoot
  <2>2. Reports(x, x, StaleEvents(W))
    BY ReportsNothing DEF Sound
  <2> QED BY <1>1, <2>1, <2>2 DEF Admits
<1>2. CASE root \notin PendingRoots(x)
  <2> DEFINE z == FlushStale(x)
             q == Append(z.pending, NewEntry(root))
             y == [z EXCEPT !.pending = q]
  <2>1. LetGo(W, x, z) /\ Len(z.pending) < MaxPendingRoots
    BY FlushStaleLetsGo
  <2>2. PendingRoot(x, root) = y
    BY <1>2 DEF PendingRoot, NewEntry
  <2> HIDE DEF z
  <2>3. /\ Sound(W, z) /\ z \in Trackers(W) /\ OneEventEach(z) /\ ClosedMap(z)
        /\ Reports(x, z, StaleEvents(W)) /\ z.tracked = x.tracked
        /\ x.evicted \subseteq z.evicted /\ Held(z) \subseteq Held(x)
        /\ ClosedRoots(z) \subseteq ClosedRoots(x) \cup {e.root : e \in Held(x) \ Held(z)}
    BY <2>1 DEF LetGo, Sound
  <2>4. /\ z.pending \in Seq(Entries(W)) /\ Len(z.pending) \in Nat
        /\ \A i, j \in 1 .. Len(z.pending) : z.pending[i].root = z.pending[j].root => i = j
    BY <2>3, PendingEntries
  <2>5. NewEntry(root) \in Entries(W) /\ NewEntry(root).root = root
    BY DEF NewEntry, Entries
  <2>6. /\ q \in Seq(Entries(W)) /\ Len(q) = Len(z.pending) + 1
        /\ \A i \in 1 .. Len(z.pending) : q[i] = z.pending[i]
        /\ q[Len(z.pending) + 1] = NewEntry(root)
    BY <2>4, <2>5, AppendProperties
  <2> HIDE DEF q
  <2>7. /\ y \in Trackers(W) /\ y.pending = q /\ y.events = z.events
        /\ y.captured = z.captured /\ y.client = z.client /\ y.ambient = z.ambient
        /\ y.evicted = z.evicted /\ y.closed = z.closed /\ y.tracked = z.tracked
    BY <2>3, <2>6 DEF Trackers
  <2> HIDE DEF y
  <2>8. Held(y) = Held(z) \cup {NewEntry(root)}
    <3>1. 1 .. Len(q) = (1 .. Len(z.pending)) \cup {Len(z.pending) + 1}
      BY <2>4, <2>6
    <3> QED BY <2>6, <2>7, <3>1 DEF Held
  <2>9. \A e \in Held(x) : e.root # root
    BY <1>2, HeldEntries
  <2>10. PendingMap(y)
    <3>1. \A i \in 1 .. Len(z.pending) : z.pending[i].root # root
      BY <2>3, <2>9 DEF Held
    <3>2. ASSUME NEW i \in 1 .. Len(q), NEW j \in 1 .. Len(q), i # j
          PROVE  q[i].root # q[j].root
      <4>1. CASE i \in 1 .. Len(z.pending) /\ j \in 1 .. Len(z.pending)
        BY <2>4, <2>6, <3>2, <4>1
      <4>2. CASE i \in 1 .. Len(z.pending) /\ j = Len(z.pending) + 1
        BY <2>5, <2>6, <3>1, <4>2
      <4>3. CASE j \in 1 .. Len(z.pending) /\ i = Len(z.pending) + 1
        BY <2>5, <2>6, <3>1, <4>3
      <4> QED BY <2>4, <2>6, <3>2, <4>1, <4>2, <4>3
    <3>3. Len(q) <= MaxPendingRoots
      BY <2>1, <2>4, <2>6, CapsAssumption
    <3> QED BY <2>7, <3>2, <3>3 DEF PendingMap
  <2>11. Sound(W, y)
    BY <2>3, <2>7, <2>10 DEF Sound, OneEventEach, ClosedMap
  <2>12. Reports(x, y, StaleEvents(W)) /\ y.tracked = x.tracked /\ x.evicted \subseteq y.evicted
    BY <2>3, <2>7 DEF Reports
  <2>13. root \in PendingRoots(y)
    BY <2>5, <2>8, <2>11, HeldEntries
  <2>14. Held(x) \ Held(y) = Held(x) \ Held(z)
    BY <2>5, <2>8, <2>9
  <2>15. \A e \in Held(x) \ Held(y) :
           /\ e.root # root /\ e.root \in y.evicted
           /\ e.best # None /\ x.client /\ Enabled => e.best.error \in y.captured
    BY <2>1, <2>7, <2>9, <2>14 DEF LetGo
  <2>16. ClosedRoots(y) \subseteq ClosedRoots(x) \cup {e.root : e \in Held(x) \ Held(y)}
    BY <2>3, <2>7, <2>14 DEF ClosedRoots
  <2>17. Admits(W, x, y, root)
    BY <1>2, <2>3, <2>8, <2>11, <2>12, <2>13, <2>15, <2>16 DEF Admits
  <2> QED BY <2>2, <2>17
<1> QED BY <1>1, <1>2

-----------------------------------------------------------------------------
(* What every operation does to the entries of the other roots: they stay  *)
(* or are evicted, and a root that is pending does not become closed.      *)
Match(e, f) == e.root = f.root /\ e.best = f.best /\ e.boundary = f.boundary

Follows(W, x, y, roots) ==
  /\ Sound(W, y) /\ x.evicted \subseteq y.evicted
  /\ x.captured \subseteq y.captured /\ y.client = x.client
  /\ \A f \in Held(y) : f.root \notin roots => \E e \in Held(x) : Match(e, f)
  /\ \A e \in Held(x) : e.root \notin roots =>
       \/ \E f \in Held(y) : Match(e, f)
       \/ /\ e.root \in y.evicted
          /\ e.best # None /\ x.client /\ Enabled => e.best.error \in y.captured
  /\ \A f \in Held(y) : f.root \notin roots /\ f.root \in ClosedRoots(y) =>
                          f.root \in ClosedRoots(x)

LEMMA AdmitsFollows ==
  ASSUME NEW W, NEW x, Sound(W, x), NEW root, NEW y, Admits(W, x, y, root)
  PROVE  /\ Follows(W, x, y, {root})
         /\ \E f \in Held(y) : f.root = root
         /\ \A f \in Held(y) : f.root = root =>
              f \in Held(x) \/ (f = NewEntry(root) /\ root \notin PendingRoots(x))
         /\ root \in ClosedRoots(y) => root \in ClosedRoots(x)
<1>1. Sound(W, y) /\ Reports(x, y, StaleEvents(W)) /\ x.evicted \subseteq y.evicted
  BY DEF Admits
<1>2. \A f \in Held(y) : f.root # root => f \in Held(x)
  BY DEF Admits, NewEntry
<1>3. \A e \in Held(x) : e \notin Held(y) =>
        /\ e.root # root /\ e.root \in y.evicted
        /\ e.best # None /\ x.client /\ Enabled => e.best.error \in y.captured
  BY DEF Admits
<1>4. ASSUME NEW r \in ClosedRoots(y), r \notin ClosedRoots(x)
      PROVE  r # root /\ \A f \in Held(y) : f.root # r
  <2>1. PICK e \in Held(x) \ Held(y) : r = e.root
    BY <1>4 DEF Admits
  <2>2. r # root
    BY <1>3, <2>1
  <2>3. \A f \in Held(y) : f.root = r => f \in Held(x) /\ f = e
    BY <1>2, <2>1, <2>2, HeldEntries
  <2> QED BY <2>1, <2>2, <2>3
<1>5. \E f \in Held(y) : f.root = root
  <2>1. root \in PendingRoots(y)
    BY DEF Admits
  <2> QED BY <1>1, <2>1, HeldEntries
<1>6. \A e : Match(e, e)
  BY DEF Match
<1>7. Follows(W, x, y, {root})
  BY <1>1, <1>2, <1>3, <1>4, <1>6 DEF Follows, Reports
<1> QED BY <1>4, <1>5, <1>7 DEF Admits

(* The entry of one root is replaced, or the entries get older. *)
LEMMA MapSequence ==
  ASSUME NEW S, NEW s \in Seq(S), NEW q, q = [i \in DOMAIN s |-> q[i]],
         \A i \in 1 .. Len(s) : q[i] \in S
  PROVE  q \in Seq(S) /\ Len(q) = Len(s)
<1>1. Len(s) \in Nat /\ DOMAIN s = 1 .. Len(s)
  BY LenProperties
<1>2. q \in [1 .. Len(s) -> S]
  BY <1>1
<1>3. q \in Seq(S)
  BY <1>1, <1>2, SeqDef
<1>4. Len(q) = Len(s)
  BY <1>1, <1>2, <1>3, LenProperties
<1> QED BY <1>3, <1>4

LEMMA ReplaceFollows ==
  ASSUME NEW W, NEW x, Sound(W, x), NEW y, Sound(W, y), NEW root,
         y.closed = x.closed, x.evicted \subseteq y.evicted, x.captured \subseteq y.captured,
         y.client = x.client, Len(y.pending) = Len(x.pending),
         \A i \in 1 .. Len(x.pending) :
           /\ y.pending[i].root = x.pending[i].root
           /\ x.pending[i].root # root => Match(x.pending[i], y.pending[i])
  PROVE  Follows(W, x, y, {root}) /\ ClosedRoots(y) = ClosedRoots(x)
<1>1. \A f \in Held(y) : f.root # root => \E e \in Held(x) : Match(e, f)
  BY DEF Held
<1>2. \A e \in Held(x) : e.root # root => \E f \in Held(y) : Match(e, f)
  BY DEF Held
<1> QED BY <1>1, <1>2 DEF Follows, ClosedRoots

LEMMA FollowsTwice ==
  ASSUME NEW W, NEW x, Sound(W, x), NEW y, NEW z, NEW roots,
         Follows(W, x, y, roots), Follows(W, y, z, roots)
  PROVE  Follows(W, x, z, roots)
<1>1. \A e, f, g : Match(e, f) /\ Match(f, g) => Match(e, g)
  BY DEF Match
<1>2. ASSUME NEW g \in Held(z), g.root \notin roots
      PROVE  /\ \E e \in Held(x) : Match(e, g)
             /\ g.root \in ClosedRoots(z) => g.root \in ClosedRoots(x)
  <2>1. PICK f \in Held(y) : Match(f, g)
    BY <1>2 DEF Follows
  <2>2. f.root = g.root
    BY <2>1 DEF Match
  <2>3. PICK e \in Held(x) : Match(e, f)
    BY <1>2, <2>2 DEF Follows
  <2>4. g.root \in ClosedRoots(z) => g.root \in ClosedRoots(y)
    BY <1>2 DEF Follows
  <2>5. f.root \in ClosedRoots(y) => f.root \in ClosedRoots(x)
    BY <1>2, <2>2 DEF Follows
  <2> QED BY <1>1, <2>1, <2>2, <2>3, <2>4, <2>5
<1>3. ASSUME NEW e \in Held(x), e.root \notin roots
      PROVE  \/ \E g \in Held(z) : Match(e, g)
             \/ /\ e.root \in z.evicted
                /\ e.best # None /\ x.client /\ Enabled => e.best.error \in z.captured
  <2>1. CASE \E f \in Held(y) : Match(e, f)
    <3>1. PICK f \in Held(y) : Match(e, f)
      BY <2>1
    <3>2. f.root = e.root /\ f.best = e.best /\ y.client = x.client
      BY <3>1 DEF Match, Follows
    <3>3. \/ \E g \in Held(z) : Match(f, g)
          \/ /\ f.root \in z.evicted
             /\ f.best # None /\ y.client /\ Enabled => f.best.error \in z.captured
      BY <1>3, <3>2 DEF Follows
    <3> QED BY <1>1, <3>1, <3>2, <3>3
  <2>2. CASE ~(\E f \in Held(y) : Match(e, f))
    BY <1>3, <2>2 DEF Follows
  <2> QED BY <2>1, <2>2
<1> QED BY <1>2, <1>3 DEF Follows

LEMMA SentFollows ==
  ASSUME NEW W, NEW x, Sound(W, x), NEW c \in W.candidates, NEW via \in Vias,
         NEW y, Sent(x, y, c, via)
  PROVE  /\ Follows(W, x, y, {}) /\ Reports(x, y, {EventOf(x, c, via)})
         /\ Held(y) = Held(x) /\ ClosedRoots(y) = ClosedRoots(x)
<1>1. /\ Sound(W, y) /\ Reports(x, y, {EventOf(x, c, via)})
      /\ y.pending = x.pending /\ y.closed = x.closed
      /\ y.tracked = x.tracked /\ y.evicted = x.evicted
  BY SentSound
<1>2. \A e : Match(e, e)
  BY DEF Match
<1>3. Held(y) = Held(x) /\ ClosedRoots(y) = ClosedRoots(x)
  BY <1>1 DEF Held, ClosedRoots
<1> QED BY <1>1, <1>2, <1>3 DEF Follows, Reports

LEMMA AgeFollows ==
  ASSUME NEW W, NEW x, Sound(W, x), NEW n
  PROVE  LET y == Age(x, n) IN
         /\ Follows(W, x, y, {}) /\ y.events = x.events /\ y.captured = x.captured
         /\ y.ambient = x.ambient /\ y.client = x.client
         /\ ClosedRoots(y) = ClosedRoots(x)
<1> DEFINE s == x.pending
           q == [i \in DOMAIN s |-> IF i <= n THEN [s[i] EXCEPT !.old = TRUE] ELSE s[i]]
           y == Age(x, n)
<1>1. /\ s \in Seq(Entries(W)) /\ Len(s) \in Nat /\ DOMAIN s = 1 .. Len(s)
      /\ \A i \in 1 .. Len(s) : s[i] \in Entries(W)
  BY PendingEntries
<1>2. \A i \in 1 .. Len(s) : q[i] \in Entries(W) /\ Match(s[i], q[i])
  BY <1>1 DEF Entries, Match
<1>3. q = [i \in DOMAIN s |-> q[i]]
  OBVIOUS
<1>4. y = [x EXCEPT !.pending = q, !.tracked = x.tracked] /\ x.tracked \in SUBSET Named(W)
  BY DEF Age, Sound, Trackers
<1> HIDE DEF q, s, y
<1>5. q \in Seq(Entries(W)) /\ Len(q) = Len(s)
  BY <1>1, <1>2, <1>3, MapSequence
<1>6. \A i \in 1 .. Len(q) : q[i].root = s[i].root
  BY <1>2, <1>5 DEF Match
<1>7. /\ Sound(W, y) /\ y.pending = q
      /\ y.events = x.events /\ y.captured = x.captured /\ y.client = x.client
      /\ y.ambient = x.ambient /\ y.evicted = x.evicted /\ y.closed = x.closed
  <2>1. q \in Seq(Entries(W)) /\ Len(q) = Len(x.pending)
        /\ \A i \in 1 .. Len(q) : q[i].root = x.pending[i].root
    BY <1>5, <1>6 DEF s
  <2>2. x.tracked \in SUBSET Named(W)
    BY <1>4
  <2>3. y = Changed(x, q, x.tracked)
    BY <1>4 DEF Changed
  <2> QED BY <2>1, <2>2, <2>3, EntriesChange
<1>8. /\ \A f \in Held(y) : \E e \in Held(x) : Match(e, f)
      /\ \A e \in Held(x) : \E f \in Held(y) : Match(e, f)
  BY <1>2, <1>5, <1>7 DEF Held, s
<1>9. ClosedRoots(y) = ClosedRoots(x)
  BY <1>7 DEF ClosedRoots
<1>10. Follows(W, x, y, {})
  BY <1>7, <1>8, <1>9 DEF Follows
<1> QED BY <1>7, <1>9, <1>10 DEF y

(* The entry of the root is created if need be, then changed. *)
Replaces(W, s, q, root) ==
  /\ q = [i \in DOMAIN s |-> q[i]]
  /\ \A i \in 1 .. Len(s) :
       /\ q[i] \in Entries(W) /\ q[i].root = s[i].root
       /\ s[i].root # root => q[i] = s[i]

Replaced(W, x, y, s, q, root) ==
  /\ Follows(W, x, y, {root}) /\ Reports(x, y, StaleEvents(W))
  /\ y.pending = q /\ Len(q) = Len(s)
  /\ root \in ClosedRoots(y) => root \in ClosedRoots(x)
  /\ \E i \in 1 .. Len(q) : s[i].root = root
  /\ \A i \in 1 .. Len(q) : s[i].root = root =>
       s[i] \in Held(x) \/ (s[i] = NewEntry(root) /\ root \notin PendingRoots(x))

LEMMA EntryOfRootChanges ==
  ASSUME NEW W, NEW x, Sound(W, x), NEW root \in W.roots, NEW q,
         Replaces(W, PendingRoot(x, root).pending, q, root),
         NEW errors \in SUBSET Named(W)
  PROVE  Replaced(W, x, Changed(PendingRoot(x, root), q, errors),
                  PendingRoot(x, root).pending, q, root)
<1> DEFINE p == PendingRoot(x, root)
           s == p.pending
           y == Changed(p, q, errors)
<1>1. Admits(W, x, p, root)
  BY PendingRootAdmits
<1>2. /\ q = [i \in DOMAIN s |-> q[i]]
      /\ \A i \in 1 .. Len(s) :
           /\ q[i] \in Entries(W) /\ q[i].root = s[i].root
           /\ s[i].root # root => q[i] = s[i]
  BY DEF Replaces
<1> HIDE DEF p
<1>3. Sound(W, p) /\ Reports(x, p, StaleEvents(W))
  BY <1>1 DEF Admits
<1>4. /\ s \in Seq(Entries(W)) /\ q \in Seq(Entries(W)) /\ Len(q) = Len(s)
  <2>1. s \in Seq(Entries(W))
    BY <1>3, PendingEntries
  <2>2. \A i \in 1 .. Len(s) : q[i] \in Entries(W)
    BY <1>2
  <2>3. q = [i \in DOMAIN s |-> q[i]]
    BY <1>2
  <2> HIDE DEF s
  <2> QED BY <2>1, <2>2, <2>3, MapSequence
<1>5. /\ Sound(W, y) /\ y.pending = q
      /\ y.events = p.events /\ y.captured = p.captured /\ y.client = p.client
      /\ y.ambient = p.ambient /\ y.evicted = p.evicted /\ y.closed = p.closed
  <2>1. \A i \in 1 .. Len(q) : q[i].root = p.pending[i].root
    BY <1>2, <1>4
  <2> QED BY <1>3, <1>4, <2>1, EntriesChange
<1> HIDE DEF y
<1>6. Follows(W, p, y, {root}) /\ ClosedRoots(y) = ClosedRoots(p)
  <2>1. \A i \in 1 .. Len(p.pending) :
          /\ y.pending[i].root = p.pending[i].root
          /\ p.pending[i].root # root => Match(p.pending[i], y.pending[i])
    BY <1>2, <1>5 DEF Match
  <2>2. Sound(W, p) /\ Sound(W, y) /\ Len(y.pending) = Len(p.pending)
    BY <1>3, <1>4, <1>5
  <2>3. /\ y.closed = p.closed /\ p.evicted \subseteq y.evicted
        /\ p.captured \subseteq y.captured /\ y.client = p.client
    BY <1>5
  <2> QED BY <2>1, <2>2, <2>3, ReplaceFollows
<1>7. Follows(W, x, p, {root})
      /\ (\E f \in Held(p) : f.root = root)
      /\ (\A f \in Held(p) : f.root = root =>
           f \in Held(x) \/ (f = NewEntry(root) /\ root \notin PendingRoots(x)))
      /\ (root \in ClosedRoots(p) => root \in ClosedRoots(x))
  BY <1>1, AdmitsFollows
<1>8. Follows(W, x, y, {root})
  BY <1>6, <1>7, FollowsTwice
<1>9. Reports(x, y, StaleEvents(W))
  BY <1>3, <1>5 DEF Reports
<1>10. (\E i \in 1 .. Len(s) : s[i].root = root)
       /\ \A i \in 1 .. Len(s) : s[i].root = root =>
            s[i] \in Held(x) \/ (s[i] = NewEntry(root) /\ root \notin PendingRoots(x))
  BY <1>7 DEF Held
<1> QED BY <1>4, <1>5, <1>6, <1>7, <1>8, <1>9, <1>10 DEF Replaced, p, y

(* recordSpanError(): the root keeps a candidate, or the event leaves late. *)
KeepsSpanError(x, y, key, c) ==
  /\ key # None /\ key \notin ClosedRoots(x) /\ key \notin ClosedRoots(y)
  /\ Tracking(x) /\ c.error \notin x.captured
  /\ \E f \in Held(y) : f.root = key
  /\ \A f \in Held(y) : f.root = key =>
       /\ f.best # None /\ f.best.depth <= c.depth
       /\ \/ f.boundary = None /\ \A e \in Held(x) : e.root # key
          \/ \E e \in Held(x) : e.root = key /\ f.boundary = e.boundary
       /\ \A e \in Held(x) : e.root = key /\ e.best # None => f.best.depth <= e.best.depth

KeepsNoError(x, y, c) ==
  /\ Held(y) = Held(x) /\ ClosedRoots(y) = ClosedRoots(x)
  /\ x.client /\ Enabled => c.error \in y.captured

LEMMA RecordSpanErrorKeeps ==
  ASSUME NEW W, NEW x, Sound(W, x), NEW c \in W.candidates, c # None,
         \A d \in W.candidates : d.depth \in Int,
         NEW key, key = None \/ (key \in W.roots /\ <<key, c>> \in W.best)
  PROVE  LET y == RecordSpanError(x, key, c) IN
         /\ Follows(W, x, y, {key})
         /\ Reports(x, y, StaleEvents(W) \cup {EventOf(x, c, "late")})
         /\ \/ KeepsSpanError(x, y, key, c)
            \/ KeepsNoError(x, y, c) /\ Follows(W, x, y, {})
               /\ ~(key # None /\ key \notin ClosedRoots(x) /\ Tracking(x)
                    /\ c.error \notin x.captured)
<1> DEFINE y == RecordSpanError(x, key, c)
<1>1. x \in Trackers(W) /\ "late" \in Vias
  BY DEF Sound, Vias
<1>2. \A e : Match(e, e)
  BY DEF Match
<1>3. CASE ~Tracking(x) \/ c.error \in x.captured
  <2>1. y = x
    BY <1>3 DEF RecordSpanError
  <2>2. Reports(x, x, StaleEvents(W) \cup {EventOf(x, c, "late")})
    BY <1>1, ReportsNothing
  <2>3. Follows(W, x, x, {key}) /\ Follows(W, x, x, {})
    BY <1>2 DEF Follows
  <2> HIDE DEF y
  <2> QED BY <1>3, <2>1, <2>2, <2>3 DEF KeepsNoError, Tracking, y
<1>4. CASE Tracking(x) /\ c.error \notin x.captured /\ (key = None \/ key \in ClosedRoots(x))
  <2>1. y = Emit(x, c, "late")
    BY <1>4 DEF RecordSpanError
  <2> HIDE DEF y
  <2>2. Sent(x, y, c, "late") /\ (x.client /\ Tracking(x) => c.error \in y.captured)
    BY <1>1, <2>1, EmitSends
  <2>3. /\ Follows(W, x, y, {}) /\ Reports(x, y, {EventOf(x, c, "late")})
        /\ Held(y) = Held(x) /\ ClosedRoots(y) = ClosedRoots(x)
    BY <1>1, <2>2, SentFollows
  <2>4. Follows(W, x, y, {key})
    BY <2>3 DEF Follows
  <2>5. Reports(x, y, StaleEvents(W) \cup {EventOf(x, c, "late")})
    BY <2>3 DEF Reports
  <2> QED BY <1>4, <2>2, <2>3, <2>4, <2>5 DEF KeepsNoError, y
<1>5. CASE Tracking(x) /\ c.error \notin x.captured /\ key # None /\ key \notin ClosedRoots(x)
  <2> DEFINE p == PendingRoot(x, key)
             s == p.pending
             change(e) == IF Better(e, c) THEN [e EXCEPT !.best = c] ELSE e
             q == [i \in DOMAIN s |-> IF s[i].root = key THEN change(s[i]) ELSE s[i]]
             tracked == p.tracked \cup {c.error}
  <2>1. Admits(W, x, p, key) /\ key \in W.roots /\ <<key, c>> \in W.best
    BY <1>5, PendingRootAdmits
  <2>2. Sound(W, p) /\ p \in Trackers(W)
    BY <2>1 DEF Admits, Sound
  <2>3. y = Changed(p, q, tracked)
    BY <1>5, <2>2 DEF RecordSpanError, WithEntry, Trackers, Changed
  <2> HIDE DEF p, y
  <2>4. /\ DOMAIN s = 1 .. Len(s)
        /\ \A i \in 1 .. Len(s) : s[i] \in Entries(W)
    BY <2>2, PendingEntries
  <2>5. tracked \in SUBSET Named(W)
    BY <2>2 DEF Trackers, Named
  <2>6. \A i \in 1 .. Len(s) :
          /\ q[i] \in Entries(W) /\ q[i].root = s[i].root /\ q[i].boundary = s[i].boundary
          /\ s[i].root # key => q[i] = s[i]
          /\ s[i].root = key => /\ q[i].best # None /\ q[i].best.depth <= c.depth
                                /\ s[i].best # None => q[i].best.depth <= s[i].best.depth
    <3> SUFFICES ASSUME NEW i \in 1 .. Len(s)
                 PROVE  /\ q[i] \in Entries(W) /\ q[i].root = s[i].root
                        /\ q[i].boundary = s[i].boundary
                        /\ s[i].root # key => q[i] = s[i]
                        /\ s[i].root = key =>
                             /\ q[i].best # None /\ q[i].best.depth <= c.depth
                             /\ s[i].best # None => q[i].best.depth <= s[i].best.depth
      OBVIOUS
    <3>1. q[i] = IF s[i].root = key THEN change(s[i]) ELSE s[i]
      BY <2>4
    <3>2. s[i] \in Entries(W)
      BY <2>4
    <3> HIDE DEF q, s
    <3>3. CASE s[i].root # key
      BY <3>1, <3>2, <3>3
    <3>4. CASE s[i].root = key /\ ~Better(s[i], c)
      <4>1. q[i] = s[i]
        BY <3>1, <3>4
      <4>2. s[i].best # None /\ ~(c.depth < s[i].best.depth)
        BY <3>4 DEF Better
      <4>3. s[i].best.depth \in Int /\ c.depth \in Int
        BY <3>2, <4>2 DEF Entries
      <4>4. s[i].best.depth <= c.depth /\ s[i].best.depth <= s[i].best.depth
        BY <4>2, <4>3
      <4> QED BY <3>2, <3>4, <4>1, <4>2, <4>4
    <3>5. CASE s[i].root = key /\ Better(s[i], c)
      <4>1. q[i] = [s[i] EXCEPT !.best = c]
        BY <3>1, <3>5
      <4>2. q[i].best = c
        BY <3>2, <4>1 DEF Entries
      <4>3. c.depth <= c.depth
        OBVIOUS
      <4>4. s[i].best # None => c.depth <= s[i].best.depth
        <5>1. s[i].best # None => s[i].best.depth \in Int /\ c.depth \in Int
          BY <3>2 DEF Entries
        <5> QED BY <3>5, <5>1 DEF Better
      <4>5. q[i] \in Entries(W) /\ q[i].root = s[i].root /\ q[i].boundary = s[i].boundary
        BY <2>1, <3>2, <3>5, <4>1 DEF Entries
      <4> QED BY <3>5, <4>2, <4>3, <4>4, <4>5
    <3> QED BY <3>3, <3>4, <3>5
  <2>7. q = [i \in DOMAIN s |-> q[i]]
    OBVIOUS
  <2> HIDE DEF q, tracked
  <2>8. /\ Follows(W, x, y, {key}) /\ Reports(x, y, StaleEvents(W))
        /\ y.pending = q /\ Len(q) = Len(s)
        /\ key \in ClosedRoots(y) => key \in ClosedRoots(x)
        /\ \E i \in 1 .. Len(q) : s[i].root = key
        /\ \A i \in 1 .. Len(q) : s[i].root = key =>
             s[i] \in Held(x) \/ (s[i] = NewEntry(key) /\ key \notin PendingRoots(x))
    <3>1. Replaces(W, s, q, key)
      BY <2>6, <2>7 DEF Replaces
    <3>2. Replaced(W, x, y, s, q, key)
      BY <2>1, <2>3, <2>5, <3>1, EntryOfRootChanges DEF p
    <3> HIDE DEF s
    <3> QED BY <3>2 DEF Replaced
  <2> HIDE DEF s
  <2>9. Reports(x, y, StaleEvents(W) \cup {EventOf(x, c, "late")})
    BY <2>8 DEF Reports
  <2>10. \E f \in Held(y) : f.root = key
    BY <2>6, <2>8 DEF Held
  <2>11. ASSUME NEW f \in Held(y), f.root = key
         PROVE  /\ f.best # None /\ f.best.depth <= c.depth
                /\ \/ f.boundary = None /\ \A e \in Held(x) : e.root # key
                   \/ \E e \in Held(x) : e.root = key /\ f.boundary = e.boundary
                /\ \A e \in Held(x) :
                     e.root = key /\ e.best # None => f.best.depth <= e.best.depth
    <3>1. PICK i \in 1 .. Len(q) : f = q[i]
      BY <2>8 DEF Held
    <3>2. /\ s[i].root = key /\ f.boundary = s[i].boundary
          /\ f.best # None /\ f.best.depth <= c.depth
          /\ s[i].best # None => f.best.depth <= s[i].best.depth
      BY <2>6, <2>8, <2>11, <3>1
    <3>3. CASE s[i] \in Held(x)
      <4>1. \A e \in Held(x) : e.root = key => e = s[i]
        BY <3>2, <3>3, PendingEntries DEF Held
      <4> QED BY <3>2, <3>3, <4>1
    <3>4. CASE s[i] = NewEntry(key) /\ key \notin PendingRoots(x)
      BY <3>2, <3>4, HeldEntries DEF NewEntry
    <3> QED BY <2>8, <3>2, <3>3, <3>4
  <2>12. KeepsSpanError(x, y, key, c)
    BY <1>5, <2>8, <2>10, <2>11 DEF KeepsSpanError
  <2> QED BY <2>8, <2>9, <2>12 DEF y
<1> QED BY <1>3, <1>4, <1>5

(* recordBoundaryError(): the first one stays. *)
KeepsBoundary(x, y, root, c) ==
  /\ \E f \in Held(y) : f.root = root /\ f.boundary # None
  /\ \A f \in Held(y) : f.root = root =>
       \/ f.boundary = c /\ \A e \in Held(x) : e.root = root => e.boundary = None
       \/ \E e \in Held(x) : e.root = root /\ e.boundary # None /\ f.boundary = e.boundary

LEMMA RecordBoundaryErrorKeeps ==
  ASSUME NEW W, NEW x, Sound(W, x), NEW c \in W.candidates, c # None,
         NEW root \in W.roots, root # None, <<root, c>> \in W.boundary
  PROVE  LET y == RecordBoundaryError(x, root, c) IN
         /\ Follows(W, x, y, {root}) /\ Reports(x, y, StaleEvents(W))
         /\ KeepsBoundary(x, y, root, c)
<1> DEFINE y == RecordBoundaryError(x, root, c)
           p == PendingRoot(x, root)
           s == p.pending
           change(e) == IF e.boundary = None THEN [e EXCEPT !.boundary = c] ELSE e
           q == [i \in DOMAIN s |-> IF s[i].root = root THEN change(s[i]) ELSE s[i]]
<1>1. Admits(W, x, p, root)
  BY PendingRootAdmits
<1>2. Sound(W, p) /\ p \in Trackers(W)
  BY <1>1 DEF Admits, Sound
<1>3. y = Changed(p, q, p.tracked)
  BY <1>2 DEF RecordBoundaryError, WithEntry, Trackers, Changed
<1> HIDE DEF p, y
<1>4. /\ DOMAIN s = 1 .. Len(s)
      /\ \A i \in 1 .. Len(s) : s[i] \in Entries(W)
  BY <1>2, PendingEntries
<1>5. p.tracked \in SUBSET Named(W)
  BY <1>2 DEF Trackers
<1>6. \A i \in 1 .. Len(s) :
        /\ q[i] \in Entries(W) /\ q[i].root = s[i].root
        /\ s[i].root # root => q[i] = s[i]
        /\ s[i].root = root /\ s[i].boundary = None => q[i].boundary = c
        /\ s[i].root = root /\ s[i].boundary # None => q[i].boundary = s[i].boundary
  <2> SUFFICES ASSUME NEW i \in 1 .. Len(s)
               PROVE  /\ q[i] \in Entries(W) /\ q[i].root = s[i].root
                      /\ s[i].root # root => q[i] = s[i]
                      /\ s[i].root = root /\ s[i].boundary = None => q[i].boundary = c
                      /\ s[i].root = root /\ s[i].boundary # None =>
                           q[i].boundary = s[i].boundary
    OBVIOUS
  <2>1. q[i] = IF s[i].root = root THEN change(s[i]) ELSE s[i]
    BY <1>4
  <2>2. s[i] \in Entries(W)
    BY <1>4
  <2> HIDE DEF q, s
  <2>3. CASE s[i].root # root \/ s[i].boundary # None
    BY <2>1, <2>2, <2>3
  <2>4. CASE s[i].root = root /\ s[i].boundary = None
    <3>1. q[i] = [s[i] EXCEPT !.boundary = c]
      BY <2>1, <2>4
    <3> QED BY <2>2, <2>4, <3>1 DEF Entries
  <2> QED BY <2>3, <2>4
<1>7. q = [i \in DOMAIN s |-> q[i]]
  OBVIOUS
<1> HIDE DEF q
<1>8. /\ Follows(W, x, y, {root}) /\ Reports(x, y, StaleEvents(W))
      /\ y.pending = q /\ Len(q) = Len(s)
      /\ \E i \in 1 .. Len(q) : s[i].root = root
      /\ \A i \in 1 .. Len(q) : s[i].root = root =>
           s[i] \in Held(x) \/ (s[i] = NewEntry(root) /\ root \notin PendingRoots(x))
  <2>1. Replaces(W, s, q, root)
    BY <1>6, <1>7 DEF Replaces
  <2>2. Replaced(W, x, y, s, q, root)
    BY <1>3, <1>5, <2>1, EntryOfRootChanges DEF p
  <2> HIDE DEF s
  <2> QED BY <2>2 DEF Replaced
<1> HIDE DEF s
<1>9. \E f \in Held(y) : f.root = root /\ f.boundary # None
  BY <1>6, <1>8 DEF Held
<1>10. ASSUME NEW f \in Held(y), f.root = root
       PROVE  \/ f.boundary = c /\ \A e \in Held(x) : e.root = root => e.boundary = None
              \/ \E e \in Held(x) : e.root = root /\ e.boundary # None
                                    /\ f.boundary = e.boundary
  <2>1. PICK i \in 1 .. Len(q) : f = q[i]
    BY <1>8 DEF Held
  <2>2. s[i].root = root
    BY <1>6, <1>8, <1>10, <2>1
  <2>3. CASE s[i] \in Held(x)
    <3>1. \A e \in Held(x) : e.root = root => e = s[i]
      BY <2>2, <2>3, HeldEntries
    <3> QED BY <1>6, <1>8, <2>1, <2>2, <2>3, <3>1
  <2>4. CASE s[i] = NewEntry(root) /\ root \notin PendingRoots(x)
    <3>1. \A e \in Held(x) : e.root # root
      BY <2>4, HeldEntries
    <3> QED BY <1>6, <1>8, <2>1, <2>2, <2>4, <3>1 DEF NewEntry
  <2> QED BY <1>8, <2>2, <2>3, <2>4
<1> QED BY <1>8, <1>9, <1>10 DEF KeepsBoundary, y

-----------------------------------------------------------------------------
(* completeLocalRoot(): the root has no entry any more, is closed, and its *)
(* winner, if there is one, is sent.                                       *)
LEMMA EntryLeaves ==
  ASSUME NEW W, NEW x, Sound(W, x), NEW root \in PendingRoots(x)
  PROVE  LET y == [x EXCEPT !.pending = RemoveAt(@, Position(x, root))] IN
         /\ Sound(W, y) /\ Held(y) = {e \in Held(x) : e.root # root}
         /\ y.events = x.events /\ y.captured = x.captured /\ y.client = x.client
         /\ y.ambient = x.ambient /\ y.evicted = x.evicted /\ y.closed = x.closed
<1> DEFINE s == x.pending
           p == Position(x, root)
           q == RemoveAt(s, p)
           y == [x EXCEPT !.pending = q]
<1>1. x \in Trackers(W) /\ OneEventEach(x) /\ ClosedMap(x)
  BY DEF Sound
<1>2. /\ s \in Seq(Entries(W)) /\ Len(s) \in Nat /\ Len(s) <= MaxPendingRoots
      /\ \A i, j \in 1 .. Len(s) : s[i].root = s[j].root => i = j
  BY PendingEntries
<1>3. p \in 1 .. Len(s) /\ s[p].root = root
  BY HeldEntries DEF EntryOf
<1> HIDE DEF p, s
<1>4. q \in Seq(Entries(W)) /\ Len(q) = Len(s) - 1
  BY <1>2, <1>3, RemoveAtProperties
<1>5. /\ \A j \in 1 .. Len(s) - 1 : \E i \in 1 .. Len(s) : i # p /\ q[j] = s[i]
      /\ \A i \in 1 .. Len(s) : i # p => \E j \in 1 .. Len(s) - 1 : q[j] = s[i]
  <2>1. /\ \A j \in 1 .. Len(s) - 1 :
             \E i \in 1 .. Len(s) : i # p /\ RemoveAt(s, p)[j] = s[i]
                                    /\ (i = j \/ i = j + 1) /\ (i = j => j < p)
                                    /\ (i = j + 1 => j >= p)
        /\ \A i \in 1 .. Len(s) :
             i # p => \E j \in 1 .. Len(s) - 1 : RemoveAt(s, p)[j] = s[i]
    BY <1>2, <1>3, RemoveAtKeeps
  <2> QED BY <2>1
<1>6. \A i, j \in 1 .. Len(s) - 1 : i # j =>
        \E k, l \in 1 .. Len(s) : k # l /\ q[i] = s[k] /\ q[j] = s[l]
  BY <1>2, <1>3, RemoveAtDistinct
<1> HIDE DEF q
<1>7. /\ y \in Trackers(W) /\ y.pending = q
      /\ y.events = x.events /\ y.captured = x.captured /\ y.client = x.client
      /\ y.ambient = x.ambient /\ y.evicted = x.evicted /\ y.closed = x.closed
  BY <1>1, <1>4 DEF Trackers
<1>8. y = [x EXCEPT !.pending = RemoveAt(@, Position(x, root))]
  BY <1>1 DEF q, s, p, Trackers
<1> HIDE DEF y
<1>9. PendingMap(y)
  <2>1. \A i, j \in 1 .. Len(q) : i # j => q[i].root # q[j].root
    BY <1>2, <1>4, <1>6
  <2>2. Len(q) <= MaxPendingRoots
    BY <1>2, <1>4, CapsAssumption
  <2> QED BY <1>7, <2>1, <2>2 DEF PendingMap
<1>10. Held(y) = {e \in Held(x) : e.root # root}
  <2>1. \A i \in 1 .. Len(s) : i # p <=> s[i].root # root
    BY <1>2, <1>3
  <2>2. ASSUME NEW e \in Held(y) PROVE e \in Held(x) /\ e.root # root
    <3>1. PICK j \in 1 .. Len(s) - 1 : e = q[j]
      BY <1>4, <1>7 DEF Held
    <3>2. PICK i \in 1 .. Len(s) : i # p /\ q[j] = s[i]
      BY <1>5
    <3> QED BY <2>1, <3>1, <3>2 DEF Held, s
  <2>3. ASSUME NEW e \in Held(x), e.root # root PROVE e \in Held(y)
    <3>1. PICK i \in 1 .. Len(s) : e = s[i]
      BY DEF Held, s
    <3>2. PICK j \in 1 .. Len(s) - 1 : q[j] = s[i]
      BY <1>5, <2>1, <2>3, <3>1
    <3> QED BY <1>4, <1>7, <3>1, <3>2 DEF Held
  <2> QED BY <2>2, <2>3
<1>11. Sound(W, y)
  BY <1>1, <1>7, <1>9 DEF Sound, OneEventEach, ClosedMap
<1> QED BY <1>7, <1>8, <1>10, <1>11

(* What the end of a root sends: nothing, or one candidate. *)
WinnerOf(x, root, serverError) ==
  IF root \in PendingRoots(x) THEN Winner(x, root, serverError) ELSE None

Completes(W, x, y, root, winner) ==
  /\ Follows(W, x, y, {root})
  /\ Held(y) = {e \in Held(x) : e.root # root}
  /\ root \in ClosedRoots(y)
  /\ Reports(x, y, {EventOf(x, c, "complete") : c \in {winner} \ {None}})
  /\ winner # None /\ x.client /\ Enabled => winner.error \in y.captured

LEMMA CompleteLocalRootSends ==
  ASSUME NEW W, NEW x, Sound(W, x), NEW root \in W.roots, NEW serverError \in BOOLEAN
  PROVE  Completes(W, x, CompleteLocalRoot(x, root, serverError), root,
                   WinnerOf(x, root, serverError))
<1> DEFINE y == CompleteLocalRoot(x, root, serverError)
           winner == WinnerOf(x, root, serverError)
           less == IF root \in PendingRoots(x)
                   THEN [x EXCEPT !.pending = RemoveAt(@, Position(x, root))] ELSE x
           done == MarkClosed(less, root)
<1>1. /\ Sound(W, less) /\ Held(less) = {e \in Held(x) : e.root # root}
      /\ less.events = x.events /\ less.captured = x.captured /\ less.client = x.client
      /\ less.ambient = x.ambient /\ less.evicted = x.evicted /\ less.closed = x.closed
  <2>1. CASE root \in PendingRoots(x)
    BY <2>1, EntryLeaves
  <2>2. CASE root \notin PendingRoots(x)
    <3>1. \A e \in Held(x) : e.root # root
      BY <2>2, HeldEntries
    <3> QED BY <2>2, <3>1
  <2> QED BY <2>1, <2>2
<1>2. y = IF winner = None THEN done ELSE Emit(done, winner, "complete")
  BY DEF CompleteLocalRoot, WinnerOf
<1>3. winner # None => winner \in W.candidates
  <2>1. CASE root \in PendingRoots(x)
    <3>1. EntryOf(x, root) \in Entries(W)
      BY <2>1, HeldEntries
    <3>2. EntryOf(x, root).best \in W.candidates \cup {None}
          /\ EntryOf(x, root).boundary \in W.candidates \cup {None}
      BY <3>1 DEF Entries
    <3> QED BY <2>1, <3>2 DEF WinnerOf, Winner, BoundaryError
  <2> QED BY <2>1 DEF WinnerOf
<1> HIDE DEF less, winner
<1>4. /\ Sound(W, done) /\ done.events = x.events /\ done.captured = x.captured
      /\ done.client = x.client /\ done.ambient = x.ambient
      /\ Held(done) = {e \in Held(x) : e.root # root} /\ done.evicted = x.evicted
      /\ root \in ClosedRoots(done)
      /\ ClosedRoots(done) \subseteq ClosedRoots(x) \cup {root}
  <2>1. /\ Sound(W, done) /\ done.events = less.events /\ done.captured = less.captured
        /\ done.client = less.client /\ done.ambient = less.ambient
        /\ done.pending = less.pending /\ done.evicted = less.evicted
        /\ root \in ClosedRoots(done)
        /\ ClosedRoots(done) \subseteq ClosedRoots(less) \cup {root}
    BY <1>1, MarkClosedSound
  <2>2. ClosedRoots(less) = ClosedRoots(x)
    BY <1>1 DEF ClosedRoots
  <2> HIDE DEF done
  <2>3. Held(done) = Held(less)
    BY <2>1 DEF Held
  <2> QED BY <1>1, <2>1, <2>2, <2>3
<1> HIDE DEF done, y
<1>5. Follows(W, x, done, {root})
  <2>1. \A e : Match(e, e)
    BY DEF Match
  <2> QED BY <1>4, <2>1 DEF Follows
<1>6. x \in Trackers(W)
  BY DEF Sound
<1>7. CASE winner = None
  <2>1. Reports(x, done, {EventOf(x, c, "complete") : c \in {winner} \ {None}})
    BY <1>4, <1>6, ReportsNothing
  <2> QED BY <1>2, <1>4, <1>5, <1>7, <2>1 DEF Completes, y, winner
<1>8. CASE winner # None
  <2>1. winner \in W.candidates /\ "complete" \in Vias
    BY <1>3, <1>8 DEF Vias
  <2>2. y = Emit(done, winner, "complete")
    BY <1>2, <1>8
  <2>3. Sent(done, y, winner, "complete")
        /\ (done.client /\ Tracking(done) => winner.error \in y.captured)
    BY <1>4, <2>1, <2>2, EmitSends
  <2>4. /\ Follows(W, done, y, {}) /\ Reports(done, y, {EventOf(done, winner, "complete")})
        /\ Held(y) = Held(done) /\ ClosedRoots(y) = ClosedRoots(done)
    BY <1>4, <2>1, <2>3, SentFollows
  <2>5. Follows(W, x, y, {root})
    <3>1. Follows(W, done, y, {root})
      BY <2>4 DEF Follows
    <3> QED BY <1>5, <3>1, FollowsTwice
  <2>6. Reports(x, y, {EventOf(x, c, "complete") : c \in {winner} \ {None}})
    <3>1. EventOf(done, winner, "complete") = EventOf(x, winner, "complete")
      BY <1>4 DEF EventOf
    <3>2. EventOf(done, winner, "complete") \in
            {EventOf(x, c, "complete") : c \in {winner} \ {None}}
      BY <1>8, <3>1
    <3> QED BY <1>4, <2>4, <3>2 DEF Reports
  <2>7. x.client /\ Enabled => winner.error \in y.captured
    BY <1>4, <2>3 DEF Tracking
  <2> QED BY <1>4, <2>4, <2>5, <2>6, <2>7 DEF Completes, y, winner
<1> QED BY <1>7, <1>8
=============================================================================
