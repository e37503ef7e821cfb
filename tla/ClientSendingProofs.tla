------------------------ MODULE ClientSendingProofs ------------------------
(***************************************************************************)
(* What the client sends, for every cap, any number of senders, flushers,  *)
(* items, posts and environments: the immediate mode loses no place and    *)
(* flushPending() waits for what is on the air, the items of a trace are   *)
(* sampled together, the simulator tells what the gate does, an event      *)
(* keeps its id, and what is on the wire is what the application said and  *)
(* where it said it.                                                       *)
(***************************************************************************)
EXTENDS ImmediateQueue, ClientPipeline, FiniteSetTheorems, SequenceTheorems,
        WellFoundedInduction, TLAPS

-----------------------------------------------------------------------------
(* What each flush still owes it still waits for: an item on the air has   *)
(* its promise in immediateSends, and in the snapshot of every flush that  *)
(* was called since.                                                       *)
SendTypes ==
  /\ send \in [Slots -> {"none", "inFlight", "settled"}]
  /\ immediateSends = {s \in Slots : send[s] # "none"}
FlushTypes ==
  /\ pending \in [Flushers -> SUBSET Slots]
  /\ flush \in [Flushers -> {"none", "waiting", "returned"}]
  /\ owed \in [Flushers -> SUBSET Slots]
OwedInv ==
  \A f \in Flushers :
    /\ owed[f] \subseteq InFlight
    /\ owed[f] \subseteq pending[f]
    /\ flush[f] = "returned" => pending[f] = {}
CapInv == EveryPlaceCounted /\ inFlightImmediate <= MaxInFlight
AirInv == SendTypes /\ FlushTypes /\ OwedInv /\ CapInv

LEMMA InFlightFinite ==
  IsFiniteSet(InFlight) /\ Cardinality(InFlight) \in Nat
<1>1. InFlight \subseteq Slots
  BY DEF InFlight
<1>2. IsFiniteSet(InFlight)
  BY <1>1, ImmediateAssumption, FS_Subset
<1> QED BY <1>2, FS_CardinalityType

LEMMA AirInit == Init => AirInv
<1> SUFFICES ASSUME Init PROVE AirInv
  OBVIOUS
<1>1. InFlight = {}
  BY DEF Init, InFlight
<1>2. EveryPlaceCounted
  BY <1>1, FS_EmptySet DEF Init, EveryPlaceCounted
<1>3. inFlightImmediate <= MaxInFlight
  BY ImmediateAssumption DEF Init
<1>4. OwedInv
  BY DEF Init, OwedInv
<1> QED BY <1>2, <1>3, <1>4 DEF Init, AirInv, CapInv, SendTypes, FlushTypes

(* A send that starts takes one place. *)
LEMMA PlaceTaken ==
  ASSUME AirInv, NEW s \in Slots, DeliverImmediately(s)
  PROVE  CapInv' /\ InFlight' = InFlight \cup {s}
<1>1. InFlight' = InFlight \cup {s} /\ s \notin InFlight
  BY DEF DeliverImmediately, InFlight, AirInv, SendTypes
<1>2. Cardinality(InFlight \cup {s}) = Cardinality(InFlight) + 1
  BY <1>1, InFlightFinite, FS_AddElement
<1>3. inFlightImmediate' = inFlightImmediate + 1
      /\ inFlightImmediate < MaxInFlight
  BY DEF DeliverImmediately
<1>4. inFlightImmediate = Cardinality(InFlight)
  BY DEF AirInv, CapInv, EveryPlaceCounted
<1>5. inFlightImmediate' = Cardinality(InFlight')
  BY <1>1, <1>2, <1>3, <1>4
<1>6. inFlightImmediate + 1 <= MaxInFlight
  BY <1>3, <1>4, InFlightFinite, ImmediateAssumption
<1> QED BY <1>1, <1>3, <1>5, <1>6 DEF CapInv, EveryPlaceCounted

(* A send that ends, either way, gives it back. *)
SendEnds(s) == SendSucceeds(s) \/ SendFails(s)

LEMMA PlaceGivenBack ==
  ASSUME AirInv, NEW s \in Slots, SendEnds(s)
  PROVE  CapInv' /\ InFlight' = InFlight \ {s}
<1>1. InFlight' = InFlight \ {s} /\ s \in InFlight
  BY DEF SendEnds, SendSucceeds, SendFails, InFlight, AirInv, SendTypes
<1>2. Cardinality(InFlight \ {s}) = Cardinality(InFlight) - 1
  BY <1>1, InFlightFinite, FS_RemoveElement
<1>3. inFlightImmediate' = inFlightImmediate - 1
  BY DEF SendEnds, SendSucceeds, SendFails
<1>4. inFlightImmediate = Cardinality(InFlight)
      /\ inFlightImmediate <= MaxInFlight
  BY DEF AirInv, CapInv, EveryPlaceCounted
<1>5. inFlightImmediate' = Cardinality(InFlight')
  BY <1>1, <1>2, <1>3, <1>4
<1>6. inFlightImmediate - 1 <= MaxInFlight
  BY <1>4, InFlightFinite, ImmediateAssumption
<1> QED BY <1>1, <1>3, <1>5, <1>6 DEF CapInv, EveryPlaceCounted

LEMMA PlaceKept ==
  ASSUME CapInv, InFlight' = InFlight, inFlightImmediate' = inFlightImmediate
  PROVE  CapInv'
BY DEF CapInv, EveryPlaceCounted

LEMMA AirStep == AirInv /\ [Next]_vars => AirInv'
<1> SUFFICES ASSUME AirInv, [Next]_vars PROVE AirInv'
  OBVIOUS
<1> USE DEF AirInv
<1>1. ASSUME NEW s \in Slots, DeliverImmediately(s) PROVE AirInv'
  <2>1. SendTypes' /\ FlushTypes'
    BY <1>1 DEF DeliverImmediately, SendTypes, FlushTypes
  <2>2. OwedInv'
    BY <1>1, PlaceTaken DEF DeliverImmediately, OwedInv
  <2> QED BY <1>1, <2>1, <2>2, PlaceTaken
<1>2. ASSUME NEW s \in Slots, SendEnds(s) PROVE AirInv'
  <2>1. /\ send[s] = "inFlight" /\ send' = [send EXCEPT ![s] = "settled"]
        /\ owed' = Without(owed, s)
        /\ UNCHANGED <<immediateSends, pending, flush>>
    BY <1>2 DEF SendEnds, SendSucceeds, SendFails
  <2>2. SendTypes' /\ FlushTypes'
    BY <2>1 DEF SendTypes, FlushTypes, Without
  <2>3. OwedInv'
    BY <1>2, <2>1, PlaceGivenBack DEF OwedInv, Without
  <2> QED BY <1>2, <2>2, <2>3, PlaceGivenBack
<1>3. ASSUME NEW s \in Slots, Forget(s) PROVE AirInv'
  <2>1. SendTypes' /\ FlushTypes'
    BY <1>3 DEF Forget, SendTypes, FlushTypes, Without
  <2>2. InFlight' = InFlight /\ s \notin InFlight
    BY <1>3 DEF Forget, InFlight, SendTypes
  <2>3. OwedInv'
    BY <1>3, <2>2 DEF Forget, OwedInv, Without, FlushTypes
  <2>4. CapInv'
    BY <1>3, <2>2, PlaceKept DEF Forget
  <2> QED BY <2>1, <2>3, <2>4
<1>4. ASSUME NEW f \in Flushers, FlushPending(f) PROVE AirInv'
  <2>1. InFlight' = InFlight /\ InFlight \subseteq immediateSends
        /\ InFlight \subseteq Slots /\ immediateSends \subseteq Slots
    BY <1>4 DEF FlushPending, InFlight, SendTypes
  <2>2. SendTypes' /\ FlushTypes'
    BY <1>4, <2>1 DEF FlushPending, SendTypes, FlushTypes
  <2>3. OwedInv'
    BY <1>4, <2>1 DEF FlushPending, OwedInv, FlushTypes
  <2>4. CapInv'
    BY <1>4, <2>1, PlaceKept DEF FlushPending
  <2> QED BY <2>2, <2>3, <2>4
<1>5. ASSUME NEW f \in Flushers, FlushReturns(f) PROVE AirInv'
  <2>1. InFlight' = InFlight
    BY <1>5 DEF FlushReturns, InFlight
  <2>2. SendTypes' /\ FlushTypes'
    BY <1>5 DEF FlushReturns, SendTypes, FlushTypes
  <2>3. OwedInv'
    BY <1>5, <2>1 DEF FlushReturns, OwedInv, FlushTypes
  <2>4. CapInv'
    BY <1>5, <2>1, PlaceKept DEF FlushReturns
  <2> QED BY <2>2, <2>3, <2>4
<1>6. CASE UNCHANGED vars
  <2>1. InFlight' = InFlight
    BY <1>6 DEF vars, InFlight
  <2>2. CapInv'
    BY <1>6, <2>1, PlaceKept DEF vars
  <2> QED BY <1>6, <2>1, <2>2 DEF vars, SendTypes, FlushTypes, OwedInv
<1> QED BY <1>1, <1>2, <1>3, <1>4, <1>5, <1>6 DEF Next, SendEnds

LEMMA AlwaysOnAir == Spec => []AirInv
BY AirInit, AirStep, PTL DEF Spec

(* A flushPending() that has returned left nothing on the air that had     *)
(* been started before it, for every cap and number of callers             *)
(* (event-queue.ts:74-76).                                                 *)
THEOREM FlushWaits == Spec => []FlushAwaitsSends
<1>1. AirInv => FlushAwaitsSends
  BY DEF AirInv, OwedInv, FlushAwaitsSends, FlushTypes
<1> QED BY <1>1, AlwaysOnAir, PTL

(* No failure costs a place: the counter is the number of sends on the air *)
(* (event-queue.ts:96-107).                                                *)
THEOREM NoPlaceLost == Spec => []EveryPlaceCounted
<1>1. AirInv => EveryPlaceCounted
  BY DEF AirInv, CapInv
<1> QED BY <1>1, AlwaysOnAir, PTL

(* Types, and never more than MAX_IN_FLIGHT_IMMEDIATE sends at a time.     *)
THEOREM CapHolds == Spec => []TypeOK
<1>1. ASSUME AirInv PROVE TypeOK
  <2>1. inFlightImmediate \in 0 .. MaxInFlight
    BY <1>1, InFlightFinite, ImmediateAssumption
    DEF AirInv, CapInv, EveryPlaceCounted
  <2> QED BY <1>1, <2>1 DEF AirInv, SendTypes, FlushTypes, TypeOK
<1> QED BY <1>1, AlwaysOnAir, PTL

-----------------------------------------------------------------------------
\* What the sequence of decisions holds, and that it is a sequence.
Made == {decided[i] : i \in DOMAIN decided}
DecidedIsSeq == decided \in Seq(Made)

\* A decision is what evaluateCapture() says of what was decided, and its draw is
\* that of its trace.
Consistent(d) ==
  /\ d.kept = EvaluateCapture(d.policy, d.item, d.critical, d.draw)
  /\ d.trace \in DOMAIN lots => d.draw = lots[d.trace]
AllConsistent == \A d \in Made : Consistent(d)

LotsOK == \A trace \in DOMAIN lots : lots[trace] \in Nat

IInv == DecidedIsSeq /\ AllConsistent /\ LotsOK

-----------------------------------------------------------------------------
\* Appending adds one element.
LEMMA AppendMakes ==
  ASSUME NEW s, NEW e, s \in Seq({s[i] : i \in DOMAIN s})
  PROVE  /\ {Append(s, e)[i] : i \in DOMAIN Append(s, e)} = {s[i] : i \in DOMAIN s} \cup {e}
         /\ Append(s, e) \in Seq({Append(s, e)[i] : i \in DOMAIN Append(s, e)})
<1> DEFINE S == {s[i] : i \in DOMAIN s}
           T == S \cup {e}
           a == Append(s, e)
<1>1. s \in Seq(T) /\ e \in T /\ DOMAIN s = 1..Len(s) /\ Len(s) \in Nat
  OBVIOUS
<1>2. a \in Seq(T) /\ Len(a) = Len(s) + 1 /\ DOMAIN a = 1..(Len(s) + 1)
  BY <1>1
<1>3. a[Len(s) + 1] = e /\ \A i \in 1..Len(s) : a[i] = s[i]
  BY <1>1
<1>4. {a[i] : i \in DOMAIN a} \subseteq T
  BY <1>1, <1>2
<1>5. ASSUME NEW x \in T PROVE x \in {a[i] : i \in DOMAIN a}
  <2>1. CASE x = e
    BY <2>1, <1>1, <1>2, <1>3
  <2>2. CASE x \in S
    <3>1. PICK i \in 1..Len(s) : x = s[i]
      BY <2>2, <1>1
    <3>2. i \in DOMAIN a /\ a[i] = x
      BY <3>1, <1>1, <1>2, <1>3
    <3> QED  BY <3>2
  <2> QED  BY <1>5, <2>1, <2>2
<1>6. {a[i] : i \in DOMAIN a} = T
  BY <1>4, <1>5
<1> QED  BY <1>2, <1>6

\* What is sampled is kept if its draw is not above the rate.
LEMMA SampledKeeps ==
  ASSUME NEW d, SampledAt(d) \in Nat, d.draw \in Nat
  PROVE  EvaluateCapture(d.policy, d.item, d.critical, d.draw) <=> d.draw <= SampledAt(d)
<1> DEFINE action == d.policy.rules[FirstMatch(d.policy, d.item)].action
           forced == Field(action, "forceCapture", FALSE)
           captured == Field(action, "capture", TRUE)
           rate == Field(action, "sampleRate", -1)
           passed == ~d.policy.enabled \/ d.critical \/ Matching(d.policy, d.item) = {}
           settled == forced \/ ~captured
<1>0. SampledAt(d) = IF passed THEN -1 ELSE IF settled THEN -1 ELSE rate
  BY DEF SampledAt
<1>1. ~passed /\ ~settled /\ SampledAt(d) = rate
  <2> HIDE DEF passed, settled, rate
  <2> QED  BY <1>0
<1>3. "sampleRate" \in DOMAIN action /\ rate = action.sampleRate
  BY <1>1 DEF Field
<1>4. ActionKeeps(action, d.draw) <=> ~(d.draw > action.sampleRate)
  BY <1>1, <1>3 DEF ActionKeeps
<1>5. EvaluateCapture(d.policy, d.item, d.critical, d.draw) <=> ActionKeeps(action, d.draw)
  BY <1>1 DEF EvaluateCapture
<1> QED  BY <1>1, <1>3, <1>4, <1>5

\* The draw of an item of a known trace is the draw of the trace.
LEMMA DrawOfTrace ==
  ASSUME NEW trace, NEW draw \in RngFor(trace), trace \in DOMAIN lots
  PROVE  draw = lots[trace]
BY DEF RngFor

\* A decision is appended to consistent ones.
LEMMA DecideKeeps ==
  ASSUME IInv, NEW env, NEW item, NEW critical, NEW trace, NEW draw \in RngFor(trace),
         Decide(env, item, critical, trace, draw), lots' = lots
  PROVE  IInv'
<1> DEFINE d == [env |-> env, policy |-> policy, item |-> item, critical |-> critical, trace |-> trace,
                 draw |-> draw, kept |-> EvaluateCapture(policy, item, critical, draw)]
<1>1. decided' = Append(decided, d)
  BY DEF Decide
<1>2. DecidedIsSeq' /\ Made' = Made \cup {d}
  BY <1>1, AppendMakes DEF IInv, DecidedIsSeq, Made
<1>3. ASSUME NEW e, e = d PROVE Consistent(e)'
  BY <1>3, DrawOfTrace DEF Consistent
<1>4. \A e \in Made : Consistent(e)'
  BY DEF IInv, AllConsistent, Consistent
<1>5. AllConsistent'
  <2> SUFFICES ASSUME NEW e \in Made' PROVE Consistent(e)'
    BY DEF AllConsistent
  <2>1. e \in Made \/ e = d
    <3> HIDE DEF d
    <3> QED  BY <1>2
  <2>2. CASE e \in Made
    BY <2>2, <1>4
  <2>3. CASE e = d
    BY <2>3, <1>3
  <2> QED  BY <2>1, <2>2, <2>3
<1> QED  BY <1>2, <1>5 DEF IInv, LotsOK

LEMMA InitIInv == PipelineInit => IInv
<1> SUFFICES ASSUME PipelineInit PROVE IInv
  OBVIOUS
<1>1. decided = <<>> /\ Made = {}
  BY DEF PipelineInit, Made
<1>2. LotsOK
  BY PipelineAssumption DEF PipelineInit, SamplingValues, LotsOK
<1> QED  BY <1>1, <1>2 DEF IInv, DecidedIsSeq, AllConsistent

LEMMA NextIInv == IInv /\ [PipelineNext]_pipelineVars => IInv'
<1> SUFFICES ASSUME IInv, [PipelineNext]_pipelineVars PROVE IInv'
  OBVIOUS
<1>1. ASSUME NEW env \in Environments, NEW span_type, EnqueueSpan(env, span_type) PROVE IInv'
  BY <1>1, DecideKeeps DEF EnqueueSpan
<1>2. ASSUME NEW env \in Environments, Enqueue(env) PROVE IInv'
  BY <1>2, DecideKeeps DEF Enqueue
<1>3. ASSUME UNCHANGED <<decided, lots>> PROVE IInv'
  BY <1>3 DEF IInv, DecidedIsSeq, AllConsistent, Made, Consistent, LotsOK
<1>4. ASSUME NEW answer, Refresh(answer) PROVE IInv'
  BY <1>3, <1>4 DEF Refresh
<1>5. ASSUME NEW status, SendDefaultIngest(status) PROVE IInv'
  BY <1>3, <1>5 DEF SendDefaultIngest
<1>6. CASE UNCHANGED pipelineVars
  BY <1>3, <1>6 DEF pipelineVars
<1> QED  BY <1>1, <1>2, <1>4, <1>5, <1>6 DEF PipelineNext

LEMMA IInvSamples == IInv => SampledTogether
<1> SUFFICES ASSUME IInv, NEW i \in DOMAIN decided, NEW j \in DOMAIN decided,
                    decided[i].trace = decided[j].trace, decided[i].trace \in DOMAIN lots,
                    SampledAt(decided[i]) \in Nat, SampledAt(decided[j]) \in Nat,
                    SampledAt(decided[i]) <= SampledAt(decided[j]), decided[i].kept
             PROVE  decided[j].kept
  BY DEF SampledTogether
<1>1. Consistent(decided[i]) /\ Consistent(decided[j])
  BY DEF IInv, AllConsistent, Made
<1>2. decided[i].draw \in Nat /\ decided[j].draw = decided[i].draw
  BY <1>1 DEF Consistent, IInv, LotsOK
<1>3. decided[i].draw <= SampledAt(decided[i])
  BY <1>1, <1>2, SampledKeeps DEF Consistent
<1>4. decided[j].draw <= SampledAt(decided[j])
  BY <1>2, <1>3
<1> QED  BY <1>1, <1>2, <1>4, SampledKeeps DEF Consistent

\* "o trace inteiro fica ou sai junto" (capture-policy-engine.ts:236-242): the items
\* of one trace that are sampled at one rate are all kept or all dropped, however
\* many they are and whatever policies the server sends meanwhile.
THEOREM TraceSampledTogether == PipelineSpec => []SampledTogether
<1>1. PipelineSpec => []IInv
  BY InitIInv, NextIInv, PTL DEF PipelineSpec
<1> QED  BY <1>1, IInvSamples, PTL

-----------------------------------------------------------------------------
LEMMA LeastNatural ==
  ASSUME NEW T \in SUBSET Nat, T # {}
  PROVE  \E n \in T : \A m \in T : n <= m
<1>1. \E n \in T : \A m \in T : <<m, n>> \notin OpToRel(<, Nat)
  BY NatLessThanWellFounded, WFMin
<1>2. ASSUME NEW m \in Nat, NEW n \in Nat, <<m, n>> \notin OpToRel(<, Nat)
      PROVE  n <= m
  <2>1. ~(m < n)
    BY <1>2 DEF OpToRel
  <2> QED BY <2>1
<1> QED BY <1>1, <1>2

LEMMA SetInduction ==
  ASSUME NEW T, 0 \in T, \A n \in Nat : n \in T => n + 1 \in T
  PROVE  \A n \in Nat : n \in T
<1> DEFINE U == {n \in Nat : n \notin T}
<1> SUFFICES ASSUME U # {} PROVE FALSE
  OBVIOUS
<1>1. PICK n \in U : \A m \in U : n <= m
  <2>1. U \in SUBSET Nat
    OBVIOUS
  <2> HIDE DEF U
  <2> QED BY <2>1, LeastNatural
<1>2. n # 0 /\ n \in Nat
  OBVIOUS
<1>3. n - 1 \in Nat /\ ~(n <= n - 1) /\ (n - 1) + 1 = n
  BY <1>2
<1>4. n - 1 \in T
  BY <1>1, <1>3
<1>5. n \in T
  BY <1>3, <1>4
<1> QED BY <1>5

\* What Filter() has taken of the first elements of a sequence.
Taken(f, s, indices, n) ==
  f = [i \in 0..n |-> IF i = 0 THEN <<>>
                      ELSE IF i \in indices THEN Append(f[i - 1], s[i]) ELSE f[i - 1]]

LEMMA TakenExists ==
  ASSUME NEW s, NEW indices, NEW n \in Nat
  PROVE  \E f : Taken(f, s, indices, n)
<1> DEFINE More(g, i) == IF i \in indices THEN Append(g[i - 1], s[i]) ELSE g[i - 1]
           T == {m \in Nat : \E g : g = [i \in 0..m |-> IF i = 0 THEN <<>> ELSE More(g, i)]}
<1>1. 0 \in T
  <2> DEFINE g == [i \in 0..0 |-> <<>>]
  <2>1. g = [i \in 0..0 |-> IF i = 0 THEN <<>> ELSE More(g, i)]
    OBVIOUS
  <2> QED  BY <2>1
<1>2. ASSUME NEW m \in Nat, m \in T PROVE m + 1 \in T
  <2>1. PICK g : g = [i \in 0..m |-> IF i = 0 THEN <<>> ELSE More(g, i)]
    BY <1>2
  <2> DEFINE last == IF m + 1 \in indices THEN Append(g[m], s[m + 1]) ELSE g[m]
             h == [i \in 0..m + 1 |-> IF i = m + 1 THEN last ELSE g[i]]
             step(i) == IF i = 0 THEN <<>> ELSE More(h, i)
  <2>2. ASSUME NEW i \in 0..m + 1 PROVE h[i] = step(i)
    <3>1. CASE i = m + 1
      <4>1. i - 1 = m /\ m \in 0..m + 1 /\ m # m + 1 /\ i # 0
        BY <3>1
      <4>2. h[m] = g[m] /\ h[i] = last
        BY <3>1, <4>1
      <4> HIDE DEF h
      <4> QED  BY <3>1, <4>1, <4>2
    <3>2. CASE i # m + 1
      <4>1. i \in 0..m
        BY <3>2
      <4>2. h[i] = g[i]
        BY <3>2
      <4>3. g[i] = IF i = 0 THEN <<>> ELSE More(g, i)
        BY <2>1, <4>1
      <4>4. i # 0 => h[i - 1] = g[i - 1]
        BY <4>1
      <4> HIDE DEF h
      <4> QED  BY <4>2, <4>3, <4>4
    <3> QED  BY <3>1, <3>2
  <2>3. h = [i \in 0..m + 1 |-> step(i)]
    <3>1. h = [i \in 0..m + 1 |-> h[i]]
      OBVIOUS
    <3> HIDE DEF h
    <3> QED  BY <2>2, <3>1
  <2> HIDE DEF h
  <2> QED  BY <2>3
<1> HIDE DEF T
<1>3. n \in T
  BY <1>1, <1>2, SetInduction
<1> QED  BY <1>3 DEF T, Taken

\* What is filtered is elements of the sequence at the indices, and the whole of it
\* if that is all of them.
LEMMA FilterSelects ==
  ASSUME NEW S, NEW s \in Seq(S), NEW indices
  PROVE  LET taken == {s[i] : i \in indices \cap DOMAIN s}
         IN /\ Filter(s, indices) \in Seq(taken)
            /\ DOMAIN s \subseteq indices => Filter(s, indices) = s
<1> DEFINE taken == {s[i] : i \in indices \cap DOMAIN s}
           f == CHOOSE g : Taken(g, s, indices, Len(s))
<1>1. Len(s) \in Nat /\ DOMAIN s = 1..Len(s) /\ \A i \in 1..Len(s) : s[i] \in S
  OBVIOUS
<1>2. Taken(f, s, indices, Len(s))
  BY <1>1, TakenExists
<1>3. Filter(s, indices) = f[Len(s)]
  BY DEF Filter, Taken
<1> HIDE DEF f
<1>4. \A i \in 0..Len(s) :
        f[i] = IF i = 0 THEN <<>>
               ELSE IF i \in indices THEN Append(f[i - 1], s[i]) ELSE f[i - 1]
  BY <1>2 DEF Taken
<1> DEFINE P(n) == /\ f[n] \in Seq(taken)
                   /\ DOMAIN s \subseteq indices =>
                        Len(f[n]) = n /\ \A j \in 1..n : f[n][j] = s[j]
           T == {n \in Nat : n <= Len(s) => P(n)}
<1>5. 0 \in T
  <2>1. f[0] = <<>>
    BY <1>1, <1>4
  <2> HIDE DEF taken
  <2>2. f[0] \in Seq(taken) /\ Len(f[0]) = 0
    BY <2>1
  <2>3. \A j \in 1..0 : f[0][j] = s[j]
    OBVIOUS
  <2>4. P(0)
    BY <2>2, <2>3
  <2> QED  BY <2>4
<1>6. ASSUME NEW n \in Nat, n \in T PROVE n + 1 \in T
  <2> SUFFICES ASSUME n + 1 <= Len(s) PROVE P(n + 1)
    OBVIOUS
  <2>1. f[n] \in Seq(taken)
        /\ (DOMAIN s \subseteq indices => Len(f[n]) = n /\ \A j \in 1..n : f[n][j] = s[j])
    BY <1>1, <1>6
  <2>2. f[n + 1] = IF n + 1 \in indices THEN Append(f[n], s[n + 1]) ELSE f[n]
    <3>1. n + 1 \in 0..Len(s) /\ n + 1 # 0 /\ (n + 1) - 1 = n
      BY <1>1
    <3> QED  BY <1>4, <3>1
  <2>3. n + 1 \in DOMAIN s
    BY <1>1
  <2>4. CASE n + 1 \in indices
    <3>1. s[n + 1] \in taken /\ f[n + 1] = Append(f[n], s[n + 1])
      BY <2>2, <2>3, <2>4
    <3> HIDE DEF taken
    <3>2. /\ f[n + 1] \in Seq(taken) /\ Len(f[n + 1]) = Len(f[n]) + 1
          /\ f[n + 1][Len(f[n]) + 1] = s[n + 1]
          /\ \A j \in 1..Len(f[n]) : f[n + 1][j] = f[n][j]
      BY <2>1, <3>1
    <3>3. ASSUME DOMAIN s \subseteq indices, NEW j \in 1..n + 1 PROVE f[n + 1][j] = s[j]
      <4>1. Len(f[n]) = n
        BY <2>1, <3>3
      <4>2. CASE j = n + 1
        BY <3>2, <4>1, <4>2
      <4>3. CASE j # n + 1
        <5>1. j \in 1..n
          BY <4>3
        <5> QED  BY <2>1, <3>2, <3>3, <4>1, <5>1
      <4> QED  BY <4>2, <4>3
    <3> QED  BY <2>1, <3>2, <3>3
  <2>5. CASE n + 1 \notin indices
    BY <2>1, <2>2, <2>3, <2>5
  <2> QED  BY <2>4, <2>5
<1> HIDE DEF T
<1>7. Len(s) \in T
  BY <1>1, <1>5, <1>6, SetInduction
<1>8. P(Len(s))
  BY <1>1, <1>7 DEF T
<1>9. ASSUME DOMAIN s \subseteq indices PROVE f[Len(s)] = s
  <2>1. f[Len(s)] \in Seq(taken) /\ Len(f[Len(s)]) = Len(s)
        /\ \A j \in 1..Len(s) : f[Len(s)][j] = s[j]
    BY <1>8, <1>9
  <2> HIDE DEF taken
  <2>2. f[Len(s)] = [j \in 1..Len(s) |-> f[Len(s)][j]]
    BY <2>1
  <2>3. s = [j \in 1..Len(s) |-> s[j]]
    BY <1>1
  <2> QED  BY <2>1, <2>2, <2>3
<1> QED  BY <1>3, <1>8, <1>9

-----------------------------------------------------------------------------
\* A compiled policy says of every type of item whether it is captured, and its
\* rules pass the strict parse.
RulesOK(rules) ==
  /\ \E S : rules \in Seq(S)
  /\ \A i \in DOMAIN rules : ValidRule(rules[i])

Compiled(p) ==
  /\ p = [enabled |-> p.enabled, defaults |-> p.defaults, rules |-> p.rules]
  /\ p.enabled \in BOOLEAN /\ p.defaults \in [EventTypes -> BOOLEAN] /\ RulesOK(p.rules)

LEMMA NoRules == RulesOK(<<>>)
<1>1. <<>> \in Seq({}) /\ DOMAIN <<>> = {}
  OBVIOUS
<1> QED  BY <1>1 DEF RulesOK

LEMMA DefaultCompiles == Compiled(DEFAULT_COMPILED_CAPTURE_POLICY)
<1> DEFINE p == DEFAULT_COMPILED_CAPTURE_POLICY
<1>1. p = [enabled |-> TRUE, defaults |-> MergeDefaults(<<>>), rules |-> <<>>]
  BY DEF DEFAULT_COMPILED_CAPTURE_POLICY
<1>2. MergeDefaults(<<>>) \in [EventTypes -> BOOLEAN]
  <2>1. DOMAIN <<>> = {}
    OBVIOUS
  <2> QED  BY <2>1 DEF MergeDefaults, Field
<1>3. RulesOK(<<>>)
  BY NoRules
<1> QED  BY <1>1, <1>2, <1>3 DEF Compiled

LEMMA CompileCompiles ==
  ASSUME NEW wire, wire.enabled \in BOOLEAN, RulesOK(wire.rules),
         \A type \in DOMAIN wire.defaultCapture \cap EventTypes : wire.defaultCapture[type] \in BOOLEAN
  PROVE  Compiled(Compile(wire))
<1>1. MergeDefaults(wire.defaultCapture) \in [EventTypes -> BOOLEAN]
  BY DEF MergeDefaults, Field
<1> QED  BY <1>1 DEF Compile, Compiled

\* No rule for metrics is left among those that pass.
LEMMA ParseCompiles ==
  ASSUME NEW answer \in Answers
  PROVE  Compiled(ParseAndCompile(answer, AlwaysRate))
<1> DEFINE rules == DropLegacyMetricRules(answer.rules)
           parsed == answer.shape = "v2" /\ \A i \in DOMAIN rules : ValidRule(rules[i])
           wire == [enabled |-> answer.enabled, defaultCapture |-> answer.defaultCapture, rules |-> rules]
           old == LegacyToV2Wire(answer, AlwaysRate)
<1>1. CASE parsed
  <2>1. \E S : rules \in Seq(S)
    <3> DEFINE S == {answer.rules[i] : i \in DOMAIN answer.rules}
               others == {i \in DOMAIN answer.rules :
                            Field(answer.rules[i].match, "eventType", "log") # "metric"}
    <3>1. answer.rules \in Seq(S)
      BY AnswersAssumption
    <3>2. rules = Filter(answer.rules, others)
      BY DEF DropLegacyMetricRules
    <3> HIDE DEF rules, others, S
    <3> QED  BY <3>1, <3>2, FilterSelects
  <2>2. RulesOK(rules)
    BY <1>1, <2>1 DEF RulesOK
  <2>3. ParseAndCompile(answer, AlwaysRate) = Compile(wire)
    BY <1>1 DEF ParseAndCompile
  <2> HIDE DEF rules
  <2>4. /\ wire.enabled = answer.enabled /\ wire.rules = rules
        /\ wire.defaultCapture = answer.defaultCapture
    OBVIOUS
  <2>5. Compiled(Compile(wire))
    <3>1. wire.enabled \in BOOLEAN
          /\ \A type \in DOMAIN wire.defaultCapture \cap EventTypes : wire.defaultCapture[type] \in BOOLEAN
      BY <1>1, <2>4, AnswersAssumption
    <3> HIDE DEF wire
    <3> QED  BY <2>2, <2>4, <3>1, CompileCompiles
  <2> QED  BY <2>3, <2>5
<1>2. CASE ~parsed /\ answer.shape = "legacy"
  <2>1. ParseAndCompile(answer, AlwaysRate) = Compile(old)
    <3>1. answer.shape # "v2"
      BY <1>2
    <3> QED  BY <1>2, <3>1 DEF ParseAndCompile
  <2> DEFINE rate == Field(answer, "logSampleRate", AlwaysRate)
             rule == [match |-> [eventType |-> "log"], action |-> [sampleRate |-> answer.logSampleRate]]
  <2>2. old.enabled = TRUE /\ old.rules = (IF rate >= AlwaysRate THEN <<>> ELSE <<rule>>)
    BY DEF LegacyToV2Wire
  <2>3. \A type \in DOMAIN old.defaultCapture \cap EventTypes : old.defaultCapture[type] \in BOOLEAN
    <3>1. {answer.captureErrors, answer.captureLogs, answer.captureHttpRequests} \subseteq BOOLEAN
      BY <1>2, AnswersAssumption
    <3>2. old.defaultCapture = [log |-> answer.captureLogs, error |-> answer.captureErrors,
                                http |-> answer.captureHttpRequests, span |-> answer.captureLogs]
      BY DEF LegacyToV2Wire
    <3> HIDE DEF old
    <3> QED  BY <3>1, <3>2 DEF EventTypes
  <2>4. ValidRule(rule)
    BY DEF ValidRule, MatchFields, ActionFields, Field, EventTypes
  <2>5. RulesOK(<<rule>>)
    <3> HIDE DEF rule
    <3>1. <<rule>> \in Seq({rule}) /\ \A i \in DOMAIN <<rule>> : <<rule>>[i] = rule
      OBVIOUS
    <3> QED  BY <2>4, <3>1 DEF RulesOK
  <2>6. RulesOK(old.rules)
    <3> HIDE DEF rule, rate, old
    <3> QED  BY <2>2, <2>5, NoRules
  <2> HIDE DEF old
  <2>7. Compiled(Compile(old))
    <3>1. old.enabled \in BOOLEAN
      BY <2>2
    <3> QED  BY <2>3, <2>6, <3>1, CompileCompiles
  <2> QED  BY <2>1, <2>7
<1>3. CASE ~parsed /\ answer.shape # "legacy"
  <2>1. ParseAndCompile(answer, AlwaysRate) = DEFAULT_COMPILED_CAPTURE_POLICY
    BY <1>3 DEF ParseAndCompile
  <2> QED  BY <2>1, DefaultCompiles
<1> QED  BY <1>1, <1>2, <1>3

\* Stored and fetched again a compiled policy is the same.
LEMMA RoundTrip ==
  ASSUME NEW p, Compiled(p)
  PROVE  ParseAndCompile(CompiledToV2Wire(p), AlwaysRate) = p
<1> DEFINE wire == CompiledToV2Wire(p)
           rules == DropLegacyMetricRules(wire.rules)
           others == {i \in DOMAIN p.rules : Field(p.rules[i].match, "eventType", "log") # "metric"}
<1>1. /\ wire.shape = "v2" /\ wire.enabled = p.enabled /\ wire.rules = p.rules
      /\ wire.defaultCapture = p.defaults
  BY DEF CompiledToV2Wire
<1>2. DOMAIN p.rules \subseteq others
  <2>1. "metric" \notin EventTypes
    BY DEF EventTypes
  <2> QED  BY <2>1 DEF Compiled, RulesOK, ValidRule
<1>3. rules = p.rules
  <2>1. PICK S : p.rules \in Seq(S)
    BY DEF Compiled, RulesOK
  <2>2. rules = Filter(p.rules, others)
    BY <1>1 DEF DropLegacyMetricRules
  <2> HIDE DEF rules, others, wire
  <2> QED  BY <1>2, <2>1, <2>2, FilterSelects
<1>4. \A i \in DOMAIN rules : ValidRule(rules[i])
  BY <1>3 DEF Compiled, RulesOK
<1>5. ParseAndCompile(wire, AlwaysRate) =
        Compile([enabled |-> wire.enabled, defaultCapture |-> wire.defaultCapture, rules |-> rules])
  <2> HIDE DEF wire
  <2> QED  BY <1>1, <1>4 DEF ParseAndCompile
<1>6. MergeDefaults(p.defaults) = p.defaults
  <2>1. p.defaults \in [EventTypes -> BOOLEAN]
    BY DEF Compiled
  <2>2. MergeDefaults(p.defaults) = [type \in EventTypes |-> p.defaults[type]]
    BY <2>1 DEF MergeDefaults, Field
  <2> QED  BY <2>1, <2>2
<1> HIDE DEF rules, wire
<1>7. ParseAndCompile(wire, AlwaysRate) = [enabled |-> p.enabled, defaults |-> p.defaults, rules |-> p.rules]
  BY <1>1, <1>3, <1>5, <1>6 DEF Compile
<1> QED  BY <1>7 DEF Compiled, wire

-----------------------------------------------------------------------------
\* The loop of the simulator over the rules of p, from one of them on: what the
\* verdict on an item is if that rule is the first that matches.
Default(p, item) == [allowed |-> p.defaults[item.eventType], phase |-> "default", rule |-> 0]
Verdict(p, draw, i) == [allowed |-> RuleVerdict(p.rules[i].action, draw), phase |-> "rule", rule |-> i]

Loops(f, p, item, draw, last) ==
  f = [i \in 1..last |->
         IF i = last THEN Default(p, item)
         ELSE IF ~RuleMatches(p.rules[i], item) THEN f[i + 1]
         ELSE Verdict(p, draw, i)]

\* The least of the hits that is not before i.
From(hits, i) == {j \in hits : i <= j}
Least(hits) == CHOOSE i \in hits : \A j \in hits : i <= j

LEMMA LeastIs ==
  ASSUME NEW hits \in SUBSET Nat, hits # {}
  PROVE  Least(hits) \in hits /\ \A j \in hits : Least(hits) <= j
BY LeastNatural DEF Least

LEMMA FromFacts ==
  ASSUME NEW n \in Nat, NEW hits \in SUBSET (1..n)
  PROVE  /\ From(hits, n + 1) = {} /\ From(hits, 1) = hits
         /\ \A i \in 1..n :
              /\ i \notin hits => From(hits, i) = From(hits, i + 1)
              /\ i \in hits => From(hits, i) # {} /\ Least(From(hits, i)) = i
<1>0. \A j \in hits : j \in 1..n
  OBVIOUS
<1>1. From(hits, n + 1) = {}
  <2>1. \A j \in hits : ~(n + 1 <= j)
    BY <1>0
  <2> QED  BY <2>1 DEF From
<1>2. From(hits, 1) = hits
  <2>1. \A j \in hits : 1 <= j
    BY <1>0
  <2> QED  BY <2>1 DEF From
<1>3. ASSUME NEW i \in 1..n, i \notin hits PROVE From(hits, i) = From(hits, i + 1)
  <2>1. \A j \in hits : i <= j <=> i + 1 <= j
    BY <1>0, <1>3
  <2> QED  BY <2>1 DEF From
<1>4. ASSUME NEW i \in 1..n, i \in hits PROVE From(hits, i) # {} /\ Least(From(hits, i)) = i
  <2> DEFINE m == Least(From(hits, i))
  <2>1. i \in From(hits, i) /\ From(hits, i) \in SUBSET Nat
    <3>1. i <= i /\ hits \in SUBSET Nat
      BY <1>0
    <3> QED  BY <1>4, <3>1 DEF From
  <2>2. m \in From(hits, i) /\ m <= i
    BY <2>1, LeastIs
  <2>3. i <= m /\ m \in Nat
    BY <2>1, <2>2 DEF From
  <2> HIDE DEF m
  <2>4. m = i
    BY <2>2, <2>3
  <2> QED  BY <2>1, <2>4 DEF m
<1> QED  BY <1>1, <1>2, <1>3, <1>4

LEMMA LoopsExists ==
  ASSUME NEW p, NEW item, NEW draw, NEW n \in Nat, DOMAIN p.rules = 1..n
  PROVE  \E f : Loops(f, p, item, draw, n + 1)
<1> DEFINE hits == Matching(p, item)
           at(i) == IF From(hits, i) = {} THEN Default(p, item) ELSE Verdict(p, draw, Least(From(hits, i)))
           f == [i \in 1..n + 1 |-> at(i)]
           step(i) == IF i = n + 1 THEN Default(p, item)
                      ELSE IF ~RuleMatches(p.rules[i], item) THEN f[i + 1]
                      ELSE Verdict(p, draw, i)
<1>1. hits \in SUBSET (1..n) /\ \A i \in 1..n : i \in hits <=> RuleMatches(p.rules[i], item)
  BY DEF Matching
<1>0. /\ From(hits, n + 1) = {}
      /\ \A i \in 1..n :
           /\ i \notin hits => From(hits, i) = From(hits, i + 1)
           /\ i \in hits => From(hits, i) # {} /\ Least(From(hits, i)) = i
  <2>1. hits \in SUBSET (1..n)
    BY <1>1
  <2> HIDE DEF hits
  <2> QED  BY ONLY n \in Nat, <2>1, FromFacts
<1>2. ASSUME NEW i \in 1..n + 1 PROVE f[i] = step(i)
  <2>1. f[i] = at(i)
    OBVIOUS
  <2>2. CASE i = n + 1
    <3> HIDE DEF hits
    <3>1. From(hits, i) = {}
      BY <1>1, <2>2, FromFacts
    <3> QED  BY <2>1, <2>2, <3>1
  <2>3. CASE i # n + 1 /\ ~RuleMatches(p.rules[i], item)
    <3>1. i + 1 \in 1..n + 1 /\ i \in 1..n
      BY <2>3
    <3>2. From(hits, i) = From(hits, i + 1)
      <4>1. i \notin hits
        BY <1>1, <2>3, <3>1
      <4> HIDE DEF hits, f
      <4> QED  BY <1>0, <3>1, <4>1
    <3>3. f[i + 1] = at(i + 1)
      BY <3>1
    <3> HIDE DEF f, hits
    <3> QED  BY <2>1, <2>3, <3>2, <3>3
  <2>4. CASE i # n + 1 /\ RuleMatches(p.rules[i], item)
    <3>1. i \in 1..n /\ i \in hits
      BY <1>1, <2>4
    <3> HIDE DEF f, hits
    <3>2. From(hits, i) # {} /\ Least(From(hits, i)) = i
      BY <1>0, <3>1
    <3> QED  BY <2>1, <2>4, <3>2
  <2> QED  BY <2>2, <2>3, <2>4
<1>3. f = [i \in 1..n + 1 |-> step(i)]
  <2>1. f = [i \in 1..n + 1 |-> f[i]]
    OBVIOUS
  <2> HIDE DEF f
  <2> QED  BY <1>2, <2>1
<1> HIDE DEF f
<1>4. Loops(f, p, item, draw, n + 1)
  BY <1>3 DEF Loops
<1> QED  BY <1>4

\* The loop finds the first rule that matches, or the default.
LEMMA LoopFinds ==
  ASSUME NEW p, NEW item, NEW draw, NEW n \in Nat, DOMAIN p.rules = 1..n,
         NEW f, Loops(f, p, item, draw, n + 1)
  PROVE  f[1] = IF Matching(p, item) = {} THEN Default(p, item)
                ELSE Verdict(p, draw, FirstMatch(p, item))
<1> DEFINE hits == Matching(p, item)
           at(i) == IF From(hits, i) = {} THEN Default(p, item) ELSE Verdict(p, draw, Least(From(hits, i)))
           T == {k \in Nat : k <= n => f[n + 1 - k] = at(n + 1 - k)}
<1>1. hits \in SUBSET (1..n) /\ \A i \in 1..n : i \in hits <=> RuleMatches(p.rules[i], item)
  BY DEF Matching
<1>2. \A i \in 1..n + 1 :
        f[i] = IF i = n + 1 THEN Default(p, item)
               ELSE IF ~RuleMatches(p.rules[i], item) THEN f[i + 1]
               ELSE Verdict(p, draw, i)
  BY DEF Loops
<1>3. 0 \in T
  <2>1. From(hits, n + 1) = {}
    <3> HIDE DEF hits
    <3> QED  BY <1>1, FromFacts
  <2>2. n + 1 - 0 = n + 1 /\ n + 1 \in 1..n + 1
    OBVIOUS
  <2>3. f[n + 1] = Default(p, item)
    BY <1>2, <2>2
  <2> HIDE DEF hits
  <2> QED  BY <2>1, <2>2, <2>3
<1>4. ASSUME NEW k \in Nat, k \in T PROVE k + 1 \in T
  <2> SUFFICES ASSUME k + 1 <= n PROVE f[n + 1 - (k + 1)] = at(n + 1 - (k + 1))
    OBVIOUS
  <2> DEFINE i == n - k
  <2>1. n + 1 - (k + 1) = i /\ n + 1 - k = i + 1 /\ i \in 1..n /\ i \in 1..n + 1 /\ i # n + 1
    OBVIOUS
  <2>2. f[i + 1] = at(i + 1)
    BY <1>4, <2>1
  <2>3. f[i] = IF ~RuleMatches(p.rules[i], item) THEN f[i + 1] ELSE Verdict(p, draw, i)
    BY <1>2, <2>1
  <2> HIDE DEF i
  <2>4. f[i] = at(i)
    <3>1. CASE ~RuleMatches(p.rules[i], item)
      <4>1. i \notin hits
        BY <1>1, <2>1, <3>1
      <4> HIDE DEF hits
      <4>2. From(hits, i) = From(hits, i + 1)
        BY <1>1, <2>1, <4>1, FromFacts
      <4> QED  BY <2>2, <2>3, <3>1, <4>2
    <3>2. CASE RuleMatches(p.rules[i], item)
      <4>1. i \in hits
        BY <1>1, <2>1, <3>2
      <4> HIDE DEF hits
      <4>2. From(hits, i) # {} /\ Least(From(hits, i)) = i
        BY <1>1, <2>1, <4>1, FromFacts
      <4> QED  BY <2>3, <3>2, <4>2
    <3> QED  BY <3>1, <3>2
  <2> QED  BY <2>1, <2>4
<1>5. n \in T
  <2> HIDE DEF T
  <2> QED  BY <1>3, <1>4, SetInduction
<1>6. f[1] = at(1)
  <2>1. n + 1 - n = 1
    OBVIOUS
  <2> QED  BY <1>5, <2>1
<1>7. From(hits, 1) = hits
  <2> HIDE DEF hits
  <2> QED  BY <1>1, FromFacts
<1>8. FirstMatch(p, item) = Least(hits)
  BY DEF FirstMatch, Least
<1> HIDE DEF hits
<1> QED  BY <1>6, <1>7, <1>8 DEF hits

\* The simulator allows what the gate captures.
LEMMA SimulatorAgrees ==
  ASSUME NEW p, Compiled(p), NEW item, item.eventType \in EventTypes, NEW critical \in BOOLEAN, NEW draw
  PROVE  EvaluateCaptureDiagnostics(p, item, critical, draw).allowed
           = EvaluateCapture(p, item, critical, draw)
<1>1. PICK n \in Nat : DOMAIN p.rules = 1..n /\ Len(p.rules) = n
  <2>1. PICK S : p.rules \in Seq(S)
    BY DEF Compiled, RulesOK
  <2> QED  BY <2>1
<1> DEFINE f == CHOOSE g : Loops(g, p, item, draw, n + 1)
           none == Matching(p, item) = {}
           action == p.rules[FirstMatch(p, item)].action
<1>2. Loops(f, p, item, draw, n + 1)
  BY <1>1, LoopsExists
<1>3. EvaluateCaptureDiagnostics(p, item, critical, draw) =
        IF ~p.enabled THEN [allowed |-> FALSE, phase |-> "disabled", rule |-> 0]
        ELSE IF critical THEN [allowed |-> TRUE, phase |-> "critical", rule |-> 0]
        ELSE f[1]
  <2>1. f = CHOOSE g : g = [i \in 1..Len(p.rules) + 1 |->
              IF i = Len(p.rules) + 1
              THEN [allowed |-> p.defaults[item.eventType], phase |-> "default", rule |-> 0]
              ELSE IF ~RuleMatches(p.rules[i], item) THEN g[i + 1]
              ELSE [allowed |-> RuleVerdict(p.rules[i].action, draw), phase |-> "rule", rule |-> i]]
    BY <1>1 DEF Loops, Default, Verdict
  <2> HIDE DEF f
  <2> QED  BY <2>1 DEF EvaluateCaptureDiagnostics
<1> HIDE DEF f
<1>4. f[1] = IF none THEN Default(p, item) ELSE Verdict(p, draw, FirstMatch(p, item))
  BY <1>1, <1>2, LoopFinds
<1>5. RuleVerdict(action, draw) = ActionKeeps(action, draw)
  <2> HIDE DEF action
  <2> QED  BY DEF RuleVerdict, ActionKeeps
<1>6. p.enabled \in BOOLEAN /\ p.defaults[item.eventType] \in BOOLEAN
  BY DEF Compiled
<1>7. EvaluateCapture(p, item, critical, draw) =
        (p.enabled /\ (critical \/ IF none THEN p.defaults[item.eventType] ELSE ActionKeeps(action, draw)))
  BY DEF EvaluateCapture
<1>8. f[1].allowed = IF none THEN p.defaults[item.eventType] ELSE ActionKeeps(action, draw)
  <2> HIDE DEF none
  <2> QED  BY <1>4, <1>5 DEF Default, Verdict
<1> DEFINE kept == IF none THEN p.defaults[item.eventType] ELSE ActionKeeps(action, draw)
           said == EvaluateCaptureDiagnostics(p, item, critical, draw)
           gate == EvaluateCapture(p, item, critical, draw)
<1>9. kept \in BOOLEAN
  <2>1. ActionKeeps(action, draw) \in BOOLEAN
    <3> HIDE DEF action
    <3> QED  BY DEF ActionKeeps
  <2> HIDE DEF action, none
  <2> QED  BY <1>6, <2>1
<1>10. gate = (p.enabled /\ (critical \/ kept)) /\ f[1].allowed = kept
  BY <1>7, <1>8
<1>11. said.allowed = IF ~p.enabled THEN FALSE ELSE IF critical THEN TRUE ELSE f[1].allowed
  <2> HIDE DEF said
  <2> QED  BY <1>3 DEF said
<1> HIDE DEF kept, said, gate
<1>12. said.allowed = gate
  BY <1>6, <1>9, <1>10, <1>11
<1> QED  BY <1>12 DEF said, gate

-----------------------------------------------------------------------------
\* The policy in force and those that decided are compiled, and what was decided
\* is of a type that a policy speaks of.
Decidable(d) == Compiled(d.policy) /\ d.item.eventType \in EventTypes /\ d.critical \in BOOLEAN
PoliciesInv == Compiled(policy) /\ \A d \in Made : Decidable(d)

LEMMA TypeDefined ==
  ASSUME NEW candidates, "eventType" \in DOMAIN candidates, NEW type, candidates.eventType = <<type>>
  PROVE  FirstDefined(candidates).eventType = type
<1>1. <<type>> # <<>> /\ Head(<<type>>) = type
  OBVIOUS
<1> QED  BY <1>1 DEF FirstDefined

LEMMA SpanTypes ==
  ASSUME NEW env, NEW span_type
  PROVE  LET item == SpanItem(env, span_type)
         IN item.eventType \in EventTypes /\ SpanCritical(env, item) \in BOOLEAN
<1> DEFINE item == SpanItem(env, span_type)
           type == SpanRowToCaptureEventType(span_type)
<1>1. type \in EventTypes
  BY DEF SpanRowToCaptureEventType, EventTypes
<1>2. item.eventType = type
  BY TypeDefined DEF SpanItem
<1>3. SpanCritical(env, item) \in BOOLEAN
  <2> HIDE DEF item
  <2> QED  BY DEF SpanCritical
<1> HIDE DEF item, type
<1>4. item.eventType \in EventTypes /\ SpanCritical(env, item) \in BOOLEAN
  BY <1>1, <1>2, <1>3
<1> QED  BY <1>4 DEF item

LEMMA ItemTypes ==
  ASSUME NEW event
  PROVE  LET item == EventItem(event)
         IN item.eventType \in EventTypes /\ EventCritical(event, item) \in BOOLEAN
<1> DEFINE item == EventItem(event)
           type == IF event.type = "error" THEN "error" ELSE "log"
<1>1. type \in EventTypes
  BY DEF EventTypes
<1>2. item.eventType = type
  BY TypeDefined DEF EventItem
<1>3. EventCritical(event, item) \in BOOLEAN
  <2> HIDE DEF item
  <2> QED  BY DEF EventCritical
<1> HIDE DEF item, type
<1>4. item.eventType \in EventTypes /\ EventCritical(event, item) \in BOOLEAN
  BY <1>1, <1>2, <1>3
<1> QED  BY <1>4 DEF item

LEMMA DecideCompiles ==
  ASSUME DecidedIsSeq, PoliciesInv, NEW env, NEW item, NEW critical \in BOOLEAN, NEW trace, NEW draw,
         item.eventType \in EventTypes, Decide(env, item, critical, trace, draw), policy' = policy
  PROVE  PoliciesInv'
<1> DEFINE d == [env |-> env, policy |-> policy, item |-> item, critical |-> critical, trace |-> trace,
                 draw |-> draw, kept |-> EvaluateCapture(policy, item, critical, draw)]
<1>1. decided' = Append(decided, d)
  BY DEF Decide
<1>2. Made' = Made \cup {d}
  BY <1>1, AppendMakes DEF DecidedIsSeq, Made
<1>3. Decidable(d)
  <2>1. d.policy = policy /\ d.item = item /\ d.critical = critical
    OBVIOUS
  <2> HIDE DEF d
  <2> QED  BY <2>1 DEF Decidable, PoliciesInv
<1> HIDE DEF d
<1>4. \A e \in Made' : Decidable(e)
  BY <1>2, <1>3 DEF PoliciesInv
<1>5. Compiled(policy')
  BY DEF PoliciesInv
<1>6. Compiled(policy)' <=> Compiled(policy')
  BY DEF Compiled, RulesOK, ValidRule, Field
<1>7. ASSUME NEW e PROVE Decidable(e)' <=> Decidable(e)
  BY DEF Decidable, Compiled, RulesOK
<1> QED  BY <1>4, <1>5, <1>6, <1>7 DEF PoliciesInv

LEMMA PoliciesStart == PipelineInit => PoliciesInv
<1> SUFFICES ASSUME PipelineInit PROVE PoliciesInv
  OBVIOUS
<1>1. decided = <<>> /\ Made = {} /\ policy = DEFAULT_COMPILED_CAPTURE_POLICY
  BY DEF PipelineInit, Made
<1> QED  BY <1>1, DefaultCompiles DEF PoliciesInv

LEMMA PoliciesStep == IInv /\ PoliciesInv /\ [PipelineNext]_pipelineVars => PoliciesInv'
<1> SUFFICES ASSUME IInv, PoliciesInv, [PipelineNext]_pipelineVars PROVE PoliciesInv'
  OBVIOUS
<1>0. DecidedIsSeq
  BY DEF IInv
<1>1. ASSUME NEW env \in Environments, NEW span_type, EnqueueSpan(env, span_type) PROVE PoliciesInv'
  <2> DEFINE item == SpanItem(env, span_type)
  <2>1. item.eventType \in EventTypes /\ SpanCritical(env, item) \in BOOLEAN
    BY SpanTypes
  <2>2. PICK draw : Decide(env, item, SpanCritical(env, item), env.span[1].trace_id, draw)
    BY <1>1 DEF EnqueueSpan
  <2>3. policy' = policy
    BY <1>1 DEF EnqueueSpan
  <2> HIDE DEF item
  <2> QED  BY <1>0, <2>1, <2>2, <2>3, DecideCompiles
<1>2. ASSUME NEW env \in Environments, Enqueue(env) PROVE PoliciesInv'
  <2> DEFINE event == [id |-> WithId(env.id), type |-> env.type, context |-> MergeEventContext(env)]
             item == EventItem(event)
  <2>1. item.eventType \in EventTypes /\ EventCritical(event, item) \in BOOLEAN
    BY ItemTypes
  <2>2. PICK trace, draw : Decide(env, item, EventCritical(event, item), trace, draw)
    BY <1>2 DEF Enqueue
  <2>3. policy' = policy
    BY <1>2 DEF Enqueue
  <2> HIDE DEF item, event
  <2> QED  BY <1>0, <2>1, <2>2, <2>3, DecideCompiles
<1>3. ASSUME UNCHANGED decided, Compiled(policy') PROVE PoliciesInv'
  <2>1. Made' = Made
    BY <1>3 DEF Made
  <2> QED  BY <1>3, <2>1 DEF PoliciesInv, Decidable, Compiled, RulesOK
<1>4. ASSUME NEW answer \in Answers, Refresh(answer) PROVE PoliciesInv'
  BY <1>3, <1>4, ParseCompiles DEF Refresh
<1>5. ASSUME NEW status, SendDefaultIngest(status) PROVE PoliciesInv'
  BY <1>3, <1>5 DEF SendDefaultIngest, PoliciesInv
<1>6. CASE UNCHANGED pipelineVars
  BY <1>3, <1>6 DEF pipelineVars, PoliciesInv
<1> QED  BY <1>1, <1>2, <1>4, <1>5, <1>6 DEF PipelineNext

\* The simulator says what the gate decided, and a policy that was stored and
\* fetched again decides the same (capture-policy-engine.ts:326, 479), for every
\* policy that the server may answer.
THEOREM SimulatorDecides == PipelineSpec => []DecisionsAgree
<1>1. IInv /\ PoliciesInv => DecisionsAgree
  <2> SUFFICES ASSUME IInv, PoliciesInv, NEW i \in DOMAIN decided
               PROVE  LET d == decided[i]
                          again == ParseAndCompile(CompiledToV2Wire(d.policy), AlwaysRate)
                      IN /\ EvaluateCaptureDiagnostics(d.policy, d.item, d.critical, d.draw).allowed = d.kept
                         /\ EvaluateCapture(again, d.item, d.critical, d.draw) = d.kept
    BY DEF DecisionsAgree
  <2> DEFINE d == decided[i]
  <2>1. d \in Made
    BY DEF Made
  <2>2. d.kept = EvaluateCapture(d.policy, d.item, d.critical, d.draw)
    BY <2>1 DEF IInv, AllConsistent, Consistent
  <2>3. Compiled(d.policy) /\ d.item.eventType \in EventTypes /\ d.critical \in BOOLEAN
    BY <2>1 DEF PoliciesInv, Decidable
  <2>4. ParseAndCompile(CompiledToV2Wire(d.policy), AlwaysRate) = d.policy
    BY <2>3, RoundTrip
  <2>5. EvaluateCaptureDiagnostics(d.policy, d.item, d.critical, d.draw).allowed
          = EvaluateCapture(d.policy, d.item, d.critical, d.draw)
    BY <2>3, SimulatorAgrees
  <2> QED  BY <2>2, <2>4, <2>5
<1>2. PipelineSpec => [](IInv /\ PoliciesInv)
  <2>1. PipelineInit => IInv /\ PoliciesInv
    BY InitIInv, PoliciesStart
  <2>2. IInv /\ PoliciesInv /\ [PipelineNext]_pipelineVars => (IInv /\ PoliciesInv)'
    BY NextIInv, PoliciesStep
  <2> QED  BY <2>1, <2>2, PTL DEF PipelineSpec
<1> QED  BY <1>1, <1>2, PTL

-----------------------------------------------------------------------------
\* Whose id is which: draws tells of each decision the number of the UUID drawn for
\* its event, 0 if it is that of a span.  What waits has the id given to it, what was
\* posted the same or, if that is no UUID, one that was drawn for nothing else.
Given(made, draws, i) ==
  IF made[i].env.id = <<"none">> THEN <<"uuid", draws[i]>> ELSE made[i].env.id

Posted(s) == UNION {{s[p][i] : i \in DOMAIN s[p]} : p \in DOMAIN s}
Elements(s) == {s[i] : i \in DOMAIN s}

DrawsOK(made, draws, next) ==
  /\ draws \in [DOMAIN made -> Nat]
  /\ \A i \in DOMAIN made : draws[i] < next
  /\ \A i, j \in DOMAIN made : draws[i] = draws[j] /\ draws[i] # 0 => i = j

QueuedOK(made, draws, q) ==
  /\ q.of \in DOMAIN made /\ draws[q.of] # 0
  /\ q.id = Given(made, draws, q.of)

PostedOK(made, draws, next, a) ==
  /\ a.of \in DOMAIN made /\ draws[a.of] # 0
  /\ IF made[a.of].env.id # <<"custom">> THEN a.event.event_id = Given(made, draws, a.of)
     ELSE \E n \in 1..next - 1 :
            a.event.event_id = <<"uuid", n>> /\ \A i \in DOMAIN made : draws[i] # n

IdsOf(draws, made, q, s, next) ==
  /\ DrawsOK(made, draws, next)
  /\ \A e \in Elements(q) : QueuedOK(made, draws, e)
  /\ \A a \in Posted(s) : PostedOK(made, draws, next, a)

IdsInv ==
  /\ DecidedIsSeq /\ \A d \in Made : d.env \in Environments
  /\ drawn \in Nat \ {0}
  /\ queue \in Seq(Elements(queue)) /\ posts \in Seq(Elements(posts))
  /\ \E draws : IdsOf(draws, decided, queue, posts, drawn)

\* One more decision, with its draw.
LEMMA DrawsGrow ==
  ASSUME NEW made, NEW d, made \in Seq({made[i] : i \in DOMAIN made}), NEW draws, NEW q, NEW s,
         NEW next \in Nat \ {0}, IdsOf(draws, made, q, s, next),
         NEW n \in {0, next}, NEW then \in {next, next + 1}, n < then
  PROVE  \E more : /\ IdsOf(more, Append(made, d), q, s, then)
                   /\ more[Len(made) + 1] = n
<1> DEFINE last == Len(made) + 1
           grown == Append(made, d)
           more == [i \in DOMAIN grown |-> IF i = last THEN n ELSE draws[i]]
<1>1. /\ Len(made) \in Nat /\ DOMAIN made = 1..Len(made) /\ DOMAIN grown = 1..last
      /\ grown[last] = d /\ \A i \in DOMAIN made : grown[i] = made[i]
  OBVIOUS
<1>2. /\ last \in DOMAIN grown /\ DOMAIN made \subseteq DOMAIN grown
      /\ \A i \in DOMAIN grown : i = last \/ i \in DOMAIN made
      /\ last \notin DOMAIN made
  <2> HIDE DEF grown
  <2> QED  BY <1>1
<1>3. more[last] = n /\ \A i \in DOMAIN made : more[i] = draws[i]
  <2> HIDE DEF grown, last
  <2> QED  BY <1>2
<1>4. /\ draws \in [DOMAIN made -> Nat]
      /\ \A i \in DOMAIN made : draws[i] < next
      /\ \A i, j \in DOMAIN made : draws[i] = draws[j] /\ draws[i] # 0 => i = j
  BY DEF IdsOf, DrawsOK
<1>5. more \in [DOMAIN grown -> Nat]
  <2> HIDE DEF grown, last
  <2> QED  BY <1>2, <1>4
<1> HIDE DEF more, grown, last
<1>6. \A i \in DOMAIN grown : more[i] < then
  BY <1>2, <1>3, <1>4
<1>7. \A i, j \in DOMAIN grown : more[i] = more[j] /\ more[i] # 0 => i = j
  <2> SUFFICES ASSUME NEW i \in DOMAIN grown, NEW j \in DOMAIN grown, more[i] = more[j], more[i] # 0
               PROVE  i = j
    OBVIOUS
  <2>1. CASE i \in DOMAIN made /\ j \in DOMAIN made
    BY <1>3, <1>4, <2>1
  <2>2. CASE i = last /\ j \in DOMAIN made
    BY <1>3, <1>4, <2>2
  <2>3. CASE j = last /\ i \in DOMAIN made
    BY <1>3, <1>4, <2>3
  <2> QED  BY <1>2, <2>1, <2>2, <2>3
<1>8. \A i \in DOMAIN made : Given(grown, more, i) = Given(made, draws, i)
  BY <1>1, <1>3 DEF Given, grown
<1>9. ASSUME NEW e \in Elements(q) PROVE QueuedOK(grown, more, e)
  <2>1. QueuedOK(made, draws, e)
    BY <1>9 DEF IdsOf
  <2> QED  BY <1>2, <1>3, <1>8, <2>1 DEF QueuedOK
<1>10. ASSUME NEW a \in Posted(s) PROVE PostedOK(grown, more, then, a)
  <2>1. PostedOK(made, draws, next, a)
    BY <1>10 DEF IdsOf
  <2>2. a.of \in DOMAIN made /\ grown[a.of] = made[a.of]
    BY <1>1, <2>1 DEF PostedOK, grown
  <2>3. CASE made[a.of].env.id # <<"custom">>
    BY <1>2, <1>3, <1>8, <2>1, <2>2, <2>3 DEF PostedOK
  <2>4. CASE made[a.of].env.id = <<"custom">>
    <3>1. PICK m \in 1..next - 1 :
            a.event.event_id = <<"uuid", m>> /\ \A i \in DOMAIN made : draws[i] # m
      BY <2>1, <2>4 DEF PostedOK
    <3>2. m \in 1..then - 1 /\ m # n
      OBVIOUS
    <3>3. \A i \in DOMAIN grown : more[i] # m
      BY <1>2, <1>3, <3>1, <3>2
    <3> QED  BY <1>2, <1>3, <2>1, <2>2, <2>4, <3>1, <3>2, <3>3 DEF PostedOK
  <2> QED  BY <2>3, <2>4
<1>11. IdsOf(more, grown, q, s, then)
  BY <1>5, <1>6, <1>7, <1>9, <1>10 DEF IdsOf, DrawsOK
<1> QED  BY <1>3, <1>11 DEF grown, last

\* A decision keeps the facts that do not speak of ids.
LEMMA DecideAppends ==
  ASSUME IdsInv, NEW env \in Environments, NEW item, NEW critical, NEW trace, NEW draw,
         Decide(env, item, critical, trace, draw)
  PROVE  \E d : /\ decided' = Append(decided, d) /\ d.env = env
                /\ DecidedIsSeq' /\ \A e \in Made' : e.env \in Environments
<1> DEFINE d == [env |-> env, policy |-> policy, item |-> item, critical |-> critical, trace |-> trace,
                 draw |-> draw, kept |-> EvaluateCapture(policy, item, critical, draw)]
<1>0. decided' = Append(decided, d)
  BY DEF Decide
<1>2. DecidedIsSeq' /\ Made' = Made \cup {d}
  <2>1. DecidedIsSeq
    BY DEF IdsInv
  <2> QED  BY <1>0, <2>1, AppendMakes DEF DecidedIsSeq, Made
<1>1. decided' = Append(decided, d) /\ d.env = env
  BY <1>0
<1> HIDE DEF d
<1> QED  BY <1>1, <1>2 DEF IdsInv

LEMMA SpanKeepsIds ==
  ASSUME IdsInv, NEW env \in Environments, NEW span_type, EnqueueSpan(env, span_type)
  PROVE  IdsInv'
<1>1. /\ queue' = queue /\ posts' = posts /\ drawn' = drawn
      /\ \E item, critical, trace, draw : Decide(env, item, critical, trace, draw)
  BY DEF EnqueueSpan
<1>2. PICK d : /\ decided' = Append(decided, d)
               /\ DecidedIsSeq' /\ \A e \in Made' : e.env \in Environments
  BY <1>1, DecideAppends
<1>3. PICK draws : IdsOf(draws, decided, queue, posts, drawn)
  BY DEF IdsInv
<1>4. \E more : IdsOf(more, decided', queue, posts, drawn)
  <2>1. decided \in Seq({decided[i] : i \in DOMAIN decided}) /\ drawn \in Nat \ {0}
    BY DEF IdsInv, DecidedIsSeq, Made
  <2>2. 0 \in {0, drawn} /\ drawn \in {drawn, drawn + 1} /\ 0 < drawn
    BY <2>1
  <2> QED  BY <1>2, <1>3, <2>1, <2>2, DrawsGrow
<1> QED  BY <1>1, <1>2, <1>4 DEF IdsInv

LEMMA EventKeepsIds ==
  ASSUME IdsInv, NEW env \in Environments, Enqueue(env)
  PROVE  IdsInv'
<1> DEFINE event == [id |-> WithId(env.id), type |-> env.type, context |-> MergeEventContext(env)]
           item == EventItem(event)
           critical == EventCritical(event, item)
           last == Len(decided) + 1
           new == [of |-> last, id |-> event.id, type |-> event.type,
                   context |-> AttachCommonContext(event.context, env.scope)]
<1>1. /\ posts' = posts /\ drawn' = drawn + 1
      /\ \E trace, draw : Decide(env, item, critical, trace, draw)
      /\ queue' = Append(queue, new) \/ queue' = queue
  BY DEF Enqueue
<1>2. PICK d : /\ decided' = Append(decided, d) /\ d.env = env
               /\ DecidedIsSeq' /\ \A e \in Made' : e.env \in Environments
  <2> HIDE DEF item, critical
  <2> QED  BY <1>1, DecideAppends
<1>3. PICK draws : IdsOf(draws, decided, queue, posts, drawn)
  BY DEF IdsInv
<1>4. decided \in Seq({decided[i] : i \in DOMAIN decided}) /\ drawn \in Nat \ {0}
  BY DEF IdsInv, DecidedIsSeq, Made
<1>5. PICK more : IdsOf(more, decided', queue, posts, drawn + 1) /\ more[last] = drawn
  <2>1. drawn \in {0, drawn} /\ drawn + 1 \in {drawn, drawn + 1} /\ drawn < drawn + 1
    BY <1>4
  <2> QED  BY <1>2, <1>3, <1>4, <2>1, DrawsGrow
<1>6. QueuedOK(decided', more, new)
  <2>1. last \in DOMAIN decided' /\ decided'[last].env = env
    BY <1>2, <1>4
  <2>2. new.of = last /\ new.id = WithId(env.id)
    OBVIOUS
  <2>3. WithId(env.id) = IF env.id = <<"none">> THEN <<"uuid", drawn>> ELSE env.id
    BY DEF WithId
  <2>4. more[last] # 0
    BY <1>4, <1>5
  <2> HIDE DEF new, last
  <2> QED  BY <1>5, <2>1, <2>2, <2>3, <2>4 DEF QueuedOK, Given
<1> HIDE DEF new, item, critical, last
<1>7. queue' \in Seq(Elements(queue')) /\ Elements(queue') \subseteq Elements(queue) \cup {new}
  <2>1. CASE queue' = queue
    BY <2>1 DEF IdsInv
  <2>2. CASE queue' = Append(queue, new)
    <3>1. queue \in Seq({queue[i] : i \in DOMAIN queue})
      BY DEF IdsInv, Elements
    <3> QED  BY <2>2, <3>1, AppendMakes DEF Elements
  <2> QED  BY <1>1, <2>1, <2>2
<1>8. IdsOf(more, decided', queue', posts', drawn')
  BY <1>1, <1>5, <1>6, <1>7 DEF IdsOf
<1> QED  BY <1>1, <1>2, <1>4, <1>7, <1>8 DEF IdsInv, Elements

\* An id that is a UUID stays, any other gives way to the one drawn.
LEMMA IdsPicked ==
  ASSUME NEW made, NEW draws, NEW i, made[i].env \in Environments,
         NEW e, e.id = Given(made, draws, i), NEW n
  PROVE  PickEventId(e, n) = IF made[i].env.id # <<"custom">> THEN e.id ELSE <<"uuid", n>>
<1> DEFINE id == made[i].env.id
<1>1. id \in {<<"none">>, <<"custom">>} \/ id = <<"uuid", id[2]>>
  BY IdsAssumption
<1>2. e.id = IF id = <<"none">> THEN <<"uuid", draws[i]>> ELSE id
  BY DEF Given
<1>3. PickEventId(e, n) = IF e.id[1] = "uuid" THEN e.id ELSE <<"uuid", n>>
  BY DEF PickEventId
<1> HIDE DEF id
<1>4. CASE id = <<"none">>
  <2>1. e.id[1] = "uuid" /\ id # <<"custom">>
    BY <1>2, <1>4
  <2> QED  BY <1>3, <2>1 DEF id
<1>5. CASE id = <<"custom">>
  <2>1. e.id[1] = "custom"
    BY <1>2, <1>5
  <2> QED  BY <1>3, <1>5, <2>1 DEF id
<1>6. CASE id = <<"uuid", id[2]>>
  <2>1. id[1] = "uuid" /\ id # <<"none">> /\ id # <<"custom">>
    BY <1>6
  <2> QED  BY <1>2, <1>3, <2>1 DEF id
<1> QED  BY <1>1, <1>4, <1>5, <1>6

LEMMA PostKeepsIds ==
  ASSUME IdsInv, NEW status, SendDefaultIngest(status)
  PROVE  IdsInv'
<1> DEFINE wire == [i \in DOMAIN queue |->
                      [of |-> queue[i].of, event |-> NormalizeEventV4(queue[i], drawn + i)]]
           fit == {i \in DOMAIN wire : ~wire[i].event.rejected}
           canonical == Filter(wire, fit)
           next == drawn + Len(queue) + 1
<1>1. /\ \E sent \in {canonical, <<>>} : posts' = Append(posts, sent)
      /\ drawn' = next /\ decided' = decided
      /\ queue' = <<>> \/ queue' = queue
  BY DEF SendDefaultIngest, Canonical
<1>2. PICK draws : IdsOf(draws, decided, queue, posts, drawn)
  BY DEF IdsInv
<1>3. /\ queue \in Seq(Elements(queue)) /\ Len(queue) \in Nat /\ DOMAIN queue = 1..Len(queue)
      /\ drawn \in Nat \ {0} /\ next \in Nat \ {0} /\ drawn < next
  <2>1. queue \in Seq(Elements(queue)) /\ drawn \in Nat \ {0}
    BY DEF IdsInv
  <2>2. Len(queue) \in Nat /\ DOMAIN queue = 1..Len(queue)
    BY <2>1
  <2> QED  BY <2>1, <2>2
<1>4. ASSUME NEW a \in Elements(canonical) PROVE PostedOK(decided, draws, next, a)
  <2>1. PICK i \in DOMAIN queue : a = wire[i]
    <3>1. wire \in Seq(Elements(wire)) /\ DOMAIN wire = DOMAIN queue
      BY <1>3 DEF Elements
    <3> HIDE DEF wire, fit
    <3>2. canonical \in Seq({wire[i] : i \in fit \cap DOMAIN wire})
      BY <3>1, FilterSelects
    <3>3. a \in {wire[i] : i \in fit \cap DOMAIN wire}
      BY <1>4, <3>2 DEF Elements
    <3> QED  BY <3>1, <3>3
  <2> DEFINE q == queue[i]
  <2>2. a.of = q.of /\ a.event.event_id = PickEventId(q, drawn + i)
    BY <2>1 DEF NormalizeEventV4
  <2>3. QueuedOK(decided, draws, q)
    BY <1>2 DEF IdsOf, Elements
  <2>4. decided[q.of].env \in Environments
    BY <2>3 DEF QueuedOK, IdsInv, Made
  <2>5. PickEventId(q, drawn + i) =
          IF decided[q.of].env.id # <<"custom">> THEN q.id ELSE <<"uuid", drawn + i>>
    <3> HIDE DEF q
    <3> QED  BY <2>3, <2>4, IdsPicked DEF QueuedOK
  <2>6. drawn + i \in 1..next - 1
    BY <1>3
  <2>7. \A j \in DOMAIN decided : draws[j] # drawn + i
    BY <1>2, <1>3 DEF IdsOf, DrawsOK
  <2> HIDE DEF q, next
  <2> QED  BY <2>2, <2>3, <2>5, <2>6, <2>7 DEF QueuedOK, PostedOK
<1>5. posts' \in Seq(Elements(posts')) /\ \A a \in Posted(posts') : a \in Posted(posts) \/ a \in Elements(canonical)
  <2>1. posts \in Seq({posts[p] : p \in DOMAIN posts})
    BY DEF IdsInv, Elements
  <2> HIDE DEF canonical
  <2>2. PICK sent \in {canonical, <<>>} : posts' = Append(posts, sent)
    BY <1>1
  <2>3. /\ {posts'[p] : p \in DOMAIN posts'} = {posts[p] : p \in DOMAIN posts} \cup {sent}
        /\ posts' \in Seq({posts'[p] : p \in DOMAIN posts'})
    BY <2>1, <2>2, AppendMakes
  <2>4. ASSUME NEW a \in Posted(posts') PROVE a \in Posted(posts) \/ a \in Elements(canonical)
    <3>1. PICK p \in DOMAIN posts' : a \in {posts'[p][i] : i \in DOMAIN posts'[p]}
      BY <2>4 DEF Posted
    <3>2. posts'[p] \in {canonical, <<>>} \/ \E o \in DOMAIN posts : posts'[p] = posts[o]
      BY <2>3
    <3>3. posts'[p] # <<>>
      BY <3>1
    <3> QED  BY <3>1, <3>2, <3>3 DEF Posted, Elements
  <2> QED  BY <2>3, <2>4 DEF Elements
<1> HIDE DEF canonical, wire, fit, next
<1>6. ASSUME NEW a \in Posted(posts) PROVE PostedOK(decided, draws, next, a)
  <2>1. PostedOK(decided, draws, drawn, a)
    BY <1>2, <1>6 DEF IdsOf
  <2>2. \A n \in 1..drawn - 1 : n \in 1..next - 1
    BY <1>3
  <2> QED  BY <2>1, <2>2 DEF PostedOK
<1>7. DrawsOK(decided, draws, next)
  <2>1. DrawsOK(decided, draws, drawn)
    BY <1>2 DEF IdsOf
  <2>2. \A i \in DOMAIN decided : draws[i] < next
    BY <1>3, <2>1 DEF DrawsOK
  <2> QED  BY <2>1, <2>2 DEF DrawsOK
<1>8. queue' \in Seq(Elements(queue')) /\ Elements(queue') \subseteq Elements(queue)
  <2>1. CASE queue' = queue
    BY <1>3, <2>1
  <2>2. CASE queue' = <<>>
    <3>1. DOMAIN queue' = {} /\ Elements(queue') = {}
      BY <2>2 DEF Elements
    <3> QED  BY <2>2, <3>1
  <2> QED  BY <1>1, <2>1, <2>2
<1>9. IdsOf(draws, decided', queue', posts', drawn')
  BY <1>1, <1>2, <1>4, <1>5, <1>6, <1>7, <1>8 DEF IdsOf
<1>10. DecidedIsSeq' /\ \A d \in Made' : d.env \in Environments
  BY <1>1 DEF IdsInv, DecidedIsSeq, Made
<1> QED  BY <1>1, <1>3, <1>5, <1>8, <1>9, <1>10 DEF IdsInv, Elements

LEMMA IdsStart == PipelineInit => IdsInv
<1> SUFFICES ASSUME PipelineInit PROVE IdsInv
  OBVIOUS
<1>1. decided = <<>> /\ queue = <<>> /\ posts = <<>> /\ drawn = 1 /\ Made = {}
  BY DEF PipelineInit, Made
<1>2. DOMAIN <<>> = {}
  OBVIOUS
<1> DEFINE draws == [i \in {} |-> 0]
<1>3. draws \in [DOMAIN <<>> -> Nat]
  BY <1>2
<1>4. IdsOf(draws, <<>>, <<>>, <<>>, 1)
  <2> HIDE DEF draws
  <2> QED  BY <1>2, <1>3 DEF IdsOf, DrawsOK, Elements, Posted
<1>5. Elements(<<>>) = {}
  BY <1>2 DEF Elements
<1>6. \E more : IdsOf(more, <<>>, <<>>, <<>>, 1)
  BY <1>4
<1> QED  BY <1>1, <1>5, <1>6 DEF IdsInv, DecidedIsSeq

LEMMA IdsStep == IdsInv /\ [PipelineNext]_pipelineVars => IdsInv'
<1> SUFFICES ASSUME IdsInv, [PipelineNext]_pipelineVars PROVE IdsInv'
  OBVIOUS
<1>1. ASSUME UNCHANGED <<decided, queue, posts, drawn>> PROVE IdsInv'
  BY <1>1 DEF IdsInv, DecidedIsSeq, Made, Elements
<1>2. ASSUME NEW answer, Refresh(answer) PROVE IdsInv'
  BY <1>1, <1>2 DEF Refresh
<1>3. CASE UNCHANGED pipelineVars
  BY <1>1, <1>3 DEF pipelineVars
<1> QED  BY <1>2, <1>3, SpanKeepsIds, EventKeepsIds, PostKeepsIds DEF PipelineNext

\* The idempotency key: an event has one id in all its attempts, unless the
\* application gave it one that is no UUID, and no other event has it, unless the
\* application gave it to both (stacktrace-event.types.ts:28-33), for any number of
\* events, posts and answers.
THEOREM IdsAreUnique == PipelineSpec => []OneIdPerEvent
<1>1. IdsInv => OneIdPerEvent
  <2> SUFFICES ASSUME IdsInv, NEW a \in Sent, NEW b \in Sent
               PROVE  LET id == decided[a.of].env.id
                      IN /\ a.of = b.of /\ id # <<"custom">> => a.event.event_id = b.event.event_id
                         /\ a.of # b.of /\ id = <<"none">> => a.event.event_id # b.event.event_id
    BY DEF OneIdPerEvent
  <2>1. PICK draws : IdsOf(draws, decided, queue, posts, drawn)
    BY DEF IdsInv
  <2>2. PostedOK(decided, draws, drawn, a) /\ PostedOK(decided, draws, drawn, b)
    BY <2>1 DEF IdsOf, Posted, Sent
  <2>3. ASSUME a.of = b.of, decided[a.of].env.id # <<"custom">>
        PROVE  a.event.event_id = b.event.event_id
    BY <2>2, <2>3 DEF PostedOK
  <2>4. ASSUME a.of # b.of, decided[a.of].env.id = <<"none">>
        PROVE  a.event.event_id # b.event.event_id
    <3> DEFINE n == draws[a.of]
               m == draws[b.of]
               id == decided[b.of].env.id
    <3>1. n \in Nat \ {0} /\ a.event.event_id = <<"uuid", n>>
      BY <2>1, <2>2, <2>4 DEF PostedOK, Given, IdsOf, DrawsOK
    <3>2. m \in Nat /\ m # n /\ a.of \in DOMAIN decided
      BY <2>1, <2>2, <2>4 DEF PostedOK, IdsOf, DrawsOK
    <3>3. id \in {<<"none">>, <<"custom">>} \/ (id = <<"uuid", id[2]>> /\ -id[2] \in Nat)
      BY <2>2, IdsAssumption DEF PostedOK, IdsInv, Made
    <3>4. /\ id # <<"custom">> => b.event.event_id = (IF id = <<"none">> THEN <<"uuid", m>> ELSE id)
          /\ id = <<"custom">> => \E k \in Nat : b.event.event_id = <<"uuid", k>> /\ n # k
      BY <2>2, <3>2 DEF PostedOK, Given
    <3> HIDE DEF n, m, id
    <3>5. CASE id = <<"none">>
      BY <3>1, <3>2, <3>4, <3>5
    <3>6. CASE id = <<"custom">>
      BY <3>1, <3>4, <3>6
    <3>7. CASE id = <<"uuid", id[2]>> /\ -id[2] \in Nat
      <4>1. id # <<"none">> /\ id # <<"custom">>
        BY <3>7
      <4>2. b.event.event_id = <<"uuid", id[2]>>
        BY <3>4, <3>7, <4>1
      <4>3. id[2] # n
        BY <3>1, <3>7
      <4> QED  BY <3>1, <4>2, <4>3
    <3> QED  BY <3>3, <3>5, <3>6, <3>7
  <2> QED  BY <2>3, <2>4
<1>2. PipelineSpec => []IdsInv
  BY IdsStart, IdsStep, PTL DEF PipelineSpec
<1> QED  BY <1>1, <1>2, PTL
-----------------------------------------------------------------------------
\* What the operators of the normaliser give, look-up by look-up.
LEMMA OverGives ==
  ASSUME NEW f, NEW g
  PROVE  /\ DOMAIN Over(f, g) = DOMAIN f \cup DOMAIN g
         /\ \A k \in DOMAIN f : Over(f, g)[k] = f[k]
         /\ \A k \in DOMAIN g \ DOMAIN f : Over(f, g)[k] = g[k]
BY DEF Over

LEMMA DefinedGives ==
  ASSUME NEW c
  PROVE  /\ DOMAIN FirstDefined(c) = {k \in DOMAIN c : c[k] # <<>>}
         /\ \A k \in DOMAIN c : c[k] # <<>> => FirstDefined(c)[k] = Head(c[k])
BY DEF FirstDefined

LEMMA HeadOfOne == \A x : <<x>> # <<>> /\ Head(<<x>>) = x
<1> TAKE x
<1>1. <<x>> \in Seq({x}) /\ Len(<<x>>) = 1 /\ <<x>>[1] = x
  OBVIOUS
<1> QED BY <1>1

LEMMA OptGives ==
  ASSUME NEW r, NEW k
  PROVE  /\ k \notin DOMAIN r => Opt(r, k) = <<>>
         /\ k \in DOMAIN r => Opt(r, k) # <<>> /\ Head(Opt(r, k)) = r[k]
         /\ \A T : r[k] \in T => Opt(r, k) \in Seq(T)
<1>1. CASE k \notin DOMAIN r
  BY <1>1 DEF Opt
<1>2. CASE k \in DOMAIN r
  <2>1. Opt(r, k) = <<r[k]>>
    BY <1>2 DEF Opt
  <2>2. \A T : r[k] \in T => <<r[k]>> \in Seq(T)
    OBVIOUS
  <2> QED BY <1>2, <2>1, <2>2, HeadOfOne
<1> QED BY <1>1, <1>2

LEMMA ConcatGives ==
  ASSUME NEW S, NEW s \in Seq(S), NEW t \in Seq(S)
  PROVE  /\ s \o t \in Seq(S)
         /\ s = <<>> => s \o t = t
         /\ s # <<>> => s \o t # <<>> /\ Head(s \o t) = Head(s)
         /\ s \o t = <<>> <=> s = <<>> /\ t = <<>>
<1>1. /\ s \o t \in Seq(S) /\ Len(s \o t) = Len(s) + Len(t)
      /\ \A i \in 1 .. Len(s) + Len(t) :
           (s \o t)[i] = IF i <= Len(s) THEN s[i] ELSE t[i - Len(s)]
  BY ConcatProperties
<1>2. s = <<>> => s \o t = t
  BY ConcatEmptySeq
<1>3. s # <<>> => s \o t # <<>> /\ Head(s \o t) = Head(s)
  <2> SUFFICES ASSUME s # <<>> PROVE s \o t # <<>> /\ Head(s \o t) = Head(s)
    OBVIOUS
  <2>1. Len(s) \in Nat /\ Len(s) >= 1 /\ Len(t) \in Nat
    BY EmptySeq
  <2>2. (s \o t)[1] = s[1] /\ Len(s \o t) >= 1
    BY <1>1, <2>1
  <2>3. s \o t # <<>>
    BY <2>1, <1>1
  <2> QED BY <1>1, <2>2, <2>3
<1> QED BY <1>1, <1>2, <1>3
-----------------------------------------------------------------------------
\* The context of an event: each key is what the innermost of its layers says.
ContextOf(env) == AttachCommonContext(MergeEventContext(env), env.scope)
Common == [runtime |-> "object", resource |-> "object", release |-> "scalar"]
RequestKeys == {"http", "headers", "correlation", "trace"}

LEMMA LayerKeys ==
  ASSUME NEW env
  PROVE  DOMAIN SurroundingLayer(env) \subseteq RequestKeys
<1>1. \A h, d, r, t : DOMAIN FirstDefined([http |-> h, headers |-> d, correlation |-> r, trace |-> t])
                        \subseteq RequestKeys
  BY DEF FirstDefined, RequestKeys
<1>2. \A t : DOMAIN FirstDefined([trace |-> t]) \subseteq RequestKeys
  BY DEF FirstDefined, RequestKeys
<1> QED BY <1>1, <1>2 DEF SurroundingLayer, RequestLayer

LEMMA ContextGives ==
  ASSUME NEW env \in Environments
  PROVE  LET c == ContextOf(env) e == env.explicit layer == SurroundingLayer(env)
             outer == Over(env.scope, env.business)
         IN /\ DOMAIN c = DOMAIN e \cup DOMAIN layer \cup DOMAIN outer \cup DOMAIN Common
            /\ \A k \in DOMAIN e : c[k] = e[k]
            /\ \A k \in DOMAIN layer \ DOMAIN e : c[k] = layer[k]
            /\ \A k \in DOMAIN outer \ DOMAIN e : c[k] = outer[k]
            /\ \A k \in DOMAIN Common \ DOMAIN e : c[k] = Common[k]
            /\ DOMAIN layer \subseteq RequestKeys /\ DOMAIN outer \subseteq {"user", "tags", "business"}
            /\ DOMAIN outer = DOMAIN env.scope \cup DOMAIN env.business
<1> DEFINE e == env.explicit
           layer == SurroundingLayer(env)
           outer == Over(env.scope, env.business)
           common == Over(env.scope, Common)
           inner == Over(layer, outer)
           m == Over(e, inner)
           c == Over(m, common)
<1>1. ContextOf(env) = c
  BY DEF ContextOf, AttachCommonContext, MergeEventContext, Common
<1>2. DOMAIN env.scope \subseteq {"user", "tags"} /\ DOMAIN env.business \subseteq {"business"}
  BY EnvironmentsAssumption
<1>3. DOMAIN Common = {"runtime", "resource", "release"}
  BY DEF Common
<1>4. DOMAIN layer \subseteq RequestKeys
  BY LayerKeys
<1> HIDE DEF layer
<1>5. DOMAIN outer = DOMAIN env.scope \cup DOMAIN env.business
  BY OverGives
<1>6. DOMAIN common = DOMAIN env.scope \cup DOMAIN Common /\ \A k \in DOMAIN Common : common[k] = Common[k]
  <2>1. \A k \in DOMAIN Common : k \notin DOMAIN env.scope
    BY <1>2, <1>3
  <2> QED BY <2>1 DEF Over
<1> HIDE DEF outer, common
<1>7. DOMAIN inner = DOMAIN layer \cup DOMAIN outer
      /\ (\A k \in DOMAIN layer : inner[k] = layer[k])
      /\ (\A k \in DOMAIN outer : inner[k] = outer[k])
  <2>1. \A k \in DOMAIN outer : k \notin DOMAIN layer
    BY <1>2, <1>4, <1>5 DEF RequestKeys
  <2> QED BY <2>1 DEF Over
<1> HIDE DEF inner
<1>8. DOMAIN m = DOMAIN e \cup DOMAIN inner
      /\ (\A k \in DOMAIN e : m[k] = e[k])
      /\ (\A k \in DOMAIN inner \ DOMAIN e : m[k] = inner[k])
  BY OverGives
<1> HIDE DEF m
<1>9. DOMAIN c = DOMAIN m \cup DOMAIN common
      /\ (\A k \in DOMAIN m : c[k] = m[k])
      /\ (\A k \in DOMAIN common \ DOMAIN m : c[k] = common[k])
  BY OverGives
<1> HIDE DEF c, e
<1>10. DOMAIN c = DOMAIN e \cup DOMAIN layer \cup DOMAIN outer \cup DOMAIN Common
  BY <1>5, <1>6, <1>7, <1>8, <1>9
<1>11. \A k \in DOMAIN Common : k \notin DOMAIN layer /\ k \notin DOMAIN outer
  BY <1>2, <1>3, <1>4, <1>5 DEF RequestKeys
<1>12. \A k \in DOMAIN Common \ DOMAIN e : c[k] = Common[k]
  BY <1>6, <1>7, <1>8, <1>9, <1>11
<1>13. (\A k \in DOMAIN e : c[k] = e[k]) /\ (\A k \in DOMAIN layer \ DOMAIN e : c[k] = layer[k])
       /\ (\A k \in DOMAIN outer \ DOMAIN e : c[k] = outer[k])
  BY <1>7, <1>8, <1>9
<1>14. DOMAIN outer \subseteq {"user", "tags", "business"}
  BY <1>2, <1>5
<1> QED BY <1>1, <1>4, <1>5, <1>10, <1>12, <1>13, <1>14 DEF c, e, layer, outer

\* A block is the application's own, or else what surrounds the event says.
LEMMA BlockGives ==
  ASSUME NEW env \in Environments, NEW k
  PROVE  LET c == ContextOf(env) e == env.explicit layer == SurroundingLayer(env)
         IN /\ k \in DOMAIN e => Block(c, k) = Block(e, k)
            /\ k \in RequestKeys \ DOMAIN e => Block(c, k) = Block(layer, k)
            /\ k \in {"db", "queue", "request", "response"} => Block(c, k) = Block(e, k)
<1> DEFINE c == ContextOf(env)
           e == env.explicit
           layer == SurroundingLayer(env)
           outer == Over(env.scope, env.business)
<1>1. /\ DOMAIN c = DOMAIN e \cup DOMAIN layer \cup DOMAIN outer \cup DOMAIN Common
      /\ \A j \in DOMAIN e : c[j] = e[j]
      /\ \A j \in DOMAIN layer \ DOMAIN e : c[j] = layer[j]
      /\ DOMAIN layer \subseteq RequestKeys
      /\ DOMAIN outer \subseteq {"user", "tags", "business"}
  BY ContextGives
<1>2. DOMAIN Common = {"runtime", "resource", "release"}
  BY DEF Common
<1> HIDE DEF c, e, layer, outer
<1>3. k \in DOMAIN e => Block(c, k) = Block(e, k)
  BY <1>1 DEF Block
<1>4. ASSUME k \in RequestKeys \ DOMAIN e PROVE Block(c, k) = Block(layer, k)
  <2>1. k \in DOMAIN c <=> k \in DOMAIN layer
    BY <1>1, <1>2, <1>4 DEF RequestKeys
  <2> QED BY <2>1, <1>1, <1>4 DEF Block
<1>5. ASSUME k \in {"db", "queue", "request", "response"} PROVE Block(c, k) = Block(e, k)
  <2>1. k \in DOMAIN c <=> k \in DOMAIN e
    BY <1>1, <1>2, <1>5 DEF RequestKeys
  <2> QED BY <2>1, <1>1 DEF Block
<1> QED BY <1>3, <1>4, <1>5 DEF c, e, layer
\* In a request the layer has its URL, the template of its route if it was routed,
\* and its headers.
LEMMA HttpOfLayer ==
  ASSUME NEW env \in Environments, env.snap # <<>>
  PROVE  LET layer == SurroundingLayer(env) snap == env.snap[1]
         IN /\ {"http", "headers"} \subseteq DOMAIN layer /\ layer.headers = snap.headers
            /\ {"method", "url"} \subseteq DOMAIN layer.http /\ layer.http.url = snap.url
            /\ DOMAIN layer.http \subseteq {"method", "url", "route_template", "response_status_code"}
            /\ "route_template" \in DOMAIN layer.http <=> snap.route # <<>>
            /\ snap.route # <<>> => layer.http.route_template = snap.route[1]
<1> DEFINE snap == env.snap[1]
           given == [method |-> <<snap.method>>, url |-> <<snap.url>>, route_template |-> snap.route,
                     response_status_code |-> snap.status]
           http == FirstDefined(given)
<1>1. \A h, d, r, t : LET f == FirstDefined([http |-> <<h>>, headers |-> <<d>>, correlation |-> r, trace |-> t])
                      IN {"http", "headers"} \subseteq DOMAIN f /\ f.http = h /\ f.headers = d
  BY HeadOfOne DEF FirstDefined
<1>2. SurroundingLayer(env).http = http /\ SurroundingLayer(env).headers = snap.headers
      /\ {"http", "headers"} \subseteq DOMAIN SurroundingLayer(env)
  BY <1>1 DEF SurroundingLayer, RequestLayer
<1>3. \A m, u, r, c : LET f == FirstDefined([method |-> <<m>>, url |-> <<u>>, route_template |-> r,
                                             response_status_code |-> c])
                      IN /\ {"method", "url"} \subseteq DOMAIN f /\ f.url = u
                         /\ DOMAIN f \subseteq {"method", "url", "route_template", "response_status_code"}
                         /\ "route_template" \in DOMAIN f <=> r # <<>>
                         /\ r # <<>> => f.route_template = Head(r)
  BY HeadOfOne DEF FirstDefined
<1>4. snap.route # <<>> => Head(snap.route) = snap.route[1]
  BY EnvironmentsAssumption
<1> HIDE DEF snap
<1>5. /\ {"method", "url"} \subseteq DOMAIN http /\ http.url = snap.url
      /\ DOMAIN http \subseteq {"method", "url", "route_template", "response_status_code"}
      /\ "route_template" \in DOMAIN http <=> snap.route # <<>>
      /\ snap.route # <<>> => http.route_template = Head(snap.route)
  BY <1>3
<1> HIDE DEF http
<1> QED BY <1>2, <1>4, <1>5 DEF snap

\* The trace is that of the span, or else of the caller, or else there is none.
Caller(env) == IF env.snap # <<>> THEN Parsed(env.snap[1].headers) ELSE <<>>

LEMMA ParsedGives ==
  ASSUME NEW headers
  PROVE  /\ Parsed(headers) # <<>> =>
              /\ Parsed(headers) = <<headers.traceparent>>
              /\ ParsedTraceId(headers) = <<headers.traceparent.trace_id>>
         /\ ParsedTraceId(headers) # <<>> =>
              /\ ParsedTraceId(headers) = <<headers.traceparent.trace_id>>
              /\ headers.traceparent.trace_id \in Valid
BY DEF Parsed, ParsedTraceId

LEMMA TraceOfLayer ==
  ASSUME NEW env \in Environments
  PROVE  LET layer == SurroundingLayer(env)
         IN /\ env.span # <<>> => "trace" \in DOMAIN layer /\ layer.trace = TraceLayerFromSpanContext(env.span[1])
            /\ env.span = <<>> /\ Caller(env) # <<>> =>
                 /\ "trace" \in DOMAIN layer /\ DOMAIN layer.trace = {"trace_id", "parent_span_id"}
                 /\ layer.trace.trace_id = Caller(env)[1].trace_id
            /\ env.span = <<>> /\ Caller(env) = <<>> => "trace" \notin DOMAIN layer
            /\ Caller(env) = <<>> => "correlation" \notin DOMAIN layer
            /\ env.snap = <<>> => DOMAIN layer \subseteq {"trace"}
<1> DEFINE layer == SurroundingLayer(env)
<1>1. \A h, d, r, t : LET f == FirstDefined([http |-> h, headers |-> d, correlation |-> r, trace |-> t])
                      IN /\ "trace" \in DOMAIN f <=> t # <<>>
                         /\ t # <<>> => f.trace = Head(t)
                         /\ "correlation" \in DOMAIN f <=> r # <<>>
  BY DEF FirstDefined
<1>2. \A t : LET f == FirstDefined([trace |-> t])
             IN /\ "trace" \in DOMAIN f <=> t # <<>>
                /\ t # <<>> => f.trace = Head(t)
                /\ DOMAIN f \subseteq {"trace"}
  BY DEF FirstDefined
<1>3. CASE env.snap = <<>>
  <2> DEFINE t == IF env.span = <<>> THEN <<>> ELSE <<TraceLayerFromSpanContext(env.span[1])>>
  <2>1. layer = FirstDefined([trace |-> t])
    BY <1>3 DEF SurroundingLayer
  <2>2. ("trace" \in DOMAIN layer <=> t # <<>>) /\ (t # <<>> => layer.trace = Head(t))
        /\ DOMAIN layer \subseteq {"trace"}
    BY <2>1, <1>2
  <2>3. env.span # <<>> => t # <<>> /\ Head(t) = TraceLayerFromSpanContext(env.span[1])
    BY HeadOfOne
  <2>4. env.span = <<>> => t = <<>>
    OBVIOUS
  <2> HIDE DEF layer, t
  <2> QED BY <1>3, <2>2, <2>3, <2>4 DEF Caller, layer
<1>4. CASE env.snap # <<>>
  <2> DEFINE corr == Parsed(env.snap[1].headers)
             ids == [i \in DOMAIN corr |-> [trace_id |-> corr[i].trace_id, parent_span_id |-> corr[i].parent_id]]
             r == [i \in DOMAIN corr |-> [traceId |-> corr[i].trace_id]]
             t == IF env.span # <<>> THEN <<TraceLayerFromSpanContext(env.span[1])>> ELSE ids
  <2>1. \E h, d : layer = FirstDefined([http |-> h, headers |-> d, correlation |-> r, trace |-> t])
    BY <1>4 DEF SurroundingLayer, RequestLayer
  <2>2. /\ "trace" \in DOMAIN layer <=> t # <<>>
        /\ t # <<>> => layer.trace = Head(t)
        /\ "correlation" \in DOMAIN layer <=> r # <<>>
    <3> HIDE DEF r, t, layer
    <3> QED BY <2>1, <1>1
  <2>3. env.span # <<>> => t # <<>> /\ Head(t) = TraceLayerFromSpanContext(env.span[1])
    BY HeadOfOne
  <2>4. corr = <<>> => ids = <<>> /\ r = <<>>
    OBVIOUS
  <2>5. corr # <<>> => ids = <<[trace_id |-> corr[1].trace_id, parent_span_id |-> corr[1].parent_id]>>
    <3>1. corr # <<>> => corr = <<env.snap[1].headers.traceparent>>
      BY ParsedGives
    <3> HIDE DEF corr
    <3>2. corr # <<>> => DOMAIN corr = 1..1
      BY <3>1
    <3> QED BY <3>2
  <2>6. corr # <<>> => ids # <<>> /\ Head(ids) = [trace_id |-> corr[1].trace_id, parent_span_id |-> corr[1].parent_id]
    <3> HIDE DEF ids, corr
    <3> QED BY <2>5, HeadOfOne
  <2>7. Caller(env) = corr
    BY <1>4 DEF Caller
  <2>8. env.span = <<>> => t = ids
    OBVIOUS
  <2> HIDE DEF layer, t, ids, r, corr
  <2> QED BY <1>4, <2>2, <2>3, <2>4, <2>6, <2>7, <2>8 DEF layer
<1> QED BY <1>3, <1>4
-----------------------------------------------------------------------------
\* The trace of an event, by where it was made.
LEMMA PickGives ==
  ASSUME NEW c
  PROVE  LET ids == Block(c, "trace") corr == Block(c, "correlation") parsed == ParsedTraceId(Block(c, "headers"))
         IN /\ "trace_id" \in DOMAIN ids => PickTraceId(c) = ids.trace_id
            /\ "trace_id" \notin DOMAIN ids =>
                 /\ "traceId" \in DOMAIN corr => PickTraceId(c) = corr.traceId
                 /\ "traceId" \notin DOMAIN corr =>
                      PickTraceId(c) = IF parsed = <<>> THEN NULL ELSE parsed[1]
<1> DEFINE ids == Block(c, "trace")
           corr == Block(c, "correlation")
           parsed == ParsedTraceId(Block(c, "headers"))
           T == {ids.trace_id, corr.traceId} \cup {parsed[1]}
           a == Opt(ids, "trace_id")
           b == Opt(corr, "traceId")
           found == a \o b \o parsed
<1>1. PickTraceId(c) = IF found = <<>> THEN NULL ELSE Head(found)
  BY DEF PickTraceId
<1>2. a \in Seq(T) /\ b \in Seq(T)
  <2>1. ids.trace_id \in T /\ corr.traceId \in T
    OBVIOUS
  <2> HIDE DEF T, ids, corr
  <2> QED BY <2>1, OptGives
<1>3. parsed \in Seq(T) /\ (parsed # <<>> => Head(parsed) = parsed[1])
  <2>1. parsed = <<>> \/ parsed = <<Block(c, "headers").traceparent.trace_id>>
    BY DEF ParsedTraceId
  <2>2. parsed[1] \in T
    OBVIOUS
  <2>3. \A x : <<x>>[1] = x /\ (x \in T => <<x>> \in Seq(T))
    OBVIOUS
  <2> HIDE DEF T, parsed
  <2>4. CASE parsed = <<>>
    BY <2>4
  <2>5. CASE parsed # <<>>
    <3>1. PICK x : parsed = <<x>>
      BY <2>1, <2>5
    <3> QED BY <2>2, <2>3, <3>1, HeadOfOne
  <2> QED BY <2>4, <2>5
<1> HIDE DEF T
<1>4. /\ "trace_id" \in DOMAIN ids => a # <<>> /\ Head(a) = ids.trace_id
      /\ "trace_id" \notin DOMAIN ids => a = <<>>
      /\ "traceId" \in DOMAIN corr => b # <<>> /\ Head(b) = corr.traceId
      /\ "traceId" \notin DOMAIN corr => b = <<>>
  BY OptGives
<1> HIDE DEF a, b, parsed, ids, corr
<1>5. /\ a \o b \in Seq(T)
      /\ a = <<>> => a \o b = b
      /\ a # <<>> => a \o b # <<>> /\ Head(a \o b) = Head(a)
  BY <1>2, ConcatGives
<1>6. /\ a \o b = <<>> => found = parsed
      /\ a \o b # <<>> => found # <<>> /\ Head(found) = Head(a \o b)
  BY <1>3, <1>5, ConcatGives
<1> HIDE DEF found
<1> QED BY <1>1, <1>3, <1>4, <1>5, <1>6 DEF ids, corr, parsed

LEMMA SpanLayerGives ==
  ASSUME NEW state, state.stack \in Seq(Valid)
  PROVE  LET f == TraceLayerFromSpanContext(state)
         IN /\ "trace_id" \in DOMAIN f /\ f.trace_id = state.trace_id
            /\ "span_id" \in DOMAIN f <=> state.stack # <<>>
            /\ state.stack # <<>> => f.span_id = state.stack[Len(state.stack)] /\ f.span_id \in Valid
<1>1. \A t, s, p : LET f == FirstDefined([trace_id |-> <<t>>, span_id |-> s, parent_span_id |-> p])
                   IN /\ "trace_id" \in DOMAIN f /\ f.trace_id = t
                      /\ "span_id" \in DOMAIN f <=> s # <<>>
                      /\ s # <<>> => f.span_id = Head(s)
  BY HeadOfOne DEF FirstDefined
<1> DEFINE n == Len(state.stack)
           s == IF n > 0 THEN <<state.stack[n]>> ELSE <<>>
           p == IF n > 1 THEN <<state.stack[n - 1]>> ELSE <<>>
           f == FirstDefined([trace_id |-> <<state.trace_id>>, span_id |-> s, parent_span_id |-> p])
<1>2. TraceLayerFromSpanContext(state) = f
  BY DEF TraceLayerFromSpanContext
<1>3. /\ "trace_id" \in DOMAIN f /\ f.trace_id = state.trace_id
      /\ "span_id" \in DOMAIN f <=> s # <<>>
      /\ s # <<>> => f.span_id = Head(s)
  <2> HIDE DEF s, p
  <2> QED BY <1>1
<1>4. (state.stack # <<>> <=> n > 0) /\ (n > 0 => state.stack[n] \in Valid)
  BY EmptySeq
<1>5. (s # <<>> <=> n > 0) /\ (n > 0 => Head(s) = state.stack[n])
  <2> HIDE DEF n
  <2> QED BY HeadOfOne
<1> HIDE DEF f, s
<1> QED BY <1>2, <1>3, <1>4, <1>5

LEMMA TraceOfEvent ==
  ASSUME NEW env \in Environments, NEW q, NEW n, q.context = ContextOf(env)
  PROVE  TraceIsWhereMade(env, NormalizeEventV4(q, n))
<1> DEFINE c == ContextOf(env)
           e == env.explicit
           layer == SurroundingLayer(env)
           event == NormalizeEventV4(q, n)
           ids == Block(c, "trace")
           picked == PickTraceId(c)
           span == Opt(ids, "span_id")
           inSpan == env.span # <<>>
           headers == IF env.snap # <<>> THEN env.snap[1].headers ELSE <<>>
           caller == ParsedTraceId(headers)
           stack == IF inSpan THEN env.span[1].stack ELSE <<>>
           given == DOMAIN e \cap
                      ({"trace"} \cup IF inSpan \/ Parsed(headers) # <<>> THEN {} ELSE {"correlation", "headers"})
<1>1. event.trace_id = (IF picked \in Valid THEN picked ELSE NULL)
      /\ event.span_id = (IF event.trace_id # NULL /\ span # <<>> /\ span[1] \in Valid THEN span[1] ELSE NULL)
  BY DEF NormalizeEventV4
<1> HIDE DEF event
<1>2. event.trace_id = NULL => event.span_id = NULL
  BY <1>1
<1>3. ASSUME "trace_id" \in DOMAIN Block(e, "trace") PROVE event.trace_id \in {e.trace.trace_id, NULL}
  <2>1. "trace" \in DOMAIN e
    BY <1>3 DEF Block
  <2>2. ids = e.trace
    BY <2>1, BlockGives DEF Block
  <2>3. picked = e.trace.trace_id
    BY <1>3, <2>1, <2>2, PickGives DEF Block
  <2> QED BY <1>1, <2>3
<1>4. ASSUME given = {}
      PROVE  /\ event.trace_id = IF inSpan THEN env.span[1].trace_id ELSE IF caller # <<>> THEN caller[1] ELSE NULL
             /\ event.span_id = IF stack = <<>> THEN NULL ELSE stack[Len(stack)]
  <2>0. "trace" \notin DOMAIN e
    BY <1>4
  <2>1. ids = Block(layer, "trace")
    BY <2>0, BlockGives DEF RequestKeys
  <2>2. CASE inSpan
    <3>1. ids = TraceLayerFromSpanContext(env.span[1])
      BY <2>1, <2>2, TraceOfLayer DEF Block
    <3>2. env.span[1].trace_id \in Valid /\ stack \in Seq(Valid) /\ stack = env.span[1].stack
      BY <2>2, EnvironmentsAssumption
    <3>3. /\ "trace_id" \in DOMAIN ids /\ ids.trace_id = env.span[1].trace_id
          /\ "span_id" \in DOMAIN ids <=> stack # <<>>
          /\ stack # <<>> => ids.span_id = stack[Len(stack)] /\ ids.span_id \in Valid
      <4> HIDE DEF ids, stack
      <4> QED BY <3>1, <3>2, SpanLayerGives
    <3> HIDE DEF ids, stack
    <3>4. picked = env.span[1].trace_id
      BY <3>3, PickGives DEF ids
    <3>5. event.trace_id = env.span[1].trace_id /\ event.trace_id # NULL
      BY <1>1, <3>2, <3>4, ValidAssumption
    <3>6. span = IF stack # <<>> THEN <<ids.span_id>> ELSE <<>>
      BY <3>3 DEF Opt
    <3>7. event.span_id = IF stack = <<>> THEN NULL ELSE stack[Len(stack)]
      <4> HIDE DEF span
      <4> QED BY <1>1, <3>3, <3>5, <3>6
    <3> QED BY <2>2, <3>5, <3>7
  <2>3. CASE ~inSpan
    <3>1. stack = <<>>
      BY <2>3
    <3>2. "span_id" \notin DOMAIN ids
      <4>1. CASE Caller(env) # <<>>
        <5>1. ids = layer.trace /\ DOMAIN ids = {"trace_id", "parent_span_id"}
          BY <2>1, <2>3, <4>1, TraceOfLayer DEF Block
        <5> HIDE DEF ids
        <5> QED BY <5>1
      <4>2. CASE Caller(env) = <<>>
        BY <2>1, <2>3, <4>2, TraceOfLayer DEF Block
      <4> QED BY <4>1, <4>2
    <3>3. event.span_id = NULL
      BY <1>1, <3>2 DEF Opt
    <3>4. Caller(env) = Parsed(headers)
      BY DEF Caller, Parsed
    <3>5. picked = IF caller # <<>> THEN caller[1] ELSE NULL
      <4>1. CASE Caller(env) # <<>>
        <5>1. "trace" \in DOMAIN layer /\ ids = layer.trace /\ "trace_id" \in DOMAIN ids
              /\ ids.trace_id = Caller(env)[1].trace_id
          BY <2>1, <2>3, <4>1, TraceOfLayer DEF Block
        <5>2. picked = Caller(env)[1].trace_id
          <6> HIDE DEF layer
          <6> QED BY <5>1, PickGives DEF ids
        <5>3. caller = <<headers.traceparent.trace_id>> /\ Caller(env) = <<headers.traceparent>>
          <6> HIDE DEF headers
          <6> QED BY <3>4, <4>1, ParsedGives
        <5> HIDE DEF caller, headers, picked
        <5> QED BY <5>2, <5>3
      <4>2. CASE Caller(env) = <<>>
        <5>1. "correlation" \notin DOMAIN e /\ "headers" \notin DOMAIN e
          <6> HIDE DEF headers
          <6> QED BY <1>4, <2>3, <3>4, <4>2
        <5>2. "trace" \notin DOMAIN layer /\ "correlation" \notin DOMAIN layer
          BY <2>3, <4>2, TraceOfLayer
        <5>3. Block(c, "trace") = <<>> /\ Block(c, "correlation") = <<>>
              /\ Block(c, "headers") = Block(layer, "headers")
          BY <2>1, <5>1, <5>2, BlockGives DEF Block, RequestKeys
        <5>4. Block(layer, "headers") = headers
          <6>1. CASE env.snap = <<>>
            BY <6>1, TraceOfLayer DEF Block
          <6>2. CASE env.snap # <<>>
            BY <6>2, HttpOfLayer DEF Block
          <6> QED BY <6>1, <6>2
        <5>5. DOMAIN Block(c, "trace") = {} /\ DOMAIN Block(c, "correlation") = {}
          BY <5>3
        <5> HIDE DEF headers, layer
        <5> QED BY <5>3, <5>4, <5>5, PickGives
      <4> QED BY <4>1, <4>2
    <3>6. caller # <<>> => caller[1] \in Valid
      BY ParsedGives
    <3>7. event.trace_id = IF caller # <<>> THEN caller[1] ELSE NULL
      <4> HIDE DEF caller, picked
      <4> QED BY <1>1, <3>5, <3>6, ValidAssumption
    <3> QED BY <2>3, <3>1, <3>3, <3>7
  <2> QED BY <2>2, <2>3
<1> HIDE DEF given, stack, caller
<1> QED BY <1>2, <1>3, <1>4 DEF TraceIsWhereMade, event, given, caller, stack
-----------------------------------------------------------------------------
\* The route of an event of a request.
LEMMA TwoGive ==
  ASSUME NEW r, NEW s, NEW k
  PROVE  LET both == Opt(r, k) \o Opt(s, k)
         IN /\ both = <<>> <=> k \notin DOMAIN r /\ k \notin DOMAIN s
            /\ k \in DOMAIN r => Head(both) = r[k]
<1> DEFINE T == {r[k], s[k]}
<1>1. r[k] \in T /\ s[k] \in T
  OBVIOUS
<1> HIDE DEF T
<1>2. Opt(r, k) \in Seq(T) /\ Opt(s, k) \in Seq(T)
  BY <1>1, OptGives
<1>3. /\ k \notin DOMAIN r => Opt(r, k) = <<>>
      /\ k \in DOMAIN r => Opt(r, k) # <<>> /\ Head(Opt(r, k)) = r[k]
      /\ k \notin DOMAIN s <=> Opt(s, k) = <<>>
  BY OptGives
<1> QED BY <1>2, <1>3, ConcatGives

LEMMA MaskTwice == \A path : Mask(Mask(path)) = Mask(path)
BY DEF Mask

LEMMA MaskNothing ==
  ASSUME NEW path \in Seq(STRING), "id" \notin ToSet(path), "hex" \notin ToSet(path)
  PROVE  Mask(path) = path
<1>1. \A i \in DOMAIN path : path[i] \notin {"id", "hex"}
  BY DEF ToSet
<1>2. path = [i \in DOMAIN path |-> path[i]]
  OBVIOUS
<1> QED BY <1>1, <1>2 DEF Mask

LEMMA HttpOfRequest ==
  ASSUME NEW env \in Environments, env.snap # <<>>, "http" \notin DOMAIN env.explicit
  PROVE  LET http == MergeHttpFromLegacy(ContextOf(env)) snap == env.snap[1]
         IN /\ {"method", "url"} \subseteq DOMAIN http /\ http.url = snap.url
            /\ "route" \notin DOMAIN http
            /\ "route_template" \in DOMAIN http <=> snap.route # <<>>
            /\ snap.route # <<>> => http.route_template = snap.route[1]
<1> DEFINE c == ContextOf(env)
           h == Block(c, "http")
           r == Block(c, "request")
           http == MergeHttpFromLegacy(c)
<1>1. \A m, u, o, t, d, s :
        LET f == FirstDefined([method |-> m, url |-> u, route |-> o, route_template |-> t, duration_ms |-> d,
                               response_status_code |-> s])
        IN /\ "method" \in DOMAIN f <=> m # <<>>
           /\ "url" \in DOMAIN f <=> u # <<>>
           /\ "route" \in DOMAIN f <=> o # <<>>
           /\ "route_template" \in DOMAIN f <=> t # <<>>
           /\ u # <<>> => f.url = Head(u)
           /\ t # <<>> => f.route_template = Head(t)
  BY DEF FirstDefined
<1>2. LET m == Opt(h, "method") \o Opt(r, "method") u == Opt(h, "url") \o Opt(r, "url")
          o == Opt(h, "route") t == Opt(h, "route_template")
      IN /\ "method" \in DOMAIN http <=> m # <<>>
         /\ "url" \in DOMAIN http <=> u # <<>>
         /\ "route" \in DOMAIN http <=> o # <<>>
         /\ "route_template" \in DOMAIN http <=> t # <<>>
         /\ u # <<>> => http.url = Head(u)
         /\ t # <<>> => http.route_template = Head(t)
  <2> HIDE DEF c
  <2> QED BY <1>1 DEF MergeHttpFromLegacy
<1> HIDE DEF http
<1>3. h = SurroundingLayer(env).http
  BY BlockGives, HttpOfLayer DEF Block, RequestKeys
<1>4. /\ {"method", "url"} \subseteq DOMAIN h /\ h.url = env.snap[1].url
      /\ "route" \notin DOMAIN h
      /\ "route_template" \in DOMAIN h <=> env.snap[1].route # <<>>
      /\ env.snap[1].route # <<>> => h.route_template = env.snap[1].route[1]
  <2>1. /\ {"method", "url"} \subseteq DOMAIN h /\ h.url = env.snap[1].url
        /\ DOMAIN h \subseteq {"method", "url", "route_template", "response_status_code"}
        /\ "route_template" \in DOMAIN h <=> env.snap[1].route # <<>>
        /\ env.snap[1].route # <<>> => h.route_template = env.snap[1].route[1]
    BY <1>3, HttpOfLayer
  <2> HIDE DEF h
  <2> QED BY <2>1
<1> HIDE DEF h, r
<1> QED BY <1>2, <1>4, TwoGive, OptGives DEF http, c

LEMMA RouteOfEvent ==
  ASSUME NEW env \in Environments, NEW q, NEW n, q.context = ContextOf(env)
  PROVE  RouteIsSpans(env, NormalizeEventV4(q, n))
<1> SUFFICES ASSUME env.snap # <<>>, "http" \notin DOMAIN env.explicit
             PROVE  LET snap == env.snap[1] event == NormalizeEventV4(q, n)
                    IN /\ event.route # <<>> /\ Mask(event.route[1]) = Mask(SpanRoute(snap))
                       /\ \/ event.route = <<SpanRoute(snap)>>
                          \/ snap.route = <<>> /\ "hex" \in ToSet(snap.url)
                          \/ snap.route # <<>> /\ RawSegments(snap.route[1])
  BY DEF RouteIsSpans
<1> DEFINE snap == env.snap[1]
           merged == MergeHttpFromLegacy(ContextOf(env))
           http == FinalizeHttp(merged)
           event == NormalizeEventV4(q, n)
           route == PickV3HttpRoute(http)
<1>1. event.route = IF http = <<>> THEN <<>> ELSE <<route>>
  BY DEF NormalizeEventV4
<1>2. /\ {"method", "url"} \subseteq DOMAIN merged /\ merged.url = snap.url
      /\ "route" \notin DOMAIN merged
      /\ "route_template" \in DOMAIN merged <=> snap.route # <<>>
      /\ snap.route # <<>> => merged.route_template = snap.route[1]
  BY HttpOfRequest
<1>3. snap.url \in Seq(STRING) /\ snap.route \in Seq(Seq(STRING))
  BY EnvironmentsAssumption
<1> HIDE DEF event, merged, snap
<1>4. \A x : <<x>>[1] = x /\ <<x>> # <<>>
  BY HeadOfOne
<1>5. CASE snap.route = <<>>
  <2>1. /\ DOMAIN http = DOMAIN merged \cup {"route"} /\ http.route = snap.url
        /\ "route_template" \notin DOMAIN http
    BY <1>2, <1>5 DEF FinalizeHttp, Over
  <2>2. http # <<>>
    BY <2>1
  <2> HIDE DEF http
  <2>3. route = IF RawSegments(snap.url) THEN Mask(snap.url) ELSE snap.url
    <3>1. Opt(http, "route_template") = <<>> /\ Opt(http, "route") \o Opt(http, "route_template") = <<snap.url>>
      <4>1. Opt(http, "route") = <<snap.url>> /\ Opt(http, "route_template") = <<>>
        BY <2>1 DEF Opt
      <4>2. <<snap.url>> \in Seq({snap.url})
        OBVIOUS
      <4>3. <<snap.url>> \o <<>> = <<snap.url>>
        BY <4>2, ConcatEmptySeq
      <4> QED BY <4>1, <4>3
    <3> QED BY <3>1, <1>4 DEF PickV3HttpRoute
  <2>4. SpanRoute(snap) = Mask(snap.url)
    BY <1>5 DEF SpanRoute
  <2>5. Mask(route) = Mask(SpanRoute(snap))
    BY <2>3, <2>4, MaskTwice
  <2>6. route = SpanRoute(snap) \/ "hex" \in ToSet(snap.url)
    BY <1>3, <2>3, <2>4, MaskNothing DEF RawSegments
  <2> HIDE DEF route
  <2> QED BY <1>1, <1>4, <1>5, <2>2, <2>5, <2>6 DEF event, snap
<1>6. CASE snap.route # <<>>
  <2> DEFINE template == snap.route[1]
  <2>1. http = merged /\ http # <<>>
    BY <1>2, <1>6 DEF FinalizeHttp
  <2>2. "route" \notin DOMAIN http /\ "route_template" \in DOMAIN http /\ http.route_template = template
    BY <1>2, <1>6, <2>1
  <2> HIDE DEF http, template
  <2>3. route = IF RawSegments(template) THEN Mask(template) ELSE template
    <3>1. Opt(http, "route_template") = <<template>>
          /\ Opt(http, "route") \o Opt(http, "route_template") = <<template>>
      <4>1. Opt(http, "route") = <<>> /\ Opt(http, "route_template") = <<template>>
        BY <2>2 DEF Opt
      <4>2. <<template>> \in Seq({template})
        OBVIOUS
      <4>3. <<>> \o <<template>> = <<template>>
        BY <4>2, ConcatEmptySeq
      <4> QED BY <4>1, <4>3
    <3> QED BY <3>1, <1>4 DEF PickV3HttpRoute
  <2>4. SpanRoute(snap) = template
    BY <1>6 DEF SpanRoute, template
  <2>5. Mask(route) = Mask(SpanRoute(snap))
    BY <2>3, <2>4, MaskTwice
  <2> HIDE DEF route
  <2>6. route = SpanRoute(snap) \/ RawSegments(template)
    BY <2>3, <2>4 DEF route
  <2> QED BY <1>1, <1>4, <1>6, <2>1, <2>5, <2>6 DEF event, snap, template
<1> QED BY <1>5, <1>6
-----------------------------------------------------------------------------
\* What the SDK reads of a block is in the event.
LEMMA OptIn ==
  ASSUME NEW r, NEW k, NEW T, {r[j] : j \in DOMAIN r} \subseteq T
  PROVE  /\ Opt(r, k) \in Seq(T)
         /\ Opt(r, k) = <<>> <=> k \notin DOMAIN r
<1>1. CASE k \notin DOMAIN r
  BY <1>1, OptGives, EmptySeq
<1>2. CASE k \in DOMAIN r
  BY <1>2, OptGives
<1> QED BY <1>1, <1>2

LEMMA NoneOfThree ==
  ASSUME NEW T, NEW a \in Seq(T), NEW b \in Seq(T), NEW d \in Seq(T)
  PROVE  /\ a \o b \o d \in Seq(T)
         /\ a \o b \o d = <<>> <=> a = <<>> /\ b = <<>> /\ d = <<>>
<1>1. a \o b \in Seq(T) /\ (a \o b = <<>> <=> a = <<>> /\ b = <<>>)
  BY ConcatGives
<1> QED BY <1>1, ConcatGives

LEMMA NoneOfFive ==
  ASSUME NEW T, NEW a \in Seq(T), NEW b \in Seq(T), NEW d \in Seq(T), NEW f \in Seq(T), NEW g \in Seq(T)
  PROVE  /\ a \o b \o d \o f = <<>> <=> a = <<>> /\ b = <<>> /\ d = <<>> /\ f = <<>>
         /\ a \o b \o d \o f \o g = <<>> <=> a = <<>> /\ b = <<>> /\ d = <<>> /\ f = <<>> /\ g = <<>>
<1> DEFINE s == a \o b \o d
           t == s \o f
<1>1. s \in Seq(T) /\ (s = <<>> <=> a = <<>> /\ b = <<>> /\ d = <<>>)
  BY NoneOfThree
<1> HIDE DEF s
<1>2. t \in Seq(T) /\ (t = <<>> <=> s = <<>> /\ f = <<>>)
  BY <1>1, ConcatGives
<1> HIDE DEF t
<1>3. t \o g = <<>> <=> t = <<>> /\ g = <<>>
  BY <1>2, ConcatGives
<1> QED BY <1>1, <1>2, <1>3 DEF s, t

LEMMA HttpRead ==
  ASSUME NEW c,
         \/ DOMAIN Block(c, "http") \cap ReadFields.http # {}
         \/ DOMAIN Block(c, "request") \cap ReadFields.request # {}
         \/ DOMAIN Block(c, "response") \cap ReadFields.response # {}
  PROVE  FinalizeHttp(MergeHttpFromLegacy(c)) # <<>>
<1> DEFINE h == Block(c, "http")
           r == Block(c, "request")
           s == Block(c, "response")
           T == {h[j] : j \in DOMAIN h} \cup {r[j] : j \in DOMAIN r} \cup {s[j] : j \in DOMAIN s}
           method == Opt(h, "method") \o Opt(r, "method")
           url == Opt(h, "url") \o Opt(r, "url")
           duration == Opt(h, "duration_ms") \o Opt(h, "durationMs")
                       \o Opt(s, "durationMs") \o Opt(s, "duration_ms")
           status == Opt(h, "response_status_code") \o Opt(h, "status_code")
                     \o Opt(h, "statusCode") \o Opt(s, "statusCode")
                     \o Opt(s, "status_code")
           http == MergeHttpFromLegacy(c)
<1>1. \A m, u, o, t, d, x :
        LET f == FirstDefined([method |-> m, url |-> u, route |-> o, route_template |-> t, duration_ms |-> d,
                               response_status_code |-> x])
        IN DOMAIN f = {} => m = <<>> /\ u = <<>> /\ o = <<>> /\ t = <<>> /\ d = <<>> /\ x = <<>>
  BY DEF FirstDefined
<1>2. DOMAIN http = {} => /\ method = <<>> /\ url = <<>> /\ duration = <<>> /\ status = <<>>
                          /\ Opt(h, "route") = <<>> /\ Opt(h, "route_template") = <<>>
  <2> HIDE DEF method, url, duration, status
  <2>1. http = FirstDefined([method |-> method, url |-> url, route |-> Opt(h, "route"),
                             route_template |-> Opt(h, "route_template"), duration_ms |-> duration,
                             response_status_code |-> status])
    BY DEF MergeHttpFromLegacy, method, url, duration, status
  <2> HIDE DEF http, h
  <2> QED BY <2>1, <1>1
<1>3. /\ {h[j] : j \in DOMAIN h} \subseteq T /\ {r[j] : j \in DOMAIN r} \subseteq T
      /\ {s[j] : j \in DOMAIN s} \subseteq T
  OBVIOUS
<1> HIDE DEF T, h, r, s, http
<1>4. \A k : /\ Opt(h, k) \in Seq(T) /\ (Opt(h, k) = <<>> <=> k \notin DOMAIN h)
             /\ Opt(r, k) \in Seq(T) /\ (Opt(r, k) = <<>> <=> k \notin DOMAIN r)
             /\ Opt(s, k) \in Seq(T) /\ (Opt(s, k) = <<>> <=> k \notin DOMAIN s)
  BY <1>3, OptIn
<1>5. (method = <<>> => "method" \notin DOMAIN h /\ "method" \notin DOMAIN r)
      /\ (url = <<>> => "url" \notin DOMAIN h /\ "url" \notin DOMAIN r)
  BY <1>4, ConcatGives
<1>6. duration = <<>> => /\ "duration_ms" \notin DOMAIN h /\ "durationMs" \notin DOMAIN h
                         /\ "durationMs" \notin DOMAIN s /\ "duration_ms" \notin DOMAIN s
  BY <1>4, NoneOfFive
<1>7. status = <<>> => /\ "response_status_code" \notin DOMAIN h /\ "status_code" \notin DOMAIN h
                       /\ "statusCode" \notin DOMAIN h
                       /\ "statusCode" \notin DOMAIN s /\ "status_code" \notin DOMAIN s
  BY <1>4, NoneOfFive
<1> HIDE DEF method, url, duration, status
<1>8. DOMAIN http # {}
  <2> SUFFICES ASSUME DOMAIN http = {} PROVE FALSE
    OBVIOUS
  <2>1. /\ DOMAIN h \cap ReadFields.http = {}
        /\ DOMAIN r \cap ReadFields.request = {} /\ DOMAIN s \cap ReadFields.response = {}
    BY <1>2, <1>4, <1>5, <1>6, <1>7 DEF ReadFields
  <2> QED BY <2>1 DEF h, r, s
<1>9. DOMAIN http \subseteq DOMAIN FinalizeHttp(http)
  BY DEF FinalizeHttp, Over
<1>10. DOMAIN FinalizeHttp(http) # {}
  BY <1>8, <1>9
<1> QED BY <1>10 DEF http

LEMMA DbRead ==
  ASSUME NEW c, DOMAIN Block(c, "db") \cap ReadFields.db # {}
  PROVE  MergeDbFromLegacy(c) # <<>>
<1> DEFINE h == Block(c, "db")
           T == {h[j] : j \in DOMAIN h}
           system == Opt(h, "system") \o Opt(h, "db_type") \o Opt(h, "dbType")
           operation == Opt(h, "operation") \o Opt(h, "op") \o Opt(h, "operationName")
           duration == Opt(h, "duration_ms") \o Opt(h, "durationMs")
           db == MergeDbFromLegacy(c)
<1>1. \A m, u, o, t, d, x :
        LET f == FirstDefined([system |-> m, operation |-> u, table |-> o, statement |-> t, duration_ms |-> d,
                               rows |-> x])
        IN DOMAIN f = {} => m = <<>> /\ u = <<>> /\ o = <<>> /\ t = <<>> /\ d = <<>> /\ x = <<>>
  BY DEF FirstDefined
<1>2. DOMAIN db = {} => /\ system = <<>> /\ operation = <<>> /\ duration = <<>>
                        /\ Opt(h, "table") = <<>> /\ Opt(h, "statement") = <<>> /\ Opt(h, "rows") = <<>>
  <2> HIDE DEF system, operation, duration
  <2>1. db = FirstDefined([system |-> system, operation |-> operation, table |-> Opt(h, "table"),
                           statement |-> Opt(h, "statement"), duration_ms |-> duration, rows |-> Opt(h, "rows")])
    BY DEF MergeDbFromLegacy, system, operation, duration
  <2> HIDE DEF db, h
  <2> QED BY <2>1, <1>1
<1> HIDE DEF h, db
<1>3. \A k : Opt(h, k) \in Seq(T) /\ (Opt(h, k) = <<>> <=> k \notin DOMAIN h)
  BY OptIn
<1> HIDE DEF T
<1>4. (system = <<>> => "system" \notin DOMAIN h /\ "db_type" \notin DOMAIN h /\ "dbType" \notin DOMAIN h)
      /\ (operation = <<>> => "operation" \notin DOMAIN h /\ "op" \notin DOMAIN h /\ "operationName" \notin DOMAIN h)
  BY <1>3, NoneOfThree
<1>5. duration = <<>> => "duration_ms" \notin DOMAIN h /\ "durationMs" \notin DOMAIN h
  BY <1>3, ConcatGives
<1> HIDE DEF system, operation, duration
<1>6. DOMAIN db # {}
  <2> SUFFICES ASSUME DOMAIN db = {} PROVE FALSE
    OBVIOUS
  <2>1. DOMAIN h \cap ReadFields.db = {}
    BY <1>2, <1>3, <1>4, <1>5 DEF ReadFields
  <2> QED BY <2>1 DEF h
<1> QED BY <1>6 DEF db

LEMMA QueueRead ==
  ASSUME NEW c, DOMAIN Block(c, "queue") \cap ReadFields.queue # {}
  PROVE  MergeQueueFromLegacy(c) # <<>>
<1> DEFINE h == Block(c, "queue")
           T == {h[j] : j \in DOMAIN h}
           duration == Opt(h, "duration_ms") \o Opt(h, "durationMs")
           merged == MergeQueueFromLegacy(c)
<1>1. \A m, d : LET f == FirstDefined([name |-> m, duration_ms |-> d])
                IN DOMAIN f = {} => m = <<>> /\ d = <<>>
  BY DEF FirstDefined
<1>2. DOMAIN merged = {} => Opt(h, "name") = <<>> /\ duration = <<>>
  <2> HIDE DEF duration
  <2>1. merged = FirstDefined([name |-> Opt(h, "name"), duration_ms |-> duration])
    BY DEF MergeQueueFromLegacy, duration
  <2> HIDE DEF merged, h
  <2> QED BY <2>1, <1>1
<1> HIDE DEF h, merged
<1>3. \A k : Opt(h, k) \in Seq(T) /\ (Opt(h, k) = <<>> <=> k \notin DOMAIN h)
  BY OptIn
<1> HIDE DEF T
<1>4. duration = <<>> => "duration_ms" \notin DOMAIN h /\ "durationMs" \notin DOMAIN h
  BY <1>3, ConcatGives
<1> HIDE DEF duration
<1>5. DOMAIN merged # {}
  <2> SUFFICES ASSUME DOMAIN merged = {} PROVE FALSE
    OBVIOUS
  <2>1. DOMAIN h \cap ReadFields.queue = {}
    BY <1>2, <1>3, <1>4 DEF ReadFields
  <2> QED BY <2>1 DEF h
<1> QED BY <1>5 DEF merged
\* No key is lost that holds something the SDK reads.
SdkKeys == {"user", "tags", "business", "runtime", "resource", "release"}

LEMMA GivenIsContext ==
  ASSUME NEW env \in Environments
  PROVE  LET c == ContextOf(env) given == Over(env.explicit, Over(env.scope, env.business))
         IN \A k \in DOMAIN given : k \in DOMAIN c /\ c[k] = given[k]
<1> DEFINE c == ContextOf(env)
           e == env.explicit
           outer == Over(env.scope, env.business)
           given == Over(e, outer)
<1>1. /\ DOMAIN e \subseteq DOMAIN c /\ DOMAIN outer \subseteq DOMAIN c
      /\ \A k \in DOMAIN e : c[k] = e[k]
      /\ \A k \in DOMAIN outer \ DOMAIN e : c[k] = outer[k]
  BY ContextGives
<1> HIDE DEF c, e, outer
<1>2. /\ DOMAIN given = DOMAIN e \cup DOMAIN outer
      /\ \A k \in DOMAIN e : given[k] = e[k]
      /\ \A k \in DOMAIN outer \ DOMAIN e : given[k] = outer[k]
  BY OverGives
<1> HIDE DEF given
<1> QED BY <1>1, <1>2 DEF c, given, e, outer

LEMMA MetadataOfEvent ==
  ASSUME NEW q, NEW n
  PROVE  LET c == q.context
             meta == NormalizeEventV4(q, n).metadata
             loose == DOMAIN c \ (RESERVED_META_KEYS \cup {"tags"})
         IN /\ FinalizeHttp(MergeHttpFromLegacy(c)) # <<>> => "http" \in meta.blocks
            /\ MergeDbFromLegacy(c) # <<>> => "db" \in meta.blocks
            /\ MergeQueueFromLegacy(c) # <<>> => "queue" \in meta.blocks
            /\ "business" \in DOMAIN c /\ c.business = "valid" => "business" \in meta.blocks
            /\ {"correlation", "subtenant", "runtime"} \cap DOMAIN c \subseteq meta.blocks
            /\ "user" \in DOMAIN c /\ "id" \in DOMAIN c.user => "user" \in meta.blocks
            /\ \A k \in loose : (c[k] = "scalar" => k \in meta.tags) /\ (c[k] = "object" => k \in meta.warned)
            /\ meta.warned \subseteq loose
            /\ DOMAIN Block(c, "tags") \subseteq meta.tags
            /\ "performance" \in DOMAIN c => meta.performance = DOMAIN c.performance
<1> DEFINE c == q.context
           m == StripReserved(c)
           http == FinalizeHttp(MergeHttpFromLegacy(c))
           db == MergeDbFromLegacy(c)
           queued == MergeQueueFromLegacy(c)
           tags == Block(c, "tags")
           meta == NormalizeEventV4(q, n).metadata
           loose == DOMAIN m \ RESERVED_META_KEYS
           present == [http |-> http # <<>>, db |-> db # <<>>, queue |-> queued # <<>>,
                       business |-> "business" \in DOMAIN m /\ m.business = "valid",
                       correlation |-> "correlation" \in DOMAIN m,
                       user |-> "id" \in DOMAIN Block(m, "user"),
                       subtenant |-> "subtenant" \in DOMAIN m, runtime |-> "runtime" \in DOMAIN m]
<1>1. meta = Structured(m, http, db, queued, tags)
  BY DEF NormalizeEventV4
<1> HIDE DEF meta, http, db, queued, tags, m
<1>2. /\ meta.blocks = {b \in DOMAIN present : present[b]}
      /\ meta.tags = {k \in loose : m[k] = "scalar"} \cup DOMAIN tags
      /\ meta.performance = DOMAIN Block(m, "performance")
      /\ meta.warned = {k \in loose : m[k] = "object"}
  BY <1>1 DEF Structured
<1>3. /\ http # <<>> => "http" \in meta.blocks
      /\ db # <<>> => "db" \in meta.blocks
      /\ queued # <<>> => "queue" \in meta.blocks
      /\ "business" \in DOMAIN m /\ m.business = "valid" => "business" \in meta.blocks
      /\ "correlation" \in DOMAIN m => "correlation" \in meta.blocks
      /\ "id" \in DOMAIN Block(m, "user") => "user" \in meta.blocks
      /\ "subtenant" \in DOMAIN m => "subtenant" \in meta.blocks
      /\ "runtime" \in DOMAIN m => "runtime" \in meta.blocks
  BY <1>2
<1>4. /\ DOMAIN m = DOMAIN c \ {"trace", "tags", "http", "db", "queue", "headers"}
      /\ \A k \in DOMAIN m : m[k] = c[k]
  BY DEF StripReserved, m
<1>5. loose = DOMAIN c \ (RESERVED_META_KEYS \cup {"tags"})
  BY <1>4 DEF RESERVED_META_KEYS
<1> HIDE DEF present, c
<1>6. "user" \in DOMAIN c => Block(m, "user") = c.user
  BY <1>4 DEF Block
<1>7. "performance" \in DOMAIN c => Block(m, "performance") = c.performance
  BY <1>4 DEF Block
<1>8. \A k \in loose : m[k] = c[k]
  BY <1>4
<1>9. \A k \in {"business", "correlation", "subtenant", "runtime"} \cap DOMAIN c : k \in DOMAIN m /\ m[k] = c[k]
  BY <1>4
<1> HIDE DEF loose
<1>10. meta.warned \subseteq loose /\ DOMAIN tags \subseteq meta.tags
  BY <1>2
<1>11. \A k \in loose : (c[k] = "scalar" => k \in meta.tags) /\ (c[k] = "object" => k \in meta.warned)
  BY <1>2, <1>8
<1>12. {"correlation", "subtenant", "runtime"} \cap DOMAIN c \subseteq meta.blocks
  BY <1>3, <1>9
<1>13. "business" \in DOMAIN c /\ c.business = "valid" => "business" \in meta.blocks
  BY <1>3, <1>9
<1>14. "user" \in DOMAIN c /\ "id" \in DOMAIN c.user => "user" \in meta.blocks
  BY <1>3, <1>6
<1>15. "performance" \in DOMAIN c => meta.performance = DOMAIN c.performance
  BY <1>2, <1>7
<1> QED BY <1>3, <1>5, <1>10, <1>11, <1>12, <1>13, <1>14, <1>15 DEF c, http, db, queued, tags, meta

LEMMA SilenceOfEvent ==
  ASSUME NEW env \in Environments, NEW q, NEW n, q.context = ContextOf(env)
  PROVE  NothingSilent(env, NormalizeEventV4(q, n))
<1> DEFINE c == ContextOf(env)
           given == Over(env.explicit, Over(env.scope, env.business))
           meta == NormalizeEventV4(q, n).metadata
           loose == DOMAIN c \ (RESERVED_META_KEYS \cup {"tags"})
           scoped == DOMAIN env.scope \cup DOMAIN env.business \cup {"runtime", "resource", "release"}
           Told(k) ==
             \/ k \in meta.blocks \cup meta.tags \cup meta.warned \cup {"trace"}
             \/ k \in {"request", "response"} /\ "http" \in meta.blocks
             \/ k = "tags" /\ DOMAIN given.tags \subseteq meta.tags
             \/ k = "performance" /\ meta.performance # {}
             \/ Unread(k, given[k])
<1>1. /\ FinalizeHttp(MergeHttpFromLegacy(c)) # <<>> => "http" \in meta.blocks
      /\ MergeDbFromLegacy(c) # <<>> => "db" \in meta.blocks
      /\ MergeQueueFromLegacy(c) # <<>> => "queue" \in meta.blocks
      /\ "business" \in DOMAIN c /\ c.business = "valid" => "business" \in meta.blocks
      /\ {"correlation", "subtenant", "runtime"} \cap DOMAIN c \subseteq meta.blocks
      /\ "user" \in DOMAIN c /\ "id" \in DOMAIN c.user => "user" \in meta.blocks
      /\ \A k \in loose : (c[k] = "scalar" => k \in meta.tags) /\ (c[k] = "object" => k \in meta.warned)
      /\ meta.warned \subseteq loose
      /\ DOMAIN Block(c, "tags") \subseteq meta.tags
      /\ "performance" \in DOMAIN c => meta.performance = DOMAIN c.performance
  BY MetadataOfEvent
<1>2. \A k \in DOMAIN given : k \in DOMAIN c /\ c[k] = given[k]
  BY GivenIsContext
<1>3. DOMAIN env.scope \subseteq {"user", "tags"} /\ DOMAIN env.business \subseteq {"business"}
  BY EnvironmentsAssumption
<1>4. \A k \in DOMAIN c : Block(c, k) = c[k]
  BY DEF Block
<1> HIDE DEF c, given, meta
<1>5. scoped \subseteq SdkKeys
  BY <1>3 DEF SdkKeys
<1>6. SdkKeys \cap loose = {}
  BY DEF SdkKeys, RESERVED_META_KEYS
<1>7. meta.warned \cap (scoped \ DOMAIN env.explicit) = {}
  <2> HIDE DEF scoped, loose
  <2> QED BY <1>1, <1>5, <1>6
<1>8. ASSUME NEW k \in DOMAIN given PROVE Told(k)
  <2> SUFFICES ASSUME ~Unread(k, given[k]) PROVE Told(k)
    OBVIOUS
  <2> DEFINE v == given[k]
  <2>0. k \in DOMAIN c /\ c[k] = v /\ Block(c, k) = v
    BY <1>2, <1>4
  <2>1. /\ k \notin {"headers", "resource", "release", "name", "stack"}
        /\ k \in DOMAIN ReadFields => DOMAIN v \cap ReadFields[k] # {}
        /\ k = "business" => v = "valid"
        /\ k = "performance" => DOMAIN v # {}
        /\ k \notin RESERVED_META_KEYS => v \in {"scalar", "object"}
    BY DEF Unread
  <2> HIDE DEF v
  <2>2. DOMAIN ReadFields = {"http", "request", "response", "db", "queue", "user"}
    BY DEF ReadFields
  <2>3. CASE k \in {"http", "request", "response"}
    <3>1. \/ DOMAIN Block(c, "http") \cap ReadFields.http # {}
          \/ DOMAIN Block(c, "request") \cap ReadFields.request # {}
          \/ DOMAIN Block(c, "response") \cap ReadFields.response # {}
      BY <2>0, <2>1, <2>2, <2>3
    <3>2. "http" \in meta.blocks
      BY <1>1, <3>1, HttpRead
    <3> QED BY <2>3, <3>2
  <2>4. CASE k = "db"
    <3>1. DOMAIN Block(c, "db") \cap ReadFields.db # {}
      BY <2>0, <2>1, <2>2, <2>4
    <3> QED BY <1>1, <2>4, <3>1, DbRead
  <2>5. CASE k = "queue"
    <3>1. DOMAIN Block(c, "queue") \cap ReadFields.queue # {}
      BY <2>0, <2>1, <2>2, <2>5
    <3> QED BY <1>1, <2>5, <3>1, QueueRead
  <2>6. CASE k = "user"
    <3>1. ReadFields["user"] = {"id"}
      BY DEF ReadFields
    <3>2. "id" \in DOMAIN c.user
      BY <2>0, <2>1, <2>2, <2>6, <3>1
    <3> QED BY <1>1, <2>0, <2>6, <3>2
  <2>7. CASE k = "business"
    BY <1>1, <2>0, <2>1, <2>7
  <2>8. CASE k \in {"correlation", "subtenant", "runtime"}
    BY <1>1, <2>0, <2>8
  <2>9. CASE k = "performance"
    BY <1>1, <2>0, <2>1, <2>9
  <2>10. CASE k = "tags"
    BY <1>1, <2>0, <2>10 DEF v
  <2>11. CASE k = "trace"
    BY <2>11
  <2>12. CASE k \notin RESERVED_META_KEYS \cup {"tags"}
    BY <1>1, <2>0, <2>1, <2>12
  <2> QED BY <2>1, <2>3, <2>4, <2>5, <2>6, <2>7, <2>8, <2>9, <2>10, <2>11, <2>12 DEF RESERVED_META_KEYS
<1> QED BY <1>7, <1>8 DEF NothingSilent, given, meta
-----------------------------------------------------------------------------
\* Filtering goes with appending and with mapping.
LEMMA FilterIsTaken ==
  ASSUME NEW S, NEW s \in Seq(S), NEW indices
  PROVE  \E f : Taken(f, s, indices, Len(s)) /\ Filter(s, indices) = f[Len(s)]
<1> DEFINE f == CHOOSE g : Taken(g, s, indices, Len(s))
<1>1. Len(s) \in Nat
  OBVIOUS
<1>2. Taken(f, s, indices, Len(s))
  BY <1>1, TakenExists
<1>3. Filter(s, indices) = f[Len(s)]
  BY DEF Filter, Taken
<1> HIDE DEF f
<1> QED  BY <1>2, <1>3

LEMMA TakenStep ==
  ASSUME NEW f, NEW s, NEW indices, NEW n \in Nat, Taken(f, s, indices, n)
  PROVE  /\ f[0] = <<>>
         /\ \A i \in 1..n : f[i] = IF i \in indices THEN Append(f[i - 1], s[i]) ELSE f[i - 1]
<1>1. \A i \in 0..n : f[i] = IF i = 0 THEN <<>>
                             ELSE IF i \in indices THEN Append(f[i - 1], s[i]) ELSE f[i - 1]
  BY DEF Taken
<1>2. 0 \in 0..n /\ \A i \in 1..n : i \in 0..n /\ i # 0
  OBVIOUS
<1> QED  BY <1>1, <1>2

LEMMA TakenAgree ==
  ASSUME NEW f, NEW g, NEW s, NEW t, NEW I, NEW J, NEW n \in Nat, NEW m \in Nat, n <= m,
         Taken(f, s, I, n), Taken(g, t, J, m),
         \A i \in 1..n : s[i] = t[i] /\ (i \in I <=> i \in J)
  PROVE  f[n] = g[n]
<1> DEFINE T == {i \in Nat : i <= n => f[i] = g[i]}
<1>1. 0 \in T
  BY TakenStep
<1>2. ASSUME NEW i \in Nat, i \in T PROVE i + 1 \in T
  <2> SUFFICES ASSUME i + 1 <= n PROVE f[i + 1] = g[i + 1]
    OBVIOUS
  <2>1. i + 1 \in 1..n /\ i + 1 \in 1..m /\ (i + 1) - 1 = i
    OBVIOUS
  <2>2. f[i] = g[i]
    BY <1>2, <2>1
  <2>3. f[i + 1] = IF i + 1 \in I THEN Append(f[i], s[i + 1]) ELSE f[i]
    BY <2>1, TakenStep
  <2>4. g[i + 1] = IF i + 1 \in J THEN Append(g[i], t[i + 1]) ELSE g[i]
    BY <2>1, TakenStep
  <2> QED  BY <2>1, <2>2, <2>3, <2>4
<1> HIDE DEF T
<1>3. n \in T
  BY <1>1, <1>2, SetInduction
<1> QED  BY <1>3 DEF T

LEMMA FilterAgrees ==
  ASSUME NEW S, NEW s \in Seq(S), NEW I, NEW J, \A i \in DOMAIN s : i \in I <=> i \in J
  PROVE  Filter(s, I) = Filter(s, J)
<1>1. Len(s) \in Nat /\ DOMAIN s = 1..Len(s)
  OBVIOUS
<1>2. PICK f : Taken(f, s, I, Len(s)) /\ Filter(s, I) = f[Len(s)]
  BY FilterIsTaken
<1>3. PICK g : Taken(g, s, J, Len(s)) /\ Filter(s, J) = g[Len(s)]
  BY FilterIsTaken
<1>4. f[Len(s)] = g[Len(s)]
  BY <1>1, <1>2, <1>3, TakenAgree
<1> QED  BY <1>2, <1>3, <1>4

LEMMA FilterAppend ==
  ASSUME NEW S, NEW s \in Seq(S), NEW e, NEW J
  PROVE  Filter(Append(s, e), J) = IF Len(s) + 1 \in J THEN Append(Filter(s, J), e) ELSE Filter(s, J)
<1> DEFINE n == Len(s)
           t == Append(s, e)
<1>1. n \in Nat /\ DOMAIN s = 1..n /\ t \in Seq(S \cup {e}) /\ Len(t) = n + 1
      /\ t[n + 1] = e /\ \A i \in 1..n : t[i] = s[i]
  <2>1. s \in Seq(S \cup {e}) /\ e \in S \cup {e}
    OBVIOUS
  <2> QED  BY <2>1
<1>2. PICK f : Taken(f, s, J, n) /\ Filter(s, J) = f[n]
  BY FilterIsTaken
<1>3. PICK g : Taken(g, t, J, n + 1) /\ Filter(t, J) = g[n + 1]
  BY <1>1, FilterIsTaken
<1> HIDE DEF t, n
<1>4. f[n] = g[n]
  BY <1>1, <1>2, <1>3, TakenAgree
<1>5. g[n + 1] = IF n + 1 \in J THEN Append(g[n], t[n + 1]) ELSE g[n]
  <2>1. n + 1 \in Nat /\ n + 1 \in 1..n + 1 /\ (n + 1) - 1 = n
    BY <1>1
  <2> QED  BY <1>3, <2>1, TakenStep
<1> QED  BY <1>1, <1>2, <1>3, <1>4, <1>5 DEF t, n

LEMMA FilterOfNone == \A indices : Filter(<<>>, indices) = <<>>
<1> TAKE indices
<1>1. <<>> \in Seq({}) /\ Len(<<>>) = 0 /\ 0 \in Nat
  OBVIOUS
<1>2. PICK f : Taken(f, <<>>, indices, 0) /\ Filter(<<>>, indices) = f[0]
  BY <1>1, FilterIsTaken
<1> QED  BY <1>1, <1>2, TakenStep

LEMMA OwnElements ==
  ASSUME NEW S, NEW s \in Seq(S)
  PROVE  s \in Seq(Elements(s))
<1>1. Len(s) \in Nat /\ DOMAIN s = 1..Len(s) /\ s = [i \in 1..Len(s) |-> s[i]]
  OBVIOUS
<1>2. \A i \in 1..Len(s) : s[i] \in Elements(s)
  BY <1>1 DEF Elements
<1> QED  BY <1>1, <1>2

\* The numbers of what is sent.
Ofs(s) == [i \in DOMAIN s |-> s[i].of]

LEMMA OfsAppend ==
  ASSUME NEW s, NEW e, s \in Seq(Elements(s))
  PROVE  Ofs(Append(s, e)) = Append(Ofs(s), e.of)
<1> DEFINE S == Elements(s) \cup {e}
           t == Append(s, e)
           T == {e.of} \cup {x.of : x \in Elements(s)}
           u == Append(Ofs(s), e.of)
<1>1. /\ Len(s) \in Nat /\ DOMAIN s = 1..Len(s) /\ DOMAIN t = 1..Len(s) + 1
      /\ t[Len(s) + 1] = e /\ \A i \in 1..Len(s) : t[i] = s[i]
  <2>1. s \in Seq(S) /\ e \in S
    OBVIOUS
  <2> HIDE DEF S
  <2> QED  BY <2>1
<1>2. Ofs(s) \in Seq(T) /\ Len(Ofs(s)) = Len(s) /\ \A i \in 1..Len(s) : Ofs(s)[i] = s[i].of
  BY <1>1 DEF Ofs, Elements
<1>3. /\ u \in Seq(T) /\ DOMAIN u = 1..Len(s) + 1 /\ u[Len(s) + 1] = e.of
      /\ \A i \in 1..Len(s) : u[i] = s[i].of
  <2>1. e.of \in T
    OBVIOUS
  <2> HIDE DEF T
  <2> QED  BY <1>1, <1>2, <2>1
<1> HIDE DEF t, u, S, T
<1>4. Ofs(t) = [i \in 1..Len(s) + 1 |-> t[i].of]
  BY <1>1 DEF Ofs
<1>5. u = [i \in 1..Len(s) + 1 |-> u[i]]
  BY <1>3
<1>6. \A i \in 1..Len(s) + 1 : t[i].of = u[i]
  <2> TAKE i \in 1..Len(s) + 1
  <2>1. i = Len(s) + 1 \/ i \in 1..Len(s)
    BY <1>1
  <2> QED  BY <1>1, <1>3, <2>1
<1> QED  BY <1>4, <1>5, <1>6 DEF t, u

LEMMA FilterOfs ==
  ASSUME NEW w, w \in Seq(Elements(w)), NEW I
  PROVE  Ofs(Filter(w, I)) = Filter(Ofs(w), I)
<1> DEFINE n == Len(w)
           v == Ofs(w)
<1>1. n \in Nat /\ DOMAIN w = 1..n /\ v \in Seq(Elements(v)) /\ Len(v) = n
      /\ \A i \in 1..n : v[i] = w[i].of /\ w[i] \in Elements(w)
  BY DEF Ofs, Elements
<1>2. PICK f : Taken(f, w, I, n) /\ Filter(w, I) = f[n]
  BY FilterIsTaken
<1>3. PICK g : Taken(g, v, I, n) /\ Filter(v, I) = g[n]
  BY <1>1, FilterIsTaken
<1> HIDE DEF n, v
<1> DEFINE T == {i \in Nat : i <= n => f[i] \in Seq(Elements(w)) /\ Ofs(f[i]) = g[i]}
<1>4. 0 \in T
  <2>1. f[0] = <<>> /\ g[0] = <<>>
    BY <1>1, <1>2, <1>3, TakenStep
  <2>2. Ofs(<<>>) = <<>>
    BY DEF Ofs
  <2>3. <<>> \in Seq(Elements(w))
    BY EmptySeq
  <2>4. f[0] \in Seq(Elements(w)) /\ Ofs(f[0]) = g[0]
    BY <2>1, <2>2, <2>3
  <2> QED  BY <2>4
<1>5. ASSUME NEW i \in Nat, i \in T PROVE i + 1 \in T
  <2> SUFFICES ASSUME i + 1 <= n PROVE f[i + 1] \in Seq(Elements(w)) /\ Ofs(f[i + 1]) = g[i + 1]
    OBVIOUS
  <2>1. i + 1 \in 1..n /\ (i + 1) - 1 = i
    BY <1>1
  <2>2. f[i] \in Seq(Elements(w)) /\ Ofs(f[i]) = g[i]
    BY <1>1, <1>5, <2>1
  <2>3. f[i + 1] = IF i + 1 \in I THEN Append(f[i], w[i + 1]) ELSE f[i]
    BY <1>1, <1>2, <2>1, TakenStep
  <2>4. g[i + 1] = IF i + 1 \in I THEN Append(g[i], v[i + 1]) ELSE g[i]
    BY <1>1, <1>3, <2>1, TakenStep
  <2>5. v[i + 1] = w[i + 1].of /\ w[i + 1] \in Elements(w)
    BY <1>1, <2>1
  <2>6. f[i] \in Seq(Elements(f[i]))
    BY <2>2, OwnElements
  <2>7. Ofs(Append(f[i], w[i + 1])) = Append(Ofs(f[i]), w[i + 1].of)
    BY <2>6, OfsAppend
  <2>8. Append(f[i], w[i + 1]) \in Seq(Elements(w))
    <3> HIDE DEF T
    <3> QED  BY <2>2, <2>5
  <2> QED  BY <2>2, <2>3, <2>4, <2>5, <2>7, <2>8
<1> HIDE DEF T
<1>6. n \in T
  BY <1>1, <1>4, <1>5, SetInduction
<1>7. Ofs(f[n]) = g[n]
  BY <1>1, <1>6 DEF T
<1> QED  BY <1>2, <1>3, <1>7 DEF v
-----------------------------------------------------------------------------
\* Whether an event is refused is decided by what the application said in it.
Refused(context) ==
  Rejected(FinalizeHttp(MergeHttpFromLegacy(context)), MergeDbFromLegacy(context), MergeQueueFromLegacy(context))

LEMMA OwnDurations ==
  ASSUME NEW env \in Environments
  PROVE  LET e == env.explicit
         IN Refused(ContextOf(env)) <=>
              Rejected(MergeHttpFromLegacy(e), MergeDbFromLegacy(e), MergeQueueFromLegacy(e))
<1> DEFINE c == ContextOf(env)
           e == env.explicit
           merged == MergeHttpFromLegacy(c)
           own == MergeHttpFromLegacy(e)
           http == FinalizeHttp(merged)
<1>1. MergeDbFromLegacy(c) = MergeDbFromLegacy(e) /\ MergeQueueFromLegacy(c) = MergeQueueFromLegacy(e)
  <2>1. Block(c, "db") = Block(e, "db") /\ Block(c, "queue") = Block(e, "queue")
    BY BlockGives
  <2> HIDE DEF c
  <2> QED BY <2>1 DEF MergeDbFromLegacy, MergeQueueFromLegacy
<1>2. Block(c, "response") = Block(e, "response")
  BY BlockGives
<1>3. /\ Opt(Block(c, "http"), "duration_ms") = Opt(Block(e, "http"), "duration_ms")
      /\ Opt(Block(c, "http"), "durationMs") = Opt(Block(e, "http"), "durationMs")
  <2>1. CASE "http" \in DOMAIN e
    BY <2>1, BlockGives
  <2>2. CASE "http" \notin DOMAIN e
    <3>1. Block(c, "http") = Block(SurroundingLayer(env), "http") /\ Block(e, "http") = <<>>
      BY <2>2, BlockGives DEF RequestKeys, Block
    <3>2. DOMAIN Block(c, "http") \subseteq {"method", "url", "route_template", "response_status_code"}
      <4>1. CASE env.snap = <<>>
        BY <3>1, <4>1, TraceOfLayer DEF Block
      <4>2. CASE env.snap # <<>>
        BY <3>1, <4>2, HttpOfLayer DEF Block
      <4> QED BY <4>1, <4>2
    <3>3. DOMAIN Block(e, "http") = {}
      BY <3>1
    <3> HIDE DEF c
    <3> QED BY <3>2, <3>3 DEF Opt
  <2> QED BY <2>1, <2>2
<1>4. \A m, u, o, t, d, s, m2, u2, o2, t2, s2 :
        LET f == FirstDefined([method |-> m, url |-> u, route |-> o, route_template |-> t, duration_ms |-> d,
                               response_status_code |-> s])
            g == FirstDefined([method |-> m2, url |-> u2, route |-> o2, route_template |-> t2, duration_ms |-> d,
                               response_status_code |-> s2])
        IN /\ "duration_ms" \in DOMAIN f <=> "duration_ms" \in DOMAIN g
           /\ "duration_ms" \in DOMAIN f => f.duration_ms = g.duration_ms
  BY DEF FirstDefined
<1> HIDE DEF c, e
<1>5. /\ "duration_ms" \in DOMAIN merged <=> "duration_ms" \in DOMAIN own
      /\ "duration_ms" \in DOMAIN merged => merged.duration_ms = own.duration_ms
  <2> DEFINE Duration(x) == Opt(Block(x, "http"), "duration_ms") \o Opt(Block(x, "http"), "durationMs")
                            \o Opt(Block(x, "response"), "durationMs") \o Opt(Block(x, "response"), "duration_ms")
  <2>1. Duration(c) = Duration(e)
    BY <1>2, <1>3
  <2>2. ASSUME NEW x
        PROVE \E m, u, o, t, s : MergeHttpFromLegacy(x) =
                FirstDefined([method |-> m, url |-> u, route |-> o, route_template |-> t,
                              duration_ms |-> Duration(x), response_status_code |-> s])
    BY DEF MergeHttpFromLegacy
  <2>3. PICK m, u, o, t, s : MergeHttpFromLegacy(c) =
          FirstDefined([method |-> m, url |-> u, route |-> o, route_template |-> t,
                        duration_ms |-> Duration(c), response_status_code |-> s])
    <3> HIDE DEF Duration
    <3> QED BY <2>2
  <2>4. PICK m2, u2, o2, t2, s2 : MergeHttpFromLegacy(e) =
          FirstDefined([method |-> m2, url |-> u2, route |-> o2, route_template |-> t2,
                        duration_ms |-> Duration(e), response_status_code |-> s2])
    <3> HIDE DEF Duration
    <3> QED BY <2>2
  <2> HIDE DEF Duration
  <2> QED BY <2>1, <2>3, <2>4, <1>4
<1> HIDE DEF merged, own
<1>6. /\ "duration_ms" \in DOMAIN http <=> "duration_ms" \in DOMAIN merged
      /\ "duration_ms" \in DOMAIN merged => http.duration_ms = merged.duration_ms
  BY DEF FinalizeHttp, Over
<1> HIDE DEF http
<1>7. Rejected(http, MergeDbFromLegacy(c), MergeQueueFromLegacy(c)) <=>
        Rejected(own, MergeDbFromLegacy(e), MergeQueueFromLegacy(e))
  BY <1>1, <1>5, <1>6 DEF Rejected
<1> QED BY <1>7 DEF Refused, c, e, http, merged, own

\* ... and so is whether JSON can express it.
LEMMA OwnCorrelation ==
  ASSUME NEW env \in Environments
  PROVE  ~Stringifies(ContextOf(env)) => ~Stringifies(env.explicit)
<1> DEFINE c == ContextOf(env)
           layer == SurroundingLayer(env)
<1>1. CASE "correlation" \in DOMAIN env.explicit
  <2>1. Block(c, "correlation") = Block(env.explicit, "correlation")
    BY <1>1, BlockGives
  <2> HIDE DEF c
  <2> QED BY <2>1 DEF Stringifies, c
<1>2. CASE "correlation" \notin DOMAIN env.explicit
  <2>1. Block(c, "correlation") = Block(layer, "correlation")
    BY <1>2, BlockGives DEF RequestKeys
  <2>2. DOMAIN Block(layer, "correlation") \subseteq {"traceId"}
    <3>1. CASE Caller(env) = <<>>
      <4>1. "correlation" \notin DOMAIN layer
        BY <3>1, TraceOfLayer
      <4> HIDE DEF layer
      <4> QED BY <4>1 DEF Block
    <3>2. CASE Caller(env) # <<>>
      <4> DEFINE corr == Parsed(env.snap[1].headers)
                 r == [i \in DOMAIN corr |-> [traceId |-> corr[i].trace_id]]
      <4>1. env.snap # <<>> /\ corr # <<>>
        BY <3>2 DEF Caller
      <4>2. \E h, d, t : layer = FirstDefined([http |-> h, headers |-> d, correlation |-> r, trace |-> t])
        BY <4>1 DEF SurroundingLayer, RequestLayer
      <4>3. r = <<[traceId |-> env.snap[1].headers.traceparent.trace_id]>>
        <5>1. corr = <<env.snap[1].headers.traceparent>>
          BY <4>1, ParsedGives
        <5>2. DOMAIN corr = 1..1 /\ corr[1] = env.snap[1].headers.traceparent
          <6> HIDE DEF corr
          <6> QED BY <5>1
        <5> HIDE DEF corr
        <5> QED BY <5>2
      <4>4. \A h, d, t, x : LET f == FirstDefined([http |-> h, headers |-> d, correlation |-> <<x>>, trace |-> t])
                           IN f.correlation = x
        BY HeadOfOne DEF FirstDefined
      <4> HIDE DEF r, layer
      <4>5. layer.correlation = [traceId |-> env.snap[1].headers.traceparent.trace_id]
        BY <4>2, <4>3, <4>4
      <4> QED BY <4>5 DEF Block
    <3> QED BY <3>1, <3>2
  <2> HIDE DEF c, layer
  <2>3. Stringifies(c)
    BY <2>1, <2>2 DEF Stringifies
  <2> QED BY <2>3 DEF c
<1> QED BY <1>1, <1>2

\* What is to be sent, by the decisions and by the queue.
Sendable(d) ==
  LET e == d.env.explicit
  IN /\ d.kept /\ d.item.eventType \in {"error", "log"}
     /\ ~Rejected(MergeHttpFromLegacy(e), MergeDbFromLegacy(e), MergeQueueFromLegacy(e))
Expected(made) == Filter([i \in DOMAIN made |-> i], {i \in DOMAIN made : Sendable(made[i])})
Waiting(q) == Filter(Ofs(q), {i \in DOMAIN q : ~Refused(q[i].context)})

LEMMA ExpectedGrows ==
  ASSUME NEW made, NEW d, made \in Seq(Elements(made))
  PROVE  Expected(Append(made, d)) = IF Sendable(d) THEN Append(Expected(made), Len(made) + 1) ELSE Expected(made)
<1> DEFINE n == Len(made)
           grown == Append(made, d)
           s == [i \in DOMAIN made |-> i]
           t == [i \in DOMAIN grown |-> i]
           I == {i \in DOMAIN made : Sendable(made[i])}
           J == {i \in DOMAIN grown : Sendable(grown[i])}
<1>1. n \in Nat /\ DOMAIN made = 1..n /\ DOMAIN grown = 1..n + 1 /\ grown[n + 1] = d
      /\ \A i \in 1..n : grown[i] = made[i]
  <2>1. made \in Seq(Elements(made) \cup {d}) /\ d \in Elements(made) \cup {d}
    OBVIOUS
  <2> QED BY <2>1
<1> HIDE DEF grown, n
<1>2. s \in Seq(Nat) /\ Len(s) = n /\ DOMAIN s = 1..n /\ \A i \in 1..n : s[i] = i
  BY <1>1
<1>3. t = Append(s, n + 1)
  <2> DEFINE a == Append(s, n + 1)
  <2>1. DOMAIN a = 1..n + 1 /\ a[n + 1] = n + 1 /\ (\A i \in 1..n : a[i] = s[i])
        /\ a = [i \in 1..n + 1 |-> a[i]]
    <3>1. n + 1 \in Nat
      BY <1>1
    <3> HIDE DEF s
    <3> QED BY <1>1, <1>2, <3>1
  <2>2. t = [i \in 1..n + 1 |-> i]
    BY <1>1
  <2>3. \A i \in 1..n + 1 : a[i] = i
    <3> TAKE i \in 1..n + 1
    <3>1. i = n + 1 \/ i \in 1..n
      BY <1>1
    <3> HIDE DEF a
    <3> QED BY <1>2, <2>1, <3>1
  <2> HIDE DEF a
  <2> QED BY <2>1, <2>2, <2>3 DEF a
<1>4. \A i \in 1..n : i \in I <=> i \in J
  BY <1>1
<1>5. n + 1 \in J <=> Sendable(d)
  BY <1>1
<1> HIDE DEF s, t, I, J
<1>6. Filter(t, J) = IF n + 1 \in J THEN Append(Filter(s, I), n + 1) ELSE Filter(s, I)
  <2>1. \A i \in DOMAIN s : i \in I <=> i \in J
    BY <1>2, <1>4
  <2>2. s \in Seq(Nat) /\ Len(s) = n
    BY <1>2
  <2> DEFINE x == n + 1
  <2> HIDE DEF x
  <2>3. Filter(Append(s, x), J) = IF Len(s) + 1 \in J THEN Append(Filter(s, J), x) ELSE Filter(s, J)
    BY <2>2, FilterAppend
  <2>4. Filter(s, I) = Filter(s, J)
    BY <2>1, <2>2, FilterAgrees
  <2> QED BY <1>3, <2>2, <2>3, <2>4 DEF x
<1> QED BY <1>5, <1>6 DEF Expected, grown, n, s, t, I, J

LEMMA WaitingGrows ==
  ASSUME NEW q, NEW e, q \in Seq(Elements(q))
  PROVE  Waiting(Append(q, e)) = IF Refused(e.context) THEN Waiting(q) ELSE Append(Waiting(q), e.of)
<1> DEFINE n == Len(q)
           grown == Append(q, e)
           s == Ofs(q)
           I == {i \in DOMAIN q : ~Refused(q[i].context)}
           J == {i \in DOMAIN grown : ~Refused(grown[i].context)}
<1>1. n \in Nat /\ DOMAIN q = 1..n /\ DOMAIN grown = 1..n + 1 /\ grown[n + 1] = e
      /\ \A i \in 1..n : grown[i] = q[i]
  <2>1. q \in Seq(Elements(q) \cup {e}) /\ e \in Elements(q) \cup {e}
    OBVIOUS
  <2> QED BY <2>1
<1>2. Ofs(grown) = Append(s, e.of)
  BY OfsAppend
<1> HIDE DEF grown, n
<1>3. s \in Seq({q[i].of : i \in DOMAIN q}) /\ Len(s) = n /\ DOMAIN s = 1..n
  BY <1>1 DEF Ofs
<1>4. \A i \in 1..n : i \in I <=> i \in J
  BY <1>1
<1>5. n + 1 \in J <=> ~Refused(e.context)
  BY <1>1
<1> HIDE DEF s, I, J
<1>6. Filter(Append(s, e.of), J) = IF n + 1 \in J THEN Append(Filter(s, I), e.of) ELSE Filter(s, I)
  <2>1. \A i \in DOMAIN s : i \in I <=> i \in J
    BY <1>3, <1>4
  <2>2. s \in Seq({q[i].of : i \in DOMAIN q}) /\ Len(s) = n
    BY <1>3
  <2> DEFINE x == e.of
  <2> HIDE DEF x
  <2>3. Filter(Append(s, x), J) = IF Len(s) + 1 \in J THEN Append(Filter(s, J), x) ELSE Filter(s, J)
    BY <2>2, FilterAppend
  <2>4. Filter(s, I) = Filter(s, J)
    BY <2>1, <2>2, FilterAgrees
  <2> QED BY <2>2, <2>3, <2>4 DEF x
<1> QED BY <1>2, <1>5, <1>6 DEF Waiting, grown, n, s, I, J
-----------------------------------------------------------------------------
\* What waits, and what was posted, is what is to be sent, in order, and has the
\* context of where it was made.
Waits(made, q) == /\ q.of \in DOMAIN made /\ q.context = ContextOf(made[q.of].env)
                  /\ made[q.of].kept /\ made[q.of].item.eventType \in {"error", "log"}
Normalised(made, a) ==
  a.of \in DOMAIN made
  /\ \E q, n : q.context = ContextOf(made[a.of].env) /\ a.event = NormalizeEventV4(q, n)
Inexpressible(made) ==
  \E i \in DOMAIN made : Sendable(made[i]) /\ ~Stringifies(made[i].env.explicit)
OrderInv ==
  /\ posts = <<>> \/ queue # <<>> => Waiting(queue) = Expected(decided)
  /\ \A p \in DOMAIN posts :
       \/ Ofs(posts[p]) = Expected(decided)
       \/ posts[p] = <<>> /\ Inexpressible(decided)
ContentInv ==
  /\ \A q \in Elements(queue) : Waits(decided, q)
  /\ \A a \in Posted(posts) : Normalised(decided, a)
WireInv == IdsInv /\ OrderInv /\ ContentInv

LEMMA WireStart == PipelineInit => WireInv
<1> SUFFICES ASSUME PipelineInit PROVE WireInv
  OBVIOUS
<1>1. decided = <<>> /\ queue = <<>> /\ posts = <<>>
  BY DEF PipelineInit
<1>2. DOMAIN <<>> = {} /\ Ofs(<<>>) = <<>> /\ [i \in DOMAIN <<>> |-> i] = <<>>
  BY DEF Ofs
<1>3. Waiting(<<>>) = <<>> /\ Expected(<<>>) = <<>>
  BY <1>2, FilterOfNone DEF Waiting, Expected
<1>4. Elements(<<>>) = {} /\ Posted(<<>>) = {}
  BY <1>2 DEF Elements, Posted
<1> QED BY <1>1, <1>2, <1>3, <1>4, IdsStart DEF WireInv, OrderInv, ContentInv

LEMMA DecideMakes ==
  ASSUME NEW env, NEW item, NEW critical, NEW trace, NEW draw, Decide(env, item, critical, trace, draw)
  PROVE  \E d : /\ decided' = Append(decided, d) /\ d.env = env /\ d.item = item
                /\ d.kept = EvaluateCapture(policy, item, critical, draw)
<1> DEFINE d == [env |-> env, policy |-> policy, item |-> item, critical |-> critical, trace |-> trace,
                 draw |-> draw, kept |-> EvaluateCapture(policy, item, critical, draw)]
<1>1. decided' = Append(decided, d)
  BY DEF Decide
<1>2. d.env = env /\ d.item = item /\ d.kept = EvaluateCapture(policy, item, critical, draw)
  OBVIOUS
<1> HIDE DEF d
<1> QED BY <1>1, <1>2

\* A decision leaves what was decided before as it is.
LEMMA DecidedStays ==
  ASSUME NEW made, NEW d, made \in Seq(Elements(made))
  PROVE  LET grown == Append(made, d)
         IN /\ DOMAIN made \subseteq DOMAIN grown /\ \A i \in DOMAIN made : grown[i] = made[i]
            /\ Len(made) + 1 \in DOMAIN grown /\ grown[Len(made) + 1] = d
            /\ \A q : Waits(made, q) => Waits(grown, q)
<1> DEFINE grown == Append(made, d)
<1>1. /\ DOMAIN made \subseteq DOMAIN grown /\ \A i \in DOMAIN made : grown[i] = made[i]
      /\ Len(made) + 1 \in DOMAIN grown /\ grown[Len(made) + 1] = d
  <2>1. made \in Seq(Elements(made) \cup {d}) /\ d \in Elements(made) \cup {d}
    OBVIOUS
  <2>2. Len(made) \in Nat /\ DOMAIN made = 1..Len(made) /\ DOMAIN grown = 1..Len(made) + 1
        /\ grown[Len(made) + 1] = d /\ \A i \in 1..Len(made) : grown[i] = made[i]
    BY <2>1
  <2> HIDE DEF grown
  <2> QED BY <2>2
<1> HIDE DEF grown
<1>2. \A q : Waits(made, q) => Waits(grown, q)
  BY <1>1 DEF Waits
<1> QED BY <1>1, <1>2 DEF grown

LEMMA WireSpan ==
  ASSUME WireInv, NEW env \in Environments, NEW span_type, EnqueueSpan(env, span_type)
  PROVE  OrderInv' /\ ContentInv'
<1> DEFINE item == SpanItem(env, span_type)
<1>1. item.eventType \in {"http", "span"}
  <2> DEFINE type == SpanRowToCaptureEventType(span_type)
  <2>1. item.eventType = type
    BY TypeDefined DEF SpanItem
  <2>2. type \in {"http", "span"}
    BY DEF SpanRowToCaptureEventType
  <2> HIDE DEF item, type
  <2> QED BY <2>1, <2>2
<1>2. /\ posts = <<>> /\ posts' = posts /\ queue' = queue
      /\ \E critical, trace, draw : Decide(env, item, critical, trace, draw)
  BY DEF EnqueueSpan, MayJoin
<1> HIDE DEF item
<1>3. PICK d : decided' = Append(decided, d) /\ d.item = item
  BY <1>2, DecideMakes
<1>4. decided \in Seq(Elements(decided))
  BY DEF WireInv, IdsInv, DecidedIsSeq, Made, Elements
<1>5. ~Sendable(d)
  BY <1>1, <1>3 DEF Sendable
<1>6. Expected(decided') = Expected(decided)
  BY <1>3, <1>4, <1>5, ExpectedGrows
<1>7. DOMAIN <<>> = {} /\ Posted(<<>>) = {}
  BY DEF Posted
<1>8. OrderInv'
  BY <1>2, <1>6, <1>7 DEF WireInv, OrderInv
<1>9. \A q \in Elements(queue) : Waits(decided', q)
  BY <1>3, <1>4, DecidedStays DEF WireInv, ContentInv
<1> QED BY <1>2, <1>7, <1>8, <1>9 DEF ContentInv

LEMMA WireEvent ==
  ASSUME WireInv, NEW env \in Environments, Enqueue(env)
  PROVE  OrderInv' /\ ContentInv'
<1> DEFINE event == [id |-> WithId(env.id), type |-> env.type, context |-> MergeEventContext(env)]
           item == EventItem(event)
           critical == EventCritical(event, item)
           last == Len(decided) + 1
           new == [of |-> last, id |-> event.id, type |-> event.type,
                   context |-> AttachCommonContext(event.context, env.scope)]
<1>1. PICK trace, draw :
        /\ Decide(env, item, critical, trace, draw)
        /\ queue' = IF EvaluateCapture(policy, item, critical, draw) THEN Append(queue, new) ELSE queue
  BY DEF Enqueue
<1>2. posts = <<>> /\ posts' = posts
  BY DEF Enqueue, MayJoin
<1>3. item.eventType \in {"error", "log"}
  <2> DEFINE type == IF event.type = "error" THEN "error" ELSE "log"
  <2>1. item.eventType = type
    BY TypeDefined DEF EventItem
  <2>2. type \in {"error", "log"}
    OBVIOUS
  <2> HIDE DEF item, type
  <2> QED BY <2>1, <2>2
<1>4. new.of = last /\ new.context = ContextOf(env)
  BY DEF ContextOf
<1> HIDE DEF item, critical, new
<1>5. PICK d : /\ decided' = Append(decided, d) /\ d.env = env /\ d.item = item
               /\ d.kept = EvaluateCapture(policy, item, critical, draw)
  BY <1>1, DecideMakes
<1>6. decided \in Seq(Elements(decided)) /\ queue \in Seq(Elements(queue))
  BY DEF WireInv, IdsInv, DecidedIsSeq, Made, Elements
<1>7. Sendable(d) <=> d.kept /\ ~Refused(new.context)
  BY <1>3, <1>4, <1>5, OwnDurations DEF Sendable
<1>8. Expected(decided') = IF Sendable(d) THEN Append(Expected(decided), last) ELSE Expected(decided)
  BY <1>5, <1>6, ExpectedGrows
<1>9. queue' = IF d.kept THEN Append(queue, new) ELSE queue
  BY <1>1, <1>5
<1>10. Waiting(Append(queue, new)) = IF Refused(new.context) THEN Waiting(queue) ELSE Append(Waiting(queue), last)
  BY <1>4, <1>6, WaitingGrows
<1>11. Waiting(queue) = Expected(decided)
  BY <1>2 DEF WireInv, OrderInv
<1> HIDE DEF last
<1>12. Waiting(queue') = Expected(decided')
  BY <1>7, <1>8, <1>9, <1>10, <1>11
<1>13. DOMAIN <<>> = {} /\ Posted(<<>>) = {}
  BY DEF Posted
<1>14. OrderInv'
  BY <1>2, <1>12, <1>13 DEF OrderInv
<1>15. Elements(queue') \subseteq Elements(queue) \cup (IF d.kept THEN {new} ELSE {})
  BY <1>6, <1>9, AppendMakes DEF Elements
<1>16. d.kept => Waits(decided', new)
  <2>1. last \in DOMAIN decided' /\ decided'[last] = d
    BY <1>5, <1>6, DecidedStays DEF last
  <2> QED BY <1>3, <1>4, <1>5, <2>1 DEF Waits
<1>17. \A q \in Elements(queue) : Waits(decided', q)
  BY <1>5, <1>6, DecidedStays DEF WireInv, ContentInv
<1> QED BY <1>2, <1>13, <1>14, <1>15, <1>16, <1>17 DEF ContentInv

LEMMA WirePost ==
  ASSUME WireInv, NEW status, SendDefaultIngest(status)
  PROVE  OrderInv' /\ ContentInv'
<1> DEFINE wire == [i \in DOMAIN queue |->
                      [of |-> queue[i].of, event |-> NormalizeEventV4(queue[i], drawn + i)]]
           fit == {i \in DOMAIN wire : ~wire[i].event.rejected}
           canonical == Filter(wire, fit)
           throws == \E i \in DOMAIN wire : ~wire[i].event.rejected /\ ~Stringifies(queue[i].context)
           sent == IF throws THEN <<>> ELSE canonical
<1>1. /\ queue # <<>> /\ posts' = Append(posts, sent) /\ decided' = decided
      /\ queue' = <<>> \/ queue' = queue
  BY DEF SendDefaultIngest, Canonical
<1>2. queue \in Seq(Elements(queue)) /\ posts \in Seq(Elements(posts))
  BY DEF WireInv, IdsInv
<1>3. DOMAIN wire = DOMAIN queue /\ \A i \in DOMAIN queue :
        wire[i].of = queue[i].of /\ wire[i].event = NormalizeEventV4(queue[i], drawn + i)
  OBVIOUS
<1>4. wire \in Seq(Elements(wire))
  BY <1>2 DEF Elements
<1>5. Ofs(wire) = Ofs(queue)
  BY <1>3 DEF Ofs
<1>6. fit = {i \in DOMAIN queue : ~Refused(queue[i].context)}
  <2>1. \A i \in DOMAIN queue : wire[i].event.rejected <=> Refused(queue[i].context)
    <3> TAKE i \in DOMAIN queue
    <3>1. NormalizeEventV4(queue[i], drawn + i).rejected = Refused(queue[i].context)
      BY DEF NormalizeEventV4, Refused
    <3> HIDE DEF wire
    <3> QED BY <1>3, <3>1
  <2> HIDE DEF wire
  <2> QED BY <1>3, <2>1
<1>17. throws => \E i \in DOMAIN queue : ~Refused(queue[i].context) /\ ~Stringifies(queue[i].context)
  <2> SUFFICES ASSUME throws
               PROVE  \E i \in DOMAIN queue : ~Refused(queue[i].context) /\ ~Stringifies(queue[i].context)
    OBVIOUS
  <2>1. PICK i \in DOMAIN queue : ~wire[i].event.rejected /\ ~Stringifies(queue[i].context)
    BY <1>3
  <2>2. i \in fit
    BY <1>3, <2>1
  <2> HIDE DEF wire, fit
  <2> QED BY <1>6, <2>1, <2>2
<1> HIDE DEF wire, fit, throws
<1>18. throws => Inexpressible(decided)
  <2> SUFFICES ASSUME throws PROVE Inexpressible(decided)
    OBVIOUS
  <2>1. PICK i \in DOMAIN queue : ~Refused(queue[i].context) /\ ~Stringifies(queue[i].context)
    BY <1>17
  <2> DEFINE d == decided[queue[i].of]
             env == d.env
  <2>2. Waits(decided, queue[i])
    BY DEF WireInv, ContentInv, Elements
  <2>3. /\ queue[i].of \in DOMAIN decided /\ queue[i].context = ContextOf(env)
        /\ d.kept /\ d.item.eventType \in {"error", "log"}
    BY <2>2 DEF Waits
  <2>4. env \in Environments
    BY <2>3 DEF WireInv, IdsInv, Made
  <2>5. ~Refused(ContextOf(env)) /\ ~Stringifies(ContextOf(env))
    BY <2>1, <2>3
  <2> HIDE DEF env
  <2>6. Sendable(d)
    BY <2>3, <2>4, <2>5, OwnDurations DEF Sendable, env
  <2>7. ~Stringifies(env.explicit)
    BY <2>4, <2>5, OwnCorrelation
  <2> QED BY <2>3, <2>6, <2>7 DEF Inexpressible, env
<1>7. Ofs(canonical) = Waiting(queue)
  BY <1>4, <1>5, <1>6, FilterOfs DEF Waiting
<1>8. Waiting(queue) = Expected(decided)
  BY <1>1 DEF WireInv, OrderInv
<1>9. ASSUME NEW a \in Elements(canonical) PROVE Normalised(decided, a)
  <2>1. canonical \in Seq({wire[i] : i \in fit \cap DOMAIN wire})
    BY <1>4, FilterSelects
  <2>2. PICK i \in DOMAIN queue : a = wire[i]
    <3>1. a \in {wire[i] : i \in fit \cap DOMAIN wire}
      BY <1>9, <2>1 DEF Elements
    <3> QED BY <3>1, <1>3
  <2>3. a.of = queue[i].of /\ a.event = NormalizeEventV4(queue[i], drawn + i)
    BY <1>3, <2>2
  <2>4. Waits(decided, queue[i])
    BY DEF WireInv, ContentInv, Elements
  <2> QED BY <2>3, <2>4 DEF Waits, Normalised
<1> HIDE DEF canonical
<1>10. \A p \in DOMAIN posts' : posts'[p] = sent \/ \E o \in DOMAIN posts : posts'[p] = posts[o]
  <2> HIDE DEF sent
  <2>1. {posts'[p] : p \in DOMAIN posts'} = {posts[p] : p \in DOMAIN posts} \cup {sent}
    <3>1. posts \in Seq({posts[p] : p \in DOMAIN posts}) /\ posts' = Append(posts, sent)
      BY <1>1, <1>2 DEF Elements
    <3> QED BY <3>1, AppendMakes
  <2> QED BY <2>1
<1>11. ASSUME NEW p \in DOMAIN posts'
       PROVE  Ofs(posts'[p]) = Expected(decided) \/ (posts'[p] = <<>> /\ Inexpressible(decided))
  BY <1>7, <1>8, <1>10, <1>18 DEF WireInv, OrderInv
<1>12. posts' # <<>>
  <2> HIDE DEF sent
  <2> QED BY <1>1, <1>2
<1>13. OrderInv'
  <2>1. \A p \in DOMAIN posts' :
          \/ Ofs(posts'[p]) = Expected(decided')
          \/ posts'[p] = <<>> /\ Inexpressible(decided')
    BY <1>1, <1>11
  <2> QED BY <1>1, <1>8, <1>12, <2>1 DEF OrderInv
<1>14. ASSUME NEW a \in Posted(posts') PROVE Normalised(decided', a)
  <2>1. PICK p \in DOMAIN posts' : a \in {posts'[p][i] : i \in DOMAIN posts'[p]}
    BY <1>14 DEF Posted
  <2>2. CASE posts'[p] = canonical
    BY <1>1, <1>9, <2>1, <2>2 DEF Elements
  <2>3. CASE \E o \in DOMAIN posts : posts'[p] = posts[o]
    <3>1. a \in Posted(posts)
      BY <2>1, <2>3 DEF Posted
    <3> QED BY <1>1, <3>1 DEF WireInv, ContentInv
  <2>4. posts'[p] # <<>>
    BY <2>1
  <2> QED BY <1>10, <2>1, <2>2, <2>3, <2>4
<1>15. Elements(queue') \subseteq Elements(queue)
  <2>1. Elements(<<>>) = {}
    BY DEF Elements
  <2> QED BY <1>1, <2>1
<1>16. \A q \in Elements(queue') : Waits(decided', q)
  BY <1>1, <1>15 DEF WireInv, ContentInv
<1> QED BY <1>13, <1>14, <1>16 DEF ContentInv

LEMMA WireStep == WireInv /\ [PipelineNext]_pipelineVars => WireInv'
<1> SUFFICES ASSUME WireInv, [PipelineNext]_pipelineVars PROVE WireInv'
  OBVIOUS
<1>1. IdsInv'
  BY IdsStep DEF WireInv
<1>2. ASSUME UNCHANGED <<decided, queue, posts>> PROVE OrderInv' /\ ContentInv'
  BY <1>2 DEF WireInv, OrderInv, ContentInv
<1>3. ASSUME NEW answer, Refresh(answer) PROVE OrderInv' /\ ContentInv'
  BY <1>2, <1>3 DEF Refresh
<1>4. CASE UNCHANGED pipelineVars
  BY <1>1, <1>2, <1>4 DEF pipelineVars, WireInv
<1>5. CASE PipelineNext
  <2>1. OrderInv' /\ ContentInv'
    BY <1>3, <1>5, WireSpan, WireEvent, WirePost DEF PipelineNext
  <2> QED BY <1>1, <2>1 DEF WireInv
<1> QED BY <1>4, <1>5

\* An event that cannot be normalised, for a negative duration, never stops another:
\* every post is what was kept and is fit to be sent, in order, for any number of
\* events, posts and answers; only an attempt with an event that JSON cannot express
\* posts nothing (stacktrace-client.ts:374-396).
THEOREM PoisonStaysAlone == PipelineSpec => []PoisonAlone
<1>1. WireInv => PoisonAlone
  <2> SUFFICES ASSUME WireInv, NEW p \in DOMAIN posts
               PROVE  \/ Ofs(posts[p]) = Filter([i \in DOMAIN decided |-> i], {i \in DOMAIN decided : Fit(i)})
                      \/ posts[p] = <<>> /\ \E i \in DOMAIN decided : Fit(i) /\ ~Stringifies(decided[i].env.explicit)
    BY DEF PoisonAlone, Ofs
  <2>1. Ofs(posts[p]) = Expected(decided) \/ (posts[p] = <<>> /\ Inexpressible(decided))
    BY DEF WireInv, OrderInv
  <2>3. Inexpressible(decided) => \E i \in DOMAIN decided : Fit(i) /\ ~Stringifies(decided[i].env.explicit)
    BY DEF Inexpressible, Fit, Sendable
  <2>2. {i \in DOMAIN decided : Fit(i)} = {i \in DOMAIN decided : Sendable(decided[i])}
    BY DEF Fit, Sendable
  <2> QED BY <2>1, <2>2, <2>3 DEF Expected
<1> QED BY <1>1, WireStart, WireStep, PTL DEF PipelineSpec

\* What an event on the wire says of where it was made, of its route and of what the
\* application gave it is true and whole (request-context.ts, normalize.ts,
\* normalize-event.ts), for every environment.
THEOREM WireIsFaithful == PipelineSpec => []FaithfulWire
<1>1. WireInv => \A sent \in Sent :
        LET env == decided[sent.of].env
        IN /\ TraceIsWhereMade(env, sent.event) /\ RouteIsSpans(env, sent.event)
           /\ NothingSilent(env, sent.event)
  <2> SUFFICES ASSUME WireInv, NEW sent \in Sent
               PROVE  LET env == decided[sent.of].env
                      IN /\ TraceIsWhereMade(env, sent.event) /\ RouteIsSpans(env, sent.event)
                         /\ NothingSilent(env, sent.event)
    OBVIOUS
  <2> DEFINE env == decided[sent.of].env
  <2>1. Normalised(decided, sent)
    BY DEF WireInv, ContentInv, Sent, Posted
  <2>2. env \in Environments
    BY <2>1 DEF Normalised, WireInv, IdsInv, Made
  <2>3. PICK q, n : q.context = ContextOf(env) /\ sent.event = NormalizeEventV4(q, n)
    BY <2>1 DEF Normalised
  <2> HIDE DEF env
  <2> QED BY <2>2, <2>3, TraceOfEvent, RouteOfEvent, SilenceOfEvent DEF env
<1>2. PipelineSpec => []WireInv
  BY WireStart, WireStep, PTL DEF PipelineSpec
<1>3. WireInv /\ PoisonAlone => FaithfulWire
  BY <1>1 DEF FaithfulWire
<1> QED BY <1>2, <1>3, PoisonStaysAlone, PTL
=============================================================================
