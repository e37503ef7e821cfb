----------------------- MODULE ClientLifecycleProofs -----------------------
(***************************************************************************)
(* For every number of clients, items and concurrent calls: a flush() that *)
(* was answered in time has drained each queue whose own drain was not cut *)
(* short, and a client replaced by the next init() polls no more unless    *)
(* that init() overtook a shutdown().                                      *)
(***************************************************************************)
EXTENDS ClientLifecycle, TLAPS

-----------------------------------------------------------------------------
Counts == [Queues -> Nat]

CallType ==
  [kind : {"none", "flush", "shutdown", "crash"}, client : 0 .. MaxClients,
   stage : {"idle", "events", "spans"}, target : Nat,
   answer : {"none", "done", "late"}, owed : Counts, cut : SUBSET Queues]

LifecycleType ==
  /\ created \in 0 .. MaxClients
  /\ runtime \in 0 .. MaxClients
  /\ polling \in [Clients -> BOOLEAN]
  /\ captured \in [Clients -> Counts]
  /\ sent \in [Clients -> Counts]
  /\ registered \in BOOLEAN /\ terminating \in BOOLEAN
  /\ call \in [Calls -> CallType]
  /\ exited \in BOOLEAN /\ overlapped \in BOOLEAN

(* The stages of one flush, a record r, of queues that have taken `in` and *)
(* sent `out`: what it is to drain now covers what it owes its caller from *)
(* that queue, and what it has drained before is gone.                     *)
FlushInv(r, in, out) ==
  /\ r.answer = "done" => r.stage = "idle"
  /\ r.kind = "none" => r.stage = "idle" /\ r.answer = "none"
  /\ r.client # 0 =>
       /\ r.stage = "events" =>
            /\ r.owed["events"] <= r.target
            /\ r.owed["spans"] <= in[r.client]["spans"]
       /\ r.stage = "spans" =>
            /\ "events" \notin r.cut => out[r.client]["events"] >= r.owed["events"]
            /\ r.owed["spans"] <= r.target
       /\ r.stage = "idle" /\ r.kind # "none" =>
            \A q \in Queues \ r.cut : out[r.client][q] >= r.owed[q]

FlushesInv == \A c \in Calls : FlushInv(call[c], captured, sent)

(* Only the current client polls, and none does while a shutdown() awaits  *)
(* its flush.                                                              *)
PollersInv ==
  /\ runtime \in {0, created}
  /\ ~overlapped =>
       /\ \A k \in Clients : polling[k] => k = runtime
       /\ ShutdownPending => \A k \in Clients : ~polling[k]

LifecycleInv == LifecycleType /\ FlushesInv /\ PollersInv

-----------------------------------------------------------------------------
QueueCounts == [Clients -> Counts]

(* The queues only take and send more. *)
Grown(before, after) ==
  \A k \in Clients, q \in Queues : before[k][q] <= after[k][q]

LEMMA GrownOnce ==
  ASSUME NEW counts \in QueueCounts, NEW k \in Clients, NEW q \in Queues
  PROVE  LET more == [counts EXCEPT ![k][q] = @ + 1] IN
         more \in QueueCounts /\ Grown(counts, more)
BY DEF QueueCounts, Counts, Grown

LEMMA GrownNot ==
  ASSUME NEW counts \in QueueCounts PROVE Grown(counts, counts)
BY DEF QueueCounts, Counts, Grown

(* Progress of the queues disturbs no flush. *)
LEMMA FlushKept ==
  ASSUME NEW r \in CallType,
         NEW in \in QueueCounts, NEW in2 \in QueueCounts, Grown(in, in2),
         NEW out \in QueueCounts, NEW out2 \in QueueCounts, Grown(out, out2),
         FlushInv(r, in, out)
  PROVE  FlushInv(r, in2, out2)
<1>1. r.client \in 0 .. MaxClients /\ r.owed \in [Queues -> Nat]
  BY DEF CallType, Counts
<1>2. CASE r.client # 0
  <2>1. r.client \in Clients
    BY <1>1, <1>2, LifecycleAssumption DEF Clients
  <2>2. \A q \in Queues : /\ in[r.client][q] \in Nat /\ in2[r.client][q] \in Nat
                         /\ in[r.client][q] <= in2[r.client][q]
                         /\ out[r.client][q] \in Nat /\ out2[r.client][q] \in Nat
                         /\ out[r.client][q] <= out2[r.client][q]
                         /\ r.owed[q] \in Nat
    BY <1>1, <2>1 DEF QueueCounts, Counts, Grown
  <2>3. "events" \in Queues /\ "spans" \in Queues
    BY DEF Queues
  <2>4. \A q \in Queues : out[r.client][q] >= r.owed[q]
                         => out2[r.client][q] >= r.owed[q]
    BY <2>2
  <2>5. r.owed["spans"] <= in[r.client]["spans"]
          => r.owed["spans"] <= in2[r.client]["spans"]
    BY <2>2, <2>3
  <2> QED BY <2>3, <2>4, <2>5 DEF FlushInv
<1>3. CASE r.client = 0
  BY <1>3 DEF FlushInv
<1> QED BY <1>2, <1>3

(* A new flush has to drain the events it owes. *)
LEMMA FlushStarted ==
  ASSUME NEW kind \in {"flush", "shutdown", "crash"}, NEW k \in 0 .. MaxClients,
         NEW in \in QueueCounts, NEW out \in QueueCounts,
         NEW items \in Counts, k # 0 => items = in[k]
  PROVE  LET r == [kind |-> kind, client |-> k, stage |-> "events",
                   target |-> items.events, answer |-> "none",
                   owed |-> items, cut |-> {}]
         IN  r \in CallType /\ FlushInv(r, in, out)
<1>1. items["events"] \in Nat /\ items["spans"] \in Nat
  BY DEF Counts, Queues
<1> QED BY <1>1 DEF CallType, FlushInv

(* Its events gone, or given up, it has to drain the spans. *)
LEMMA FlushGoesOn ==
  ASSUME NEW r \in CallType, r.stage = "events", NEW cut \in BOOLEAN,
         NEW in \in QueueCounts, NEW out \in QueueCounts,
         FlushInv(r, in, out),
         cut \/ (r.client # 0 => out[r.client][r.stage] >= r.target),
         NEW r2 \in CallType,
         r2.kind = r.kind, r2.client = r.client, r2.answer = r.answer,
         r2.owed = r.owed, r2.stage = "spans",
         r2.cut = IF cut THEN {"events"} ELSE {},
         r.client # 0 => r2.target = in[r.client]["spans"]
  PROVE  FlushInv(r2, in, out)
<1>1. CASE r.client # 0
  <2>1. r.client \in Clients /\ "events" \in Queues
    BY <1>1, LifecycleAssumption DEF CallType, Clients, Queues
  <2>2. /\ r.owed["events"] \in Nat /\ r.target \in Nat
        /\ out[r.client]["events"] \in Nat
    BY <2>1 DEF CallType, Counts, QueueCounts
  <2>3. r.owed["events"] <= r.target /\ r.owed["spans"] <= in[r.client]["spans"]
    BY <1>1 DEF FlushInv
  <2>4. ~cut => out[r.client]["events"] >= r.owed["events"]
    BY <1>1, <2>2, <2>3
  <2> QED BY <1>1, <2>3, <2>4 DEF FlushInv
<1>2. CASE r.client = 0
  BY <1>2 DEF FlushInv
<1> QED BY <1>1, <1>2

(* Its spans gone too, it owes nothing any more. *)
LEMMA FlushEnds ==
  ASSUME NEW r \in CallType, r.stage = "spans", NEW cut \in BOOLEAN,
         NEW in \in QueueCounts, NEW out \in QueueCounts,
         FlushInv(r, in, out),
         cut \/ (r.client # 0 => out[r.client][r.stage] >= r.target),
         NEW r2 \in CallType,
         r2.kind = r.kind, r2.client = r.client, r2.owed = r.owed,
         r2.stage = "idle", r2.cut = r.cut \cup IF cut THEN {"spans"} ELSE {}
  PROVE  FlushInv(r2, in, out)
<1>0. r.kind # "none"
  BY DEF FlushInv
<1>1. CASE r.client # 0
  <2>1. r.client \in Clients
    BY <1>1, LifecycleAssumption DEF CallType, Clients
  <2>2. \A q \in Queues : r.owed[q] \in Nat /\ out[r.client][q] \in Nat
    BY <2>1 DEF CallType, Counts, QueueCounts
  <2>3. "events" \in Queues /\ "spans" \in Queues /\ r.target \in Nat
    BY DEF CallType, Queues
  <2>4. r.owed["spans"] <= r.target
        /\ ("events" \notin r.cut => out[r.client]["events"] >= r.owed["events"])
    BY <1>1 DEF FlushInv
  <2>5. ~cut => out[r.client]["spans"] >= r.owed["spans"]
    BY <1>1, <2>2, <2>3, <2>4
  <2>6. \A q \in Queues \ r2.cut : out[r.client][q] >= r.owed[q]
    BY <2>4, <2>5 DEF Queues
  <2> QED BY <1>0, <1>1, <2>6 DEF FlushInv
<1>2. CASE r.client = 0
  BY <1>0, <1>2 DEF FlushInv
<1> QED BY <1>1, <1>2

(* A caller that was answered late is owed nothing. *)
LEMMA FlushForgiven ==
  ASSUME NEW r \in CallType, r.kind # "none",
         NEW in \in QueueCounts, NEW out \in QueueCounts,
         FlushInv(r, in, out),
         NEW r2 \in CallType,
         r2.kind = r.kind, r2.client = r.client, r2.stage = r.stage,
         r2.target = r.target, r2.cut = r.cut, r2.answer = "late",
         \A q \in Queues : r2.owed[q] = 0
  PROVE  FlushInv(r2, in, out)
<1>1. CASE r.client # 0
  <2>1. r.client \in Clients /\ r.target \in Nat
    BY <1>1, LifecycleAssumption DEF CallType, Clients
  <2>2. \A q \in Queues : in[r.client][q] >= 0 /\ out[r.client][q] >= 0
    BY <2>1 DEF Counts, QueueCounts
  <2>3. r2.owed["events"] = 0 /\ r2.owed["spans"] = 0
        /\ in[r.client]["spans"] >= 0 /\ out[r.client]["events"] >= 0
    BY <2>2 DEF Queues
  <2> QED BY <2>1, <2>2, <2>3 DEF FlushInv
<1>2. CASE r.client = 0
  BY <1>2 DEF FlushInv
<1> QED BY <1>1, <1>2

-----------------------------------------------------------------------------
LEMMA LifecycleStarts == Init => LifecycleInv
<1> SUFFICES ASSUME Init PROVE LifecycleInv
  OBVIOUS
<1>1. [q \in Queues |-> 0] \in Counts
  BY DEF Counts
<1>2. NoCall \in CallType
  BY <1>1, LifecycleAssumption DEF NoCall, CallType
<1>3. LifecycleType
  <2>1. captured \in [Clients -> Counts] /\ sent \in [Clients -> Counts]
    BY <1>1 DEF Init
  <2>2. call \in [Calls -> CallType]
    BY <1>2 DEF Init
  <2>3. created \in 0 .. MaxClients /\ runtime \in 0 .. MaxClients
    BY LifecycleAssumption DEF Init
  <2> QED BY <2>1, <2>2, <2>3 DEF Init, LifecycleType
<1>4. FlushInv(NoCall, captured, sent)
  BY DEF FlushInv, NoCall
<1>5. FlushesInv
  BY <1>4 DEF Init, FlushesInv
<1>6. PollersInv
  BY DEF Init, PollersInv, ShutdownPending, Awaiting, NoCall
<1> QED BY <1>3, <1>5, <1>6 DEF LifecycleInv

(* The flushes of a step that starts, ends or answers none of them. *)
LEMMA FlushesKept ==
  ASSUME LifecycleInv, call' = call,
         captured' \in QueueCounts, Grown(captured, captured'),
         sent' \in QueueCounts, Grown(sent, sent')
  PROVE  FlushesInv'
<1> SUFFICES ASSUME NEW c \in Calls PROVE FlushInv(call[c], captured', sent')
  BY DEF FlushesInv
<1>1. call[c] \in CallType /\ FlushInv(call[c], captured, sent)
  BY DEF LifecycleInv, LifecycleType, FlushesInv
<1>2. captured \in QueueCounts /\ sent \in QueueCounts
  BY DEF LifecycleInv, LifecycleType, QueueCounts
<1> QED BY <1>1, <1>2, FlushKept

(* The flushes of a step that changes one of them. *)
LEMMA OneFlushChanged ==
  ASSUME LifecycleInv, NEW c \in Calls, NEW r \in CallType,
         call' = [call EXCEPT ![c] = r],
         captured' \in QueueCounts, Grown(captured, captured'), sent' = sent,
         FlushInv(r, captured', sent')
  PROVE  FlushesInv' /\ call' \in [Calls -> CallType]
<1>1. call' \in [Calls -> CallType] /\ call'[c] = r
      /\ \A d \in Calls \ {c} : call'[d] = call[d]
  BY DEF LifecycleInv, LifecycleType
<1>2. captured \in QueueCounts /\ sent \in QueueCounts /\ Grown(sent, sent)
  BY GrownNot DEF LifecycleInv, LifecycleType, QueueCounts
<1>3. ASSUME NEW d \in Calls \ {c} PROVE FlushInv(call'[d], captured', sent')
  <2>1. call[d] \in CallType /\ FlushInv(call[d], captured, sent)
    BY DEF LifecycleInv, LifecycleType, FlushesInv
  <2> QED BY <1>1, <1>2, <2>1, FlushKept
<1> QED BY <1>1, <1>3 DEF FlushesInv

LEMMA GrownByOne ==
  ASSUME LifecycleType, NEW k \in Clients, NEW q \in Queues
  PROVE  /\ [captured EXCEPT ![k][q] = @ + 1] \in QueueCounts
         /\ Grown(captured, [captured EXCEPT ![k][q] = @ + 1])
         /\ [sent EXCEPT ![k][q] = @ + 1] \in QueueCounts
         /\ Grown(sent, [sent EXCEPT ![k][q] = @ + 1])
         /\ captured \in QueueCounts /\ Grown(captured, captured)
         /\ sent \in QueueCounts /\ Grown(sent, sent)
BY GrownOnce, GrownNot DEF LifecycleType, QueueCounts

LEMMA Ungrown ==
  ASSUME LifecycleType
  PROVE  /\ captured \in QueueCounts /\ Grown(captured, captured)
         /\ sent \in QueueCounts /\ Grown(sent, sent)
BY GrownNot DEF LifecycleType, QueueCounts

(* StartFlush(), of captured' if an item was enqueued just before. *)
LEMMA StartFlushStep ==
  ASSUME LifecycleInv, NEW c \in Calls,
         NEW kind \in {"flush", "shutdown", "crash"}, NEW k \in 0 .. MaxClients,
         captured' \in QueueCounts, Grown(captured, captured'), sent' = sent,
         NEW items \in Counts, k # 0 => items = captured'[k],
         StartFlush(c, kind, k, items)
  PROVE  /\ FlushesInv' /\ call' \in [Calls -> CallType]
         /\ call[c].kind = "none" /\ call'[c].kind = kind
         /\ \A d \in Calls \ {c} : call'[d] = call[d]
<1> DEFINE r == [kind |-> kind, client |-> k, stage |-> "events",
                 target |-> items.events, answer |-> "none",
                 owed |-> items, cut |-> {}]
<1>1. sent \in QueueCounts
  BY DEF LifecycleInv, LifecycleType, QueueCounts
<1>2. r \in CallType /\ FlushInv(r, captured', sent)
  BY <1>1, FlushStarted
<1>3. call' = [call EXCEPT ![c] = r] /\ call[c].kind = "none"
  BY DEF StartFlush
<1>4. r.kind = kind
  OBVIOUS
<1> HIDE DEF r
<1>5. FlushesInv' /\ call' \in [Calls -> CallType]
  BY <1>2, <1>3, OneFlushChanged
<1> QED BY <1>3, <1>4, <1>5 DEF LifecycleInv, LifecycleType

(* A shutdown that pends after the step did so before, or is a new one. *)
LEMMA PendingNext ==
  ASSUME NEW c \in Calls, call'[c].kind # "shutdown" \/ call'[c].answer # "none",
         \A d \in Calls \ {c} : call'[d] = call[d]
  PROVE  ShutdownPending' => ShutdownPending
BY DEF ShutdownPending, Awaiting

(* Answer(), with the flush of the call over or left behind. *)
LEMMA AnsweredStep ==
  ASSUME LifecycleInv, NEW c \in Calls, Awaiting(c), NEW r \in CallType,
         call' = [call EXCEPT ![c] = r], r.answer # "none",
         FlushInv(r, captured, sent), Answer(c)
  PROVE  LifecycleInv'
<1>0. LifecycleType /\ FlushesInv /\ PollersInv
  BY DEF LifecycleInv
<1>1. /\ UNCHANGED <<created, polling, captured, sent, registered, terminating,
                     overlapped>>
      /\ runtime' = IF call[c].kind = "shutdown" THEN 0 ELSE runtime
      /\ exited' \in BOOLEAN
  BY DEF Answer, queueVars, handlerVars
<1>2. FlushesInv' /\ call' \in [Calls -> CallType]
  BY <1>0, <1>1, Ungrown, OneFlushChanged
<1>3. LifecycleType'
  BY <1>0, <1>1, <1>2, LifecycleAssumption DEF LifecycleType
<1>4. ShutdownPending' => ShutdownPending
  <2>1. call'[c] = r /\ \A d \in Calls \ {c} : call'[d] = call[d]
    BY <1>0 DEF LifecycleType
  <2> QED BY <2>1, PendingNext
<1>5. call[c].kind = "shutdown" => ShutdownPending
  BY DEF ShutdownPending
<1>6. PollersInv'
  BY <1>0, <1>1, <1>4, <1>5 DEF PollersInv
<1> QED BY <1>2, <1>3, <1>6 DEF LifecycleInv

LEMMA LifecycleStep == LifecycleInv /\ [Next]_vars => LifecycleInv'
<1> SUFFICES ASSUME LifecycleInv, [Next]_vars PROVE LifecycleInv'
  OBVIOUS
<1>0. LifecycleType /\ FlushesInv /\ PollersInv
  BY DEF LifecycleInv
<1>1. ASSUME NEW handlers \in BOOLEAN, StartClient(handlers)
      PROVE  LifecycleInv'
  <2>1. /\ created' = created + 1 /\ runtime' = created + 1
        /\ created + 1 \in 1 .. MaxClients
        /\ polling' = [k \in Clients |->
                         k = created + 1 \/ (polling[k] /\ k # runtime)]
        /\ registered' = (registered \/ handlers)
        /\ terminating' = (terminating /\ registered)
        /\ overlapped' = (overlapped \/ ShutdownPending)
        /\ UNCHANGED <<captured, sent, call, exited>>
    BY <1>1, <1>0, LifecycleAssumption DEF StartClient, queueVars, LifecycleType
  <2>2. LifecycleType'
    BY <2>1, <1>0 DEF LifecycleType
  <2>3. FlushesInv'
    BY <2>1, <1>0, Ungrown, FlushesKept DEF LifecycleInv
  <2>4. ~overlapped' => \A k \in Clients : polling'[k] => k = runtime'
    BY <2>1, <1>0 DEF PollersInv
  <2>5. ~overlapped' => ~ShutdownPending'
    BY <2>1 DEF ShutdownPending, Awaiting
  <2>6. PollersInv'
    BY <2>1, <2>4, <2>5 DEF PollersInv
  <2> QED BY <2>2, <2>3, <2>6 DEF LifecycleInv
<1>2. ASSUME NEW q \in Queues, Capture(q)
      PROVE  LifecycleInv'
  <2>1. /\ captured' = [captured EXCEPT ![runtime][q] = @ + 1]
        /\ runtime \in Clients
        /\ UNCHANGED <<clientVars, sent, handlerVars, call, exited, overlapped>>
    BY <1>2, <1>0, LifecycleAssumption DEF Capture, LifecycleType, Clients
  <2>2. captured' \in QueueCounts /\ Grown(captured, captured')
        /\ sent' \in QueueCounts /\ Grown(sent, sent')
    BY <2>1, <1>0, GrownByOne
  <2>3. LifecycleType'
    BY <2>1, <2>2, <1>0 DEF LifecycleType, clientVars, handlerVars, QueueCounts
  <2>4. FlushesInv'
    BY <2>1, <2>2, FlushesKept
  <2>5. PollersInv'
    BY <2>1, <1>0 DEF PollersInv, ShutdownPending, Awaiting, clientVars
  <2> QED BY <2>3, <2>4, <2>5 DEF LifecycleInv
<1>3. ASSUME NEW q \in Queues, NEW k \in Clients, Deliver(k, q)
      PROVE  LifecycleInv'
  <2>1. /\ sent' = [sent EXCEPT ![k][q] = @ + 1]
        /\ UNCHANGED <<clientVars, captured, handlerVars, call, exited, overlapped>>
    BY <1>3 DEF Deliver
  <2>2. captured' \in QueueCounts /\ Grown(captured, captured')
        /\ sent' \in QueueCounts /\ Grown(sent, sent')
    BY <2>1, <1>0, GrownByOne
  <2>3. LifecycleType'
    BY <2>1, <2>2, <1>0 DEF LifecycleType, clientVars, handlerVars, QueueCounts
  <2>4. FlushesInv'
    BY <2>1, <2>2, FlushesKept
  <2>5. PollersInv'
    BY <2>1, <1>0 DEF PollersInv, ShutdownPending, Awaiting, clientVars
  <2> QED BY <2>3, <2>4, <2>5 DEF LifecycleInv
<1>4. CASE ShutdownWithoutClient
  <2>1. /\ registered' = FALSE /\ terminating' = terminating
        /\ UNCHANGED <<created, runtime, polling, captured, sent, call, exited,
                       overlapped>>
    BY <1>4 DEF ShutdownWithoutClient, clientVars, queueVars
  <2>2. LifecycleType'
    BY <2>1, <1>0 DEF LifecycleType
  <2>3. FlushesInv'
    BY <2>1, <1>0, Ungrown, FlushesKept
  <2>4. PollersInv'
    BY <2>1, <1>0 DEF PollersInv, ShutdownPending, Awaiting
  <2> QED BY <2>2, <2>3, <2>4 DEF LifecycleInv
<1>5. ASSUME NEW c \in Calls, Flush(c)
      PROVE  LifecycleInv'
  <2>1. /\ StartFlush(c, "flush", runtime, captured[runtime])
        /\ runtime \in Clients /\ runtime \in 0 .. MaxClients
        /\ UNCHANGED <<created, runtime, polling, captured, sent, registered,
                       terminating, exited, overlapped>>
    BY <1>5, <1>0, LifecycleAssumption
       DEF Flush, LifecycleType, Clients, clientVars, queueVars, handlerVars
  <2>2. captured[runtime] \in Counts
    BY <2>1, <1>0 DEF LifecycleType
  <2>3. /\ FlushesInv' /\ call' \in [Calls -> CallType]
        /\ call'[c].kind = "flush"
        /\ \A d \in Calls \ {c} : call'[d] = call[d]
    BY <2>1, <2>2, <1>0, Ungrown, StartFlushStep
  <2>4. LifecycleType'
    BY <2>1, <2>3, <1>0 DEF LifecycleType
  <2>5. ShutdownPending' => ShutdownPending
    BY <2>3, PendingNext
  <2>6. PollersInv'
    BY <2>1, <2>5, <1>0 DEF PollersInv
  <2> QED BY <2>3, <2>4, <2>6 DEF LifecycleInv
<1>6. ASSUME NEW c \in Calls, Shutdown(c)
      PROVE  LifecycleInv'
  <2>1. /\ StartFlush(c, "shutdown", runtime, captured[runtime])
        /\ runtime \in Clients /\ runtime \in 0 .. MaxClients
        /\ registered' = FALSE
        /\ polling' = [polling EXCEPT ![runtime] = FALSE]
        /\ UNCHANGED <<created, runtime, captured, sent, terminating, exited,
                       overlapped>>
    BY <1>6, <1>0, LifecycleAssumption
       DEF Shutdown, LifecycleType, Clients, queueVars
  <2>2. captured[runtime] \in Counts
    BY <2>1, <1>0 DEF LifecycleType
  <2>3. FlushesInv' /\ call' \in [Calls -> CallType]
    BY <2>1, <2>2, <1>0, Ungrown, StartFlushStep
  <2>4. LifecycleType'
    BY <2>1, <2>3, <1>0 DEF LifecycleType
  <2>5. ~overlapped' => \A k \in Clients : ~polling'[k]
    BY <2>1, <1>0 DEF PollersInv, LifecycleType
  <2>6. PollersInv'
    BY <2>1, <2>5, <1>0 DEF PollersInv
  <2> QED BY <2>3, <2>4, <2>6 DEF LifecycleInv
<1>7. ASSUME NEW c \in Calls, Crash(c)
      PROVE  LifecycleInv'
  <2>1. UNCHANGED <<created, runtime, polling, sent, registered, exited, overlapped>>
    BY <1>7 DEF Crash, clientVars
  <2>2. captured' \in QueueCounts /\ Grown(captured, captured')
    <3>1. CASE captured' = captured
      BY <3>1, <1>0, Ungrown
    <3>2. CASE runtime # 0 /\ captured' = [captured EXCEPT ![runtime]["events"] = @ + 1]
      <4>1. runtime \in Clients /\ "events" \in Queues
        BY <3>2, <1>0, LifecycleAssumption DEF LifecycleType, Clients, Queues
      <4> QED BY <4>1, <3>2, <1>0, GrownByOne
    <3> QED BY <1>7, <3>1, <3>2 DEF Crash
  <2>3. sent' \in QueueCounts /\ Grown(sent, sent')
    BY <2>1, <1>0, Ungrown
  <2>4. CASE terminating
    <3>1. call' = call /\ terminating' = terminating
      BY <1>7, <2>4 DEF Crash
    <3>2. FlushesInv'
      BY <2>2, <2>3, <3>1, FlushesKept
    <3>3. LifecycleType'
      BY <2>1, <2>2, <3>1, <1>0 DEF LifecycleType, QueueCounts
    <3>4. PollersInv'
      BY <2>1, <3>1, <1>0 DEF PollersInv, ShutdownPending, Awaiting
    <3> QED BY <3>2, <3>3, <3>4 DEF LifecycleInv
  <2>5. CASE ~terminating
    <3> DEFINE items == IF runtime = 0 THEN [q \in Queues |-> 0]
                        ELSE captured'[runtime]
    <3>1. terminating' = TRUE /\ StartFlush(c, "crash", runtime, items)
      BY <1>7, <2>5 DEF Crash
    <3>2. runtime \in 0 .. MaxClients /\ items \in Counts
      <4>1. runtime # 0 => runtime \in Clients
        BY <1>0, LifecycleAssumption DEF LifecycleType, Clients
      <4> QED BY <4>1, <2>2, <1>0 DEF LifecycleType, Counts, QueueCounts
    <3>3. runtime # 0 => items = captured'[runtime]
      OBVIOUS
    <3> HIDE DEF items
    <3>4. /\ FlushesInv' /\ call' \in [Calls -> CallType]
          /\ call'[c].kind = "crash"
          /\ \A d \in Calls \ {c} : call'[d] = call[d]
      BY <2>1, <2>2, <3>1, <3>2, <3>3, StartFlushStep
    <3>5. LifecycleType'
      BY <2>1, <2>2, <3>1, <3>4, <1>0 DEF LifecycleType, QueueCounts
    <3>6. ShutdownPending' => ShutdownPending
      BY <3>4, PendingNext
    <3>7. PollersInv'
      BY <2>1, <3>6, <1>0 DEF PollersInv
    <3> QED BY <3>4, <3>5, <3>7 DEF LifecycleInv
  <2> QED BY <2>4, <2>5
<1>8. ASSUME NEW c \in Calls, DeadlinePasses(c)
      PROVE  LifecycleInv'
  <2> DEFINE r == call[c]
             r2 == [r EXCEPT !.answer = "late", !.owed = [q \in Queues |-> 0]]
  <2>1. r \in CallType /\ FlushInv(r, captured, sent) /\ Awaiting(c)
    BY <1>8, <1>0 DEF DeadlinePasses, LifecycleType, FlushesInv
  <2>2. call' = [call EXCEPT ![c] = r2] /\ Answer(c)
    BY <1>8, <1>0 DEF DeadlinePasses, LifecycleType
  <2>3. [q \in Queues |-> 0] \in Counts
    BY DEF Counts
  <2>4. r2 \in CallType
    BY <2>1, <2>3 DEF CallType
  <2>5. /\ r2.kind = r.kind /\ r2.client = r.client /\ r2.stage = r.stage
        /\ r2.target = r.target /\ r2.cut = r.cut /\ r2.answer = "late"
        /\ \A q \in Queues : r2.owed[q] = 0
    BY <2>1 DEF CallType
  <2>6. r.kind # "none"
    BY <2>1 DEF Awaiting
  <2> HIDE DEF r2
  <2>7. FlushInv(r2, captured, sent)
    BY <2>1, <2>4, <2>5, <2>6, <1>0, Ungrown, FlushForgiven
  <2>8. r2.answer # "none"
    BY <2>5
  <2>9. Awaiting(c)
    BY <2>1
  <2> HIDE DEF r
  <2> QED BY <2>2, <2>4, <2>7, <2>8, <2>9, AnsweredStep
<1>9. ASSUME NEW c \in Calls, NEW cut \in BOOLEAN, EventsFlushed(c, cut)
      PROVE  LifecycleInv'
  <2> DEFINE r == call[c]
             target == IF r.client = 0 THEN 0 ELSE captured[r.client]["spans"]
             r2 == [r EXCEPT !.stage = "spans",
                       !.cut = IF cut THEN {"events"} ELSE {}, !.target = target]
  <2>1. r \in CallType /\ FlushInv(r, captured, sent) /\ r.stage = "events"
    BY <1>9, <1>0 DEF EventsFlushed, LifecycleType, FlushesInv
  <2>2. /\ call' = [call EXCEPT ![c] = r2]
        /\ UNCHANGED <<created, runtime, polling, captured, sent, registered,
                       terminating, exited, overlapped>>
    BY <1>9, <1>0 DEF EventsFlushed, LifecycleType, clientVars, queueVars,
                      handlerVars
  <2>3. target \in Nat
    <3>1. r.client # 0 => r.client \in Clients
      BY <2>1, LifecycleAssumption DEF CallType, Clients
    <3> QED BY <3>1, <1>0 DEF LifecycleType, Counts, Queues
  <2>4. r.client # 0 => target = captured[r.client]["spans"]
    OBVIOUS
  <2> HIDE DEF target
  <2>5. r2 \in CallType
    BY <2>1, <2>3 DEF CallType, Queues
  <2>6. /\ r2.kind = r.kind /\ r2.client = r.client /\ r2.answer = r.answer
        /\ r2.owed = r.owed /\ r2.stage = "spans"
        /\ r2.cut = IF cut THEN {"events"} ELSE {}
        /\ r2.target = target
    BY <2>1 DEF CallType
  <2>7. cut \/ (r.client # 0 => sent[r.client][r.stage] >= r.target)
    BY <1>9 DEF EventsFlushed, Drained
  <2> HIDE DEF r2
  <2>8. FlushInv(r2, captured, sent)
    BY <2>1, <2>4, <2>5, <2>6, <2>7, <1>0, Ungrown, FlushGoesOn
  <2>9. FlushesInv' /\ call' \in [Calls -> CallType]
    BY <2>2, <2>5, <2>8, <1>0, Ungrown, OneFlushChanged
  <2>10. LifecycleType'
    BY <2>2, <2>9, <1>0 DEF LifecycleType
  <2>11. ShutdownPending' => ShutdownPending
    <3>1. /\ \A d \in Calls \ {c} : call'[d] = call[d]
          /\ call'[c].kind = call[c].kind /\ call'[c].answer = call[c].answer
      BY <2>2, <2>6, <1>0 DEF LifecycleType
    <3> QED BY <3>1 DEF ShutdownPending, Awaiting
  <2>12. PollersInv'
    BY <2>2, <2>11, <1>0 DEF PollersInv
  <2> QED BY <2>9, <2>10, <2>12 DEF LifecycleInv
<1>10. ASSUME NEW c \in Calls, NEW cut \in BOOLEAN, SpansFlushed(c, cut)
       PROVE  LifecycleInv'
  <2> DEFINE r == call[c]
             r2 == [r EXCEPT !.stage = "idle", !.target = 0,
                             !.cut = @ \cup IF cut THEN {"spans"} ELSE {},
                             !.answer = IF Awaiting(c) THEN "done" ELSE @]
  <2>1. r \in CallType /\ FlushInv(r, captured, sent) /\ r.stage = "spans"
    BY <1>10, <1>0 DEF SpansFlushed, LifecycleType, FlushesInv
  <2>2. call' = [call EXCEPT ![c] = r2]
    BY <1>10, <1>0 DEF SpansFlushed, LifecycleType
  <2>3. r2 \in CallType
    BY <2>1 DEF CallType, Queues
  <2>4. /\ r2.kind = r.kind /\ r2.client = r.client /\ r2.owed = r.owed
        /\ r2.stage = "idle" /\ r2.cut = r.cut \cup IF cut THEN {"spans"} ELSE {}
        /\ r2.answer = IF Awaiting(c) THEN "done" ELSE r.answer
    BY <2>1 DEF CallType
  <2>5. cut \/ (r.client # 0 => sent[r.client][r.stage] >= r.target)
    BY <1>10 DEF SpansFlushed, Drained
  <2> HIDE DEF r2
  <2>6. FlushInv(r2, captured, sent)
    BY <2>1, <2>3, <2>4, <2>5, <1>0, Ungrown, FlushEnds
  <2>7. CASE Awaiting(c)
    <3>1. Answer(c) /\ r2.answer # "none"
      BY <1>10, <2>7, <2>4 DEF SpansFlushed
    <3> QED BY <2>2, <2>3, <2>6, <2>7, <3>1, AnsweredStep
  <2>8. CASE ~Awaiting(c)
    <3>1. UNCHANGED <<created, runtime, polling, captured, sent, registered,
                      terminating, exited, overlapped>>
      BY <1>10, <2>8 DEF SpansFlushed, clientVars, queueVars, handlerVars
    <3>2. FlushesInv' /\ call' \in [Calls -> CallType]
      BY <2>2, <2>3, <2>6, <3>1, <1>0, Ungrown, OneFlushChanged
    <3>3. LifecycleType'
      BY <3>1, <3>2, <1>0 DEF LifecycleType
    <3>4. ShutdownPending' => ShutdownPending
      <4>1. /\ \A d \in Calls \ {c} : call'[d] = call[d]
            /\ call'[c].kind = call[c].kind /\ call'[c].answer = call[c].answer
        BY <2>2, <2>4, <2>8, <1>0 DEF LifecycleType
      <4> QED BY <4>1 DEF ShutdownPending, Awaiting
    <3>5. PollersInv'
      BY <3>1, <3>4, <1>0 DEF PollersInv
    <3> QED BY <3>2, <3>3, <3>5 DEF LifecycleInv
  <2> QED BY <2>7, <2>8
<1>11. CASE UNCHANGED vars
  <2>1. UNCHANGED <<created, runtime, polling, captured, sent, registered,
                    terminating, call, exited, overlapped>>
    BY <1>11 DEF vars, clientVars, queueVars, handlerVars
  <2>2. LifecycleType'
    BY <2>1, <1>0 DEF LifecycleType
  <2>3. FlushesInv'
    BY <2>1, <1>0, Ungrown, FlushesKept
  <2>4. PollersInv'
    BY <2>1, <1>0 DEF PollersInv, ShutdownPending, Awaiting
  <2> QED BY <2>2, <2>3, <2>4 DEF LifecycleInv
<1> QED BY <1>1, <1>2, <1>3, <1>4, <1>5, <1>6, <1>7, <1>8, <1>9, <1>10, <1>11
        DEF Next

LEMMA LifecycleAlways == Spec => []LifecycleInv
BY LifecycleStarts, LifecycleStep, PTL DEF Spec

(* However many clients, calls and items: a flush(), shutdown() or crash   *)
(* that was answered before its deadline has sent all that was captured    *)
(* before it, of each queue whose own flushPending() was not cut short     *)
(* (stacktrace-client.ts:248-251).                                         *)
THEOREM FlushesDrain == Spec => []FlushDrains
<1>1. LifecycleInv => FlushDrains
  <2> SUFFICES ASSUME LifecycleInv, NEW c \in Calls, call[c].answer = "done",
                      call[c].client # 0, NEW q \in Queues \ call[c].cut
               PROVE  sent[call[c].client][q] >= call[c].owed[q]
    BY DEF FlushDrains
  <2>1. FlushInv(call[c], captured, sent)
    BY DEF LifecycleInv, FlushesInv
  <2> QED BY <2>1 DEF FlushInv
<1> QED BY <1>1, LifecycleAlways, PTL

(* As long as no init() came while a shutdown() was awaiting its flush,    *)
(* whoever was replaced polls no more (stacktrace-client.ts:254-256).      *)
THEOREM ReplacedClientsStop == Spec => []PreviousClientStoppedUnlessOverlap
<1>1. LifecycleInv => PreviousClientStoppedUnlessOverlap
  <2> SUFFICES ASSUME LifecycleInv, ~overlapped, NEW k \in Clients, k < created
               PROVE  ~polling[k]
    BY DEF PreviousClientStoppedUnlessOverlap
  <2>1. k # runtime
    BY DEF LifecycleInv, LifecycleType, PollersInv, Clients
  <2> QED BY <2>1 DEF LifecycleInv, PollersInv
<1> QED BY <1>1, LifecycleAlways, PTL
=============================================================================
