-------------------------- MODULE ClientLifecycle --------------------------
(***************************************************************************)
(* The singleton client of the SDK: init(), flush() and shutdown() of      *)
(* src/index.ts, the current client of src/core/client-ref.ts, the part of *)
(* StackTraceClient (src/core/stacktrace-client.ts) that starts, drains    *)
(* and stops a client, and the handlers of src/core/global-handlers.ts     *)
(* that crash the process after a last flush.                              *)
(*                                                                         *)
(* Clients are numbered in the order of their init().  The two queues of a *)
(* client are read as what DeliveryQueue shows of them: items go out in    *)
(* order, and flushPending() returns once what was there is gone, or early *)
(* (an error, a backoff, or a request lost: FlushPendingDrains fails).     *)
(***************************************************************************)
EXTENDS Integers, FiniteSetsExt

CONSTANTS
  MaxClients,  \* bound: the calls of init()
  MaxItems,    \* bound: the items ever captured
  Calls        \* bound: calls of flush() and shutdown(), and crashes

ASSUME LifecycleAssumption == MaxClients \in Nat \ {0} /\ MaxItems \in Nat

VARIABLES
  created,      \* clients constructed
  runtime,      \* getSdkRuntime().client, or 0 for null
  polling,      \* polling[k]: client k's CapturePolicyCache is started
  captured,     \* captured[k][q]: items ever enqueued in queue q of client k
  sent,         \* sent[k][q]: those that have left it
  registered,   \* the global handlers are installed
  terminating,  \* their closure's `terminating`
  call,         \* the calls that await a client.flush()
  exited,       \* terminate() was called
  overlapped    \* history: an init() ran while a shutdown() was awaiting

clientVars  == <<created, runtime, polling>>
queueVars   == <<captured, sent>>
handlerVars == <<registered, terminating>>
vars == <<clientVars, queueVars, handlerVars, call, exited, overlapped>>

-----------------------------------------------------------------------------
Clients == 1 .. MaxClients
Queues == {"events", "spans"}

ItemsLeft ==
  MaxItems > MapThenSumSet(LAMBDA kq : captured[kq[1]][kq[2]], Clients \X Queues)

(* The call's kind and client; the flushPending() it awaits and what that  *)
(* one has to drain; whether the caller has been answered, because the     *)
(* work was over ("done") or the deadline passed ("late"); and, for the    *)
(* properties, what it owes its caller (all that was captured before the   *)
(* call, nothing if late) and which of the two flushPending() returned     *)
(* early.                                                                  *)
NoCall == [kind |-> "none", client |-> 0, stage |-> "idle", target |-> 0,
           answer |-> "none", owed |-> [q \in Queues |-> 0], cut |-> {}]

Awaiting(c) == call[c].kind # "none" /\ call[c].answer = "none"

ShutdownPending == \E c \in Calls : Awaiting(c) /\ call[c].kind = "shutdown"

(* client.flush() up to its first await: queue.flushPending() is called.   *)
(* `items` is what the client's queues hold by then.                       *)
StartFlush(c, kind, k, items) ==
  /\ call[c].kind = "none"
  /\ call' = [call EXCEPT ![c] =
       [kind |-> kind, client |-> k, stage |-> "events",
        target |-> items.events, answer |-> "none", owed |-> items,
        cut |-> {}]]

(* Mutant of StartClient: the previous client is not detached. *)
StartClientKeepsPrevious(handlers) ==
  /\ ~exited /\ created < MaxClients
  /\ created' = created + 1 /\ runtime' = created + 1
  /\ polling' = [polling EXCEPT ![created + 1] = TRUE]
  /\ registered' = (registered \/ handlers)
  /\ terminating' = (terminating /\ registered)
  /\ overlapped' = (overlapped \/ ShutdownPending)
  /\ UNCHANGED <<queueVars, call, exited>>

(* init() with a valid configuration: detach the previous client, start    *)
(* the next one, install the global handlers unless they already are.      *)
(* With an invalid one, or the kill switch, nothing here changes.          *)
StartClient(handlers) ==
  /\ ~exited /\ created < MaxClients
  /\ created' = created + 1 /\ runtime' = created + 1
  /\ polling' = [k \in Clients |-> k = created + 1 \/ (polling[k] /\ k # runtime)]
  /\ registered' = (registered \/ handlers)
  /\ terminating' = (terminating /\ registered)
  /\ overlapped' = (overlapped \/ ShutdownPending)
  /\ UNCHANGED <<queueVars, call, exited>>

(* An event or a span of the application, while there is a client. *)
Capture(q) ==
  /\ ~exited /\ runtime # 0 /\ ItemsLeft
  /\ captured' = [captured EXCEPT ![runtime][q] = @ + 1]
  /\ UNCHANGED <<clientVars, sent, handlerVars, call, exited, overlapped>>

(* A queue, attached or not, gets rid of its oldest item. *)
Deliver(k, q) ==
  /\ ~exited /\ sent[k][q] < captured[k][q]
  /\ sent' = [sent EXCEPT ![k][q] = @ + 1]
  /\ UNCHANGED <<clientVars, captured, handlerVars, call, exited, overlapped>>

(* flush() and shutdown() of the package.  Without a client both return at *)
(* once, and shutdown() has removed the handlers nevertheless.             *)
Flush(c) ==
  /\ ~exited /\ runtime # 0
  /\ StartFlush(c, "flush", runtime, captured[runtime])
  /\ UNCHANGED <<clientVars, queueVars, handlerVars, exited, overlapped>>

ShutdownWithoutClient ==
  /\ ~exited /\ runtime = 0
  /\ registered' = FALSE /\ UNCHANGED terminating
  /\ UNCHANGED <<clientVars, queueVars, call, exited, overlapped>>

Shutdown(c) ==
  /\ ~exited /\ runtime # 0
  /\ registered' = FALSE /\ UNCHANGED terminating
  /\ polling' = [polling EXCEPT ![runtime] = FALSE]
  /\ StartFlush(c, "shutdown", runtime, captured[runtime])
  /\ UNCHANGED <<created, runtime, queueVars, exited, overlapped>>

(* The application throws and the SDK's is the only listener: capture the  *)
(* error, then, the first time, flush and terminate.  (With a listener of  *)
(* the host the handler captures and flushes in the background: that is    *)
(* Capture("events"), and Deliver, which may happen at any time.)          *)
Crash(c) ==
  /\ ~exited /\ registered
  /\ captured' = IF runtime # 0 /\ ItemsLeft
                 THEN [captured EXCEPT ![runtime]["events"] = @ + 1]
                 ELSE captured
  /\ IF terminating
     THEN UNCHANGED <<call, terminating>>
     ELSE /\ terminating' = TRUE
          /\ StartFlush(c, "crash", runtime,
                        IF runtime = 0 THEN [q \in Queues |-> 0]
                        ELSE captured'[runtime])
  /\ UNCHANGED <<clientVars, sent, registered, exited, overlapped>>

-----------------------------------------------------------------------------
(* The caller resumes: shutdown() then forgets the current client, whoever *)
(* that is by now, and a crash terminates the process.                     *)
Answer(c) ==
  /\ runtime' = IF call[c].kind = "shutdown" THEN 0 ELSE runtime
  /\ exited' = (call[c].kind = "crash")
  /\ UNCHANGED <<created, polling, queueVars, handlerVars, overlapped>>

(* Without a client the crash handler's flush resolves at once. *)
Drained(c) ==
  LET k == call[c].client IN
  k # 0 => sent[k][call[c].stage] >= call[c].target

(* Mutant of EventsFlushed: an early return of the first ends the flush. *)
EventsCutEndsFlush(c, cut) ==
  /\ ~exited /\ call[c].stage = "events"
  /\ cut \/ Drained(c)
  /\ call' = [call EXCEPT ![c].stage = IF cut THEN "idle" ELSE "spans",
                ![c].cut = IF cut THEN {"events"} ELSE {},
                ![c].target = IF call[c].client = 0 THEN 0
                              ELSE captured[call[c].client]["spans"],
                ![c].answer = IF cut /\ Awaiting(c) THEN "done" ELSE @]
  /\ IF cut /\ Awaiting(c)
     THEN Answer(c)
     ELSE UNCHANGED <<clientVars, queueVars, handlerVars, exited, overlapped>>

(* queue.flushPending() returns, drained or early, and                     *)
(* spanQueue.flushPending() is called.                                     *)
EventsFlushed(c, cut) ==
  /\ ~exited /\ call[c].stage = "events"
  /\ cut \/ Drained(c)
  /\ call' = [call EXCEPT ![c].stage = "spans",
                ![c].cut = IF cut THEN {"events"} ELSE {},
                ![c].target = IF call[c].client = 0 THEN 0
                              ELSE captured[call[c].client]["spans"]]
  /\ UNCHANGED <<clientVars, queueVars, handlerVars, exited, overlapped>>

(* The flush is over: whoever still waits for it is answered. *)
SpansFlushed(c, cut) ==
  /\ ~exited /\ call[c].stage = "spans"
  /\ cut \/ Drained(c)
  /\ call' = [call EXCEPT ![c].stage = "idle", ![c].target = 0,
                ![c].cut = @ \cup IF cut THEN {"spans"} ELSE {},
                ![c].answer = IF Awaiting(c) THEN "done" ELSE @]
  /\ IF Awaiting(c)
     THEN Answer(c)
     ELSE UNCHANGED <<clientVars, queueVars, handlerVars, exited, overlapped>>

(* Mutant of DeadlinePasses: a crash waits for its flush without limit. *)
DeadlineSparesCrash(c) ==
  /\ ~exited /\ Awaiting(c) /\ call[c].kind # "crash"
  /\ call' = [call EXCEPT ![c].answer = "late",
                ![c].owed = [q \in Queues |-> 0]]
  /\ Answer(c)

(* 5 seconds for flush() and shutdown(), 2 seconds for a crash: the caller *)
(* is answered, the flush goes on behind its back.                         *)
DeadlinePasses(c) ==
  /\ ~exited /\ Awaiting(c)
  /\ call' = [call EXCEPT ![c].answer = "late",
                ![c].owed = [q \in Queues |-> 0]]
  /\ Answer(c)

-----------------------------------------------------------------------------
Init ==
  /\ created = 0 /\ runtime = 0
  /\ polling = [k \in Clients |-> FALSE]
  /\ captured = [k \in Clients |-> [q \in Queues |-> 0]]
  /\ sent = [k \in Clients |-> [q \in Queues |-> 0]]
  /\ registered = FALSE /\ terminating = FALSE
  /\ call = [c \in Calls |-> NoCall]
  /\ exited = FALSE /\ overlapped = FALSE

Next ==
  \/ \E handlers \in BOOLEAN : StartClient(handlers)
  \/ \E q \in Queues : Capture(q) \/ \E k \in Clients : Deliver(k, q)
  \/ ShutdownWithoutClient
  \/ \E c \in Calls :
       \/ Flush(c) \/ Shutdown(c) \/ Crash(c) \/ DeadlinePasses(c)
       \/ \E cut \in BOOLEAN : EventsFlushed(c, cut) \/ SpansFlushed(c, cut)

Spec == Init /\ [][Next]_vars

(* Only the deadlines are fair: they are timers of the SDK itself, and     *)
(* nothing is assumed of the transport.                                    *)
FairSpec == Spec /\ \A c \in Calls : WF_vars(DeadlinePasses(c))

-----------------------------------------------------------------------------
(* A flush(), shutdown() or crash that was answered before its deadline    *)
(* has sent both the events and the spans captured before it, the crash's  *)
(* own event included, even if init() has replaced the client meanwhile    *)
(* (README.md:152, stacktrace-client.ts:248-251): each queue whose own     *)
(* flushPending() did not return early, whatever became of the other.      *)
FlushDrains ==
  \A c \in Calls :
    call[c].answer = "done" /\ call[c].client # 0 =>
      \A q \in Queues \ call[c].cut :
        sent[call[c].client][q] >= call[c].owed[q]

(* A client that an init() came after polls no more                        *)
(* (stacktrace-client.ts:254-256, index.ts:60), if no init() came while a  *)
(* shutdown() was awaiting its flush: that shutdown() then forgets the new *)
(* client (index.ts:190-191), and neither a later shutdown() nor a later   *)
(* init() can stop it.                                                     *)
PreviousClientStoppedUnlessOverlap ==
  ~overlapped => \A k \in Clients : k < created => ~polling[k]

(* However the transport behaves, and whatever init() and shutdown() do    *)
(* meanwhile, a crash ends the process (global-handlers.ts:41-51) and      *)
(* flush() and shutdown() return (index.ts:38-41).                         *)
CallsEnd ==
  \A c \in Calls :
    call[c].kind # "none" ~>
      exited \/ (call[c].kind # "crash" /\ call[c].answer # "none")
=============================================================================
