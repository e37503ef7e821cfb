--------------------------- MODULE DeliveryQueue ---------------------------
(***************************************************************************)
(* The batch-mode delivery queue of the SDK: EventQueue                    *)
(* (src/core/transport/event-queue.ts) and SpanQueue (span-queue.ts), the  *)
(* same state machine twice.                                               *)
(*                                                                         *)
(* JavaScript runs one job at a time, so an action is the code that runs   *)
(* between two awaits.  Items are numbered in the order in which enqueue() *)
(* accepted them.  push() appends and shift() / splice(0, n) remove from   *)
(* the front, so the array always holds the items removed + 1 .. accepted  *)
(* and two cursors say all there is to know about it.                      *)
(*                                                                         *)
(* The one call of the code that leaves it, deliver(chunk), answers with   *)
(* success, a permanent error or a retryable error, at any later time      *)
(* (src/core/transport/ingest-transport-error.ts classifies the errors).   *)
(* deliver() does not call the queue back before it returns its promise.   *)
(***************************************************************************)
EXTENDS Integers

CONSTANTS
  MaxBatch,     \* options.maxBatchSize
  MaxQueue,     \* options.maxQueueSize
  MaxAttempts,  \* options.maxDeliveryAttempts
  MaxItems,     \* bound: how many items the application ever enqueues
  Callers       \* bound: the calls of flushPending(), each made at most once

ASSUME QueueAssumption ==
  /\ MaxBatch \in Nat \ {0}
  /\ MaxQueue \in Nat \ {0}
  /\ MaxAttempts \in Nat \ {0}
  /\ MaxItems \in Nat

VARIABLES
  accepted,           \* items ever pushed
  removed,            \* items taken off the front by shift() or splice()
  phase,              \* where the flush that activeFlush names has got to
  drainAll,           \* currentDrainAll of the running pass
  passStart,          \* the pass's slice is passStart + 1 .. passEnd
  passEnd,
  delivered,          \* the pass's local `delivered`
  rerunRequested,
  drainAllRequested,
  backoff,            \* retryNotBefore > Date.now()
  headAttempts,
  interval,           \* intervalHandle # null
  retryTimer,         \* retryTimer # null
  (* History, read by the properties and by no guard. *)
  attempts,           \* attempts[i]: answered deliveries whose chunk held i
  acked,              \* items of chunks that deliver() accepted
  dropped,            \* items of chunks given up as permanent or exhausted
  evicted,            \* items removed by the overflow shift()
  call,               \* the flushPending() calls
  missed,             \* a flush request was lost and nothing makes up for it
  stopped             \* stop() was called

queueVars == <<accepted, removed>>
passVars  == <<phase, drainAll, passStart, passEnd, delivered>>
flagVars  == <<rerunRequested, drainAllRequested>>
retryVars == <<backoff, headAttempts>>
timerVars == <<interval, retryTimer>>
fateVars  == <<attempts, acked, dropped, evicted>>
auditVars == <<call, missed, stopped>>
vars == <<queueVars, passVars, flagVars, retryVars, timerVars, fateVars,
          auditVars>>

-----------------------------------------------------------------------------
QueueLength == accepted - removed

(* "idle": activeFlush is null.  "delivering": deliver(chunk) is awaited.  *)
(* "passDone": deliverQueued() has returned, the loop has not resumed.     *)
(* "resolved": the loop has returned, so the promise in activeFlush is     *)
(* resolved, and the finally block that clears activeFlush has yet to run. *)
Phases == {"idle", "delivering", "passDone", "resolved"}

Items == 1 .. accepted

Min2(a, b) == IF a <= b THEN a ELSE b

(* Mutant of ChunkEnd: the slice goes out in one batch. *)
ChunkEndWholeSlice == passEnd

(* The chunk handed to deliver(), and the number of its last item. *)
ChunkEnd == Min2(passStart + delivered + MaxBatch, passEnd)
Chunk == {i \in Items : passStart + delivered < i /\ i <= ChunkEnd}

(* A chunk follows position `from` of the slice: a full one, or in a drain *)
(* any that is not empty.                                                  *)
MoreChunks(from, end, drain) ==
  /\ from < end
  /\ drain \/ from + MaxBatch <= end

(* Calls still waiting when a pass is cut short by an error or a backoff.  *)
Interrupted(calls) ==
  [c \in Callers |-> IF calls[c].state = "waiting"
                     THEN [calls[c] EXCEPT !.cut = TRUE]
                     ELSE calls[c]]

(* Mutant of StartPass: deliverQueued() does not look at retryNotBefore. *)
StartPassInBackoff(drain, calls) ==
  /\ rerunRequested' = FALSE
  /\ drainAll' = drain
  /\ delivered' = 0
  /\ passStart' = removed' /\ passEnd' = accepted'
  /\ phase' = IF MoreChunks(passStart', passEnd', drain)
              THEN "delivering" ELSE "passDone"
  /\ call' = calls /\ missed' = FALSE

(* The head of one pass: the loop's rerunRequested = false and limit, then *)
(* deliverQueued() up to its first await.  The slice is taken from the     *)
(* queue as this step leaves it.  A pass that the backoff skips is missed  *)
(* unless a retry timer is armed.                                          *)
StartPass(drain, calls) ==
  /\ rerunRequested' = FALSE
  /\ drainAll' = drain
  /\ delivered' = 0
  /\ passStart' = removed'
  /\ passEnd' = IF backoff THEN removed' ELSE accepted'
  /\ phase' = IF MoreChunks(passStart', passEnd', drain)
              THEN "delivering" ELSE "passDone"
  /\ call' = IF backoff THEN Interrupted(calls) ELSE calls
  /\ missed' = (backoff /\ ~retryTimer')

(* Mutant of RunFlush: the last request overwrites the earlier ones. *)
RunFlushLastRequestWins(drain, calls) ==
  \/ /\ phase = "idle"
     /\ StartPass(drain, calls)
     /\ UNCHANGED drainAllRequested
  \/ /\ phase # "idle"
     /\ rerunRequested' = TRUE
     /\ drainAllRequested' = drain
     /\ call' = calls
     /\ missed' = (missed \/ phase = "resolved")
     /\ UNCHANGED passVars

(* runFlush(drain).  With a flush active it only leaves a request, which   *)
(* the loop reads when its pass is over: a loop that has already returned  *)
(* reads nothing.                                                          *)
RunFlush(drain, calls) ==
  \/ /\ phase = "idle"
     /\ StartPass(drain, calls)
     /\ UNCHANGED drainAllRequested
  \/ /\ phase # "idle"
     /\ rerunRequested' = TRUE
     /\ drainAllRequested' = (drainAllRequested \/ drain)
     /\ call' = calls
     /\ missed' = (missed \/ phase = "resolved")
     /\ UNCHANGED passVars

-----------------------------------------------------------------------------
(* Mutant of Enqueue: the cap is compared with > instead of >=. *)
EnqueueOverCap ==
  /\ accepted < MaxItems
  /\ accepted' = accepted + 1
  /\ IF QueueLength > MaxQueue
     THEN removed' = removed + 1 /\ evicted' = evicted \cup {removed + 1}
     ELSE UNCHANGED <<removed, evicted>>
  /\ interval' = TRUE
  /\ attempts' = [i \in 1 .. accepted + 1 |->
                    IF i \in Items THEN attempts[i] ELSE 0]
  /\ UNCHANGED <<retryVars, retryTimer, acked, dropped, stopped>>
  /\ RunFlush(FALSE, call)

(* enqueue(): drop the oldest item of a full queue, push, arm the          *)
(* interval, ask for a flush of the full batches.                          *)
Enqueue ==
  /\ accepted < MaxItems
  /\ accepted' = accepted + 1
  /\ IF QueueLength >= MaxQueue
     THEN removed' = removed + 1 /\ evicted' = evicted \cup {removed + 1}
     ELSE UNCHANGED <<removed, evicted>>
  /\ interval' = TRUE
  /\ attempts' = [i \in 1 .. accepted + 1 |->
                    IF i \in Items THEN attempts[i] ELSE 0]
  /\ UNCHANGED <<retryVars, retryTimer, acked, dropped, stopped>>
  /\ RunFlush(FALSE, call)

(* flushPending(), called by flush() and shutdown() of the client. *)
FlushPending(c) ==
  /\ call[c].state = "none"
  /\ UNCHANGED <<queueVars, retryVars, timerVars, fateVars, stopped>>
  /\ RunFlush(TRUE, [call EXCEPT ![c] = [state |-> "waiting",
                                         target |-> accepted,
                                         cut |-> FALSE,
                                         late |-> phase = "resolved"]])

(* Timers fire between macrotasks: never while the loop's continuation is  *)
(* a queued microtask.                                                     *)
TimersRun == phase \in {"idle", "delivering"}

(* Mutant of IntervalFires: the interval flushes full batches only. *)
IntervalFlushesFullBatches ==
  /\ interval /\ TimersRun
  /\ UNCHANGED <<queueVars, retryVars, timerVars, fateVars, stopped>>
  /\ RunFlush(FALSE, call)

IntervalFires ==
  /\ interval /\ TimersRun
  /\ UNCHANGED <<queueVars, retryVars, timerVars, fateVars, stopped>>
  /\ RunFlush(TRUE, call)

(* The retry timer and Date.now() are two clocks: the timer may fire while *)
(* Date.now() is still short of retryNotBefore, and its flush then sends   *)
(* nothing.                                                                *)
RetryTimerFires ==
  /\ retryTimer /\ TimersRun
  /\ retryTimer' = FALSE
  /\ UNCHANGED <<queueVars, retryVars, interval, fateVars, stopped>>
  /\ RunFlush(FALSE, call)

(* Mutant of BackoffExpires: the attempts are forgotten with the backoff. *)
BackoffForgetsAttempts ==
  /\ backoff
  /\ backoff' = FALSE /\ headAttempts' = 0
  /\ UNCHANGED <<queueVars, passVars, flagVars, timerVars, fateVars, auditVars>>

BackoffExpires ==
  /\ backoff
  /\ backoff' = FALSE
  /\ UNCHANGED <<queueVars, passVars, flagVars, headAttempts, timerVars,
                 fateVars, auditVars>>

(* The client's shutdown() and detachScheduling() stop the timers and      *)
(* nothing else: an active flush goes on.                                  *)
Stop ==
  /\ interval' = FALSE /\ retryTimer' = FALSE
  /\ stopped' = TRUE
  /\ missed' = (missed \/ retryTimer)
  /\ UNCHANGED <<queueVars, passVars, flagVars, retryVars, fateVars, call>>

-----------------------------------------------------------------------------
(* Mutant of EndPass: the whole slice is spliced. *)
EndPassCommitsSlice(count) ==
  /\ removed' = Min2(passEnd, accepted)
  /\ delivered' = count
  /\ phase' = "passDone"

(* The pass returns: splice(0, delivered), and the loop is to resume. *)
EndPass(count) ==
  /\ removed' = Min2(removed + count, accepted)
  /\ delivered' = count
  /\ phase' = "passDone"

(* The chunk is over, sent or given up: the next chunk or the end. *)
Advance ==
  LET done == ChunkEnd - passStart IN
  /\ IF MoreChunks(ChunkEnd, passEnd, drainAll)
     THEN delivered' = done /\ UNCHANGED <<phase, removed>>
     ELSE EndPass(done)
  /\ UNCHANGED <<accepted, drainAll, passStart, passEnd, flagVars>>

Answered ==
  /\ phase = "delivering"
  /\ attempts' = [i \in Items |-> IF i \in Chunk THEN attempts[i] + 1
                                  ELSE attempts[i]]
  /\ UNCHANGED <<interval, evicted, missed, stopped>>

DeliverySucceeds ==
  /\ Answered
  /\ acked' = acked \cup Chunk
  /\ backoff' = FALSE /\ headAttempts' = 0 /\ retryTimer' = FALSE
  /\ Advance
  /\ UNCHANGED <<dropped, call>>

(* A permanent error, or the last attempt of the head chunk: give it up.   *)
GiveUpChunk ==
  /\ dropped' = dropped \cup Chunk
  /\ headAttempts' = 0
  /\ Advance
  /\ UNCHANGED <<acked, backoff, retryTimer, call>>

DeliveryFailsPermanently == Answered /\ GiveUpChunk

(* Mutant of ScheduleRetry: an error rolls back the chunks already sent. *)
ScheduleRetryRollsBack ==
  /\ headAttempts' = headAttempts + 1
  /\ backoff' = TRUE /\ retryTimer' = TRUE
  /\ EndPass(0)
  /\ call' = Interrupted(call)
  /\ UNCHANGED <<accepted, drainAll, passStart, passEnd, flagVars, acked,
                 dropped>>

(* A retryable error short of the last attempt: the pass stops here, and   *)
(* scheduleRetry() sets the backoff and (re)arms its timer.                *)
ScheduleRetry ==
  /\ headAttempts' = headAttempts + 1
  /\ backoff' = TRUE /\ retryTimer' = TRUE
  /\ EndPass(delivered)
  /\ call' = Interrupted(call)
  /\ UNCHANGED <<accepted, drainAll, passStart, passEnd, flagVars, acked,
                 dropped>>

DeliveryFails ==
  /\ Answered
  /\ IF headAttempts + 1 >= MaxAttempts THEN GiveUpChunk ELSE ScheduleRetry

(* Mutant of LoopReturns: only a drain request keeps the loop going. *)
LoopReturnsDespiteRerun ==
  /\ phase = "passDone"
  /\ ~drainAllRequested
  /\ phase' = "resolved"
  /\ UNCHANGED <<queueVars, drainAll, passStart, passEnd, delivered, flagVars,
                 retryVars, timerVars, fateVars, auditVars>>

(* The loop resumes after a pass: run another one or return. *)
LoopReturns ==
  /\ phase = "passDone"
  /\ ~drainAllRequested
  /\ ~rerunRequested \/ (delivered = 0 /\ QueueLength < MaxBatch)
  /\ phase' = "resolved"
  /\ UNCHANGED <<queueVars, drainAll, passStart, passEnd, delivered, flagVars,
                 retryVars, timerVars, fateVars, auditVars>>

LoopRepeats ==
  /\ phase = "passDone"
  /\ \/ drainAllRequested
     \/ rerunRequested /\ (delivered > 0 \/ QueueLength >= MaxBatch)
  /\ drainAllRequested' = FALSE
  /\ UNCHANGED <<queueVars, retryVars, timerVars, fateVars, stopped>>
  /\ StartPass(drainAllRequested, call)

(* The finally block of runFlush() clears activeFlush; whoever awaited the *)
(* flush resumes, and the locals of the finished pass are gone.            *)
FlushReturns ==
  /\ phase = "resolved"
  /\ phase' = "idle"
  /\ drainAll' = FALSE /\ passStart' = 0 /\ passEnd' = 0 /\ delivered' = 0
  /\ call' = [c \in Callers |-> IF call[c].state = "waiting"
                                THEN [call[c] EXCEPT !.state = "returned"]
                                ELSE call[c]]
  /\ UNCHANGED <<queueVars, flagVars, retryVars, timerVars, fateVars, missed,
                 stopped>>

-----------------------------------------------------------------------------
Init ==
  /\ accepted = 0 /\ removed = 0
  /\ phase = "idle" /\ drainAll = FALSE
  /\ passStart = 0 /\ passEnd = 0 /\ delivered = 0
  /\ rerunRequested = FALSE /\ drainAllRequested = FALSE
  /\ backoff = FALSE /\ headAttempts = 0
  /\ interval = FALSE /\ retryTimer = FALSE
  /\ attempts = [i \in 1 .. 0 |-> 0]
  /\ acked = {} /\ dropped = {} /\ evicted = {}
  /\ call = [c \in Callers |->
               [state |-> "none", target |-> 0, cut |-> FALSE, late |-> FALSE]]
  /\ missed = FALSE /\ stopped = FALSE

DeliveryAnswers ==
  DeliverySucceeds \/ DeliveryFailsPermanently \/ DeliveryFails

Next ==
  \/ Enqueue
  \/ \E c \in Callers : FlushPending(c)
  \/ IntervalFires
  \/ RetryTimerFires
  \/ BackoffExpires
  \/ Stop
  \/ DeliverySucceeds
  \/ DeliveryFailsPermanently
  \/ DeliveryFails
  \/ LoopReturns
  \/ LoopRepeats
  \/ FlushReturns

Spec == Init /\ [][Next]_vars

(* The event loop runs every queued microtask and every armed timer, time  *)
(* passes, and deliver() settles: the default transport aborts its request *)
(* after 10 seconds (default-fetch-transport.ts).  Nothing obliges the     *)
(* application to enqueue, flush or stop.                                  *)
Fairness ==
  /\ WF_vars(LoopReturns \/ LoopRepeats)
  /\ WF_vars(FlushReturns)
  /\ WF_vars(DeliveryAnswers)
  /\ WF_vars(IntervalFires)
  /\ WF_vars(RetryTimerFires)
  /\ WF_vars(BackoffExpires)

FairSpec == Spec /\ Fairness

-----------------------------------------------------------------------------
FlushCall == [state : {"none", "waiting", "returned"}, target : Nat,
              cut : BOOLEAN, late : BOOLEAN]

(* The types, and the two bounds the constructor options promise: the      *)
(* queue never exceeds maxQueueSize and the head chunk's count of failed   *)
(* attempts never reaches maxDeliveryAttempts.                             *)
QueueTypes ==
  /\ accepted \in Nat /\ removed \in 0 .. accepted
  /\ QueueLength <= MaxQueue
PassTypes ==
  /\ phase \in Phases /\ drainAll \in BOOLEAN
  /\ passStart \in Nat /\ passEnd \in Nat /\ delivered \in Nat
  /\ rerunRequested \in BOOLEAN /\ drainAllRequested \in BOOLEAN
RetryTypes ==
  /\ backoff \in BOOLEAN /\ headAttempts \in 0 .. MaxAttempts - 1
  /\ interval \in BOOLEAN /\ retryTimer \in BOOLEAN
FateTypes ==
  /\ attempts \in [Items -> Nat]
  /\ acked \subseteq Items /\ dropped \subseteq Items
  /\ evicted \subseteq Items
AuditTypes ==
  /\ call \in [Callers -> FlushCall]
  /\ missed \in BOOLEAN /\ stopped \in BOOLEAN
TypeOK == QueueTypes /\ PassTypes /\ RetryTypes /\ FateTypes /\ AuditTypes

(* No item is handed to deliver() more than maxDeliveryAttempts times, so  *)
(* no batch, however often it fails, blocks the queue: although the count  *)
(* is kept for "the head chunk" while chunks grow, drop out and are        *)
(* shifted by overflow (event-queue.ts:191-197, doc at :31-33).            *)
AttemptsBounded == \A i \in Items : attempts[i] <= MaxAttempts

(* Batches go out in order and once: the chunk on the wire is younger than *)
(* everything already delivered or given up (event-queue.ts:34-35, :69).   *)
DeliversForward ==
  phase = "delivering" =>
    \A i \in acked \cup dropped, j \in Chunk : i < j

(* The delay that scheduleRetry() chose is honoured: nothing is on the     *)
(* wire before retryNotBefore, whoever asks for a flush                    *)
(* (event-queue.ts:174).                                                   *)
BackoffHonoured == phase = "delivering" => ~backoff

(* An item leaves the queue only once it is delivered, given up, or        *)
(* evicted as the oldest of a full queue (event-queue.ts:169-170).         *)
RemovedOnlyWhenSettled ==
  \A i \in 1 .. removed : i \in acked \cup dropped \cup evicted

(* A flushPending() that was not cut short by an error or a backoff        *)
(* returns with everything enqueued before it gone from the queue          *)
(* (event-queue.ts:69-70) ...                                              *)
FlushPendingDrains ==
  \A c \in Callers :
    call[c].state = "returned" /\ ~call[c].cut => removed >= call[c].target

(* ... if the call did not come in the gap between the return of the loop  *)
(* and the finally block that clears activeFlush (event-queue.ts:131-146). *)
PunctualFlushPendingDrains ==
  \A c \in Callers :
    call[c].state = "returned" /\ ~call[c].cut /\ ~call[c].late
      => removed >= call[c].target

(* While nothing is in flight and no retry is due, no full batch waits     *)
(* (span-queue.ts:51-53), unless the request that was to send it was lost: *)
(* it came in that same gap, the backoff outlived the retry timer, or      *)
(* stop() cancelled it.                                                    *)
NoStrandedBatchUnlessMissed ==
  phase = "idle" /\ ~retryTimer /\ ~missed => QueueLength < MaxBatch

(* Every accepted item leaves the queue, whatever the transport answers    *)
(* and whenever the application flushes, unless the timers were stopped.   *)
EveryItemLeaves ==
  \A i \in 1 .. MaxItems : accepted >= i ~> (removed >= i \/ stopped)

(* Read as a reliable queue: an item is settled as soon as deliver() has   *)
(* answered for its chunk and the pass has moved on, although it leaves    *)
(* the array only at the end of the pass.                                  *)
Front == IF phase = "delivering" THEN passStart + delivered ELSE removed

Reliable == INSTANCE ReliableQueue WITH settled <- Front

(* Below its capacity the queue implements ReliableQueue: nothing is lost, *)
(* reordered or settled twice (event-queue.ts:30-35).                      *)
ImplementsReliableQueue == Reliable!Spec
=============================================================================
