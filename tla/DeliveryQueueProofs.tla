------------------------ MODULE DeliveryQueueProofs ------------------------
(***************************************************************************)
(* Theorems about DeliveryQueue for every batch size, capacity, attempt    *)
(* limit, number of items and set of flushPending() calls.                 *)
(***************************************************************************)
EXTENDS DeliveryQueue, TLAPS

-----------------------------------------------------------------------------
(* The shape of a pass in flight: its slice lies inside what was accepted, *)
(* the queue's front has not fallen behind the slice, there is a chunk to  *)
(* be on the wire, and no backoff is in force.                             *)
PassShape ==
  phase = "delivering" =>
    /\ passStart <= removed
    /\ passEnd <= accepted
    /\ MoreChunks(passStart + delivered, passEnd, drainAll)
    /\ ~backoff

ShapeInv == TypeOK /\ PassShape

LEMMA ChunkBounds ==
  ASSUME PassTypes, PassShape, phase = "delivering"
  PROVE  /\ ChunkEnd \in Nat
         /\ passStart + delivered < ChunkEnd
         /\ ChunkEnd <= passEnd
         /\ ChunkEnd <= passStart + delivered + MaxBatch
         /\ ChunkEnd = passEnd \/ ChunkEnd = passStart + delivered + MaxBatch
         /\ Chunk \subseteq Items
BY QueueAssumption
DEF PassTypes, PassShape, MoreChunks, ChunkEnd, Min2, Chunk

LEMMA NoAttempts == 0 \in 0 .. MaxAttempts - 1
BY QueueAssumption

LEMMA ShapeInit == Init => ShapeInv
<1> SUFFICES ASSUME Init PROVE ShapeInv
  OBVIOUS
<1>1. QueueTypes
  BY QueueAssumption DEF Init, QueueTypes, QueueLength
<1>4. RetryTypes
  BY NoAttempts DEF Init, RetryTypes
<1>2. attempts \in [Items -> Nat]
  BY DEF Init, Items
<1>3. call \in [Callers -> FlushCall]
  BY DEF Init, FlushCall
<1> QED BY <1>1, <1>2, <1>3, <1>4
        DEF Init, ShapeInv, TypeOK, PassTypes, FateTypes, AuditTypes,
            PassShape, Phases

LEMMA StartPassShape ==
  ASSUME NEW drain \in BOOLEAN, NEW calls \in [Callers -> FlushCall],
         NEW r \in Nat, NEW a \in Nat, r <= a, removed' = r, accepted' = a,
         backoff \in BOOLEAN, backoff' = backoff, retryTimer' \in BOOLEAN,
         drainAllRequested' \in BOOLEAN,
         StartPass(drain, calls)
  PROVE  /\ PassTypes' /\ PassShape'
         /\ call' \in [Callers -> FlushCall] /\ missed' \in BOOLEAN
<1>1. call' \in [Callers -> FlushCall] /\ missed' \in BOOLEAN
  BY DEF StartPass, Interrupted, FlushCall
<1>2. /\ delivered' = 0 /\ passStart' = r
      /\ passEnd' = IF backoff THEN r ELSE a
      /\ drainAll' = drain /\ rerunRequested' = FALSE
      /\ phase' = IF MoreChunks(passStart', passEnd', drain)
                  THEN "delivering" ELSE "passDone"
  BY DEF StartPass
<1>3. PassTypes'
  BY <1>2 DEF PassTypes, Phases
<1>4. PassShape'
  <2> SUFFICES ASSUME phase' = "delivering" PROVE PassShape'
    BY DEF PassShape
  <2>1. MoreChunks(passStart', passEnd', drain)
    BY <1>2
  <2>2. ~backoff
    BY <1>2, <2>1 DEF MoreChunks
  <2>3. passEnd' = a /\ ~backoff'
    BY <1>2, <2>2
  <2>4. MoreChunks(passStart + delivered, passEnd, drainAll)'
    BY <1>2, <2>1, <2>3, QueueAssumption DEF MoreChunks
  <2> QED BY <1>2, <2>3, <2>4 DEF PassShape
<1> QED BY <1>1, <1>3, <1>4

LEMMA RunFlushShape ==
  ASSUME NEW drain \in BOOLEAN, NEW calls \in [Callers -> FlushCall],
         ShapeInv,
         NEW r \in Nat, NEW a \in Nat, r <= a, removed' = r, accepted' = a,
         removed <= r, accepted <= a,
         backoff' = backoff, retryTimer' \in BOOLEAN,
         RunFlush(drain, calls)
  PROVE  /\ PassTypes' /\ PassShape'
         /\ call' \in [Callers -> FlushCall] /\ missed' \in BOOLEAN
<1> USE DEF ShapeInv, TypeOK, PassTypes, RetryTypes, AuditTypes
<1>1. CASE phase = "idle"
  <2>1. StartPass(drain, calls) /\ drainAllRequested' \in BOOLEAN
    BY <1>1 DEF RunFlush
  <2> QED BY <2>1, StartPassShape
<1>2. CASE phase # "idle"
  <2>1. /\ UNCHANGED passVars
        /\ rerunRequested' = TRUE
        /\ drainAllRequested' = (drainAllRequested \/ drain)
        /\ call' = calls
        /\ missed' = (missed \/ phase = "resolved")
    BY <1>2 DEF RunFlush
  <2>2. PassTypes' /\ missed' \in BOOLEAN
    BY <2>1 DEF passVars
  <2>3. PassShape'
    BY <2>1, QueueAssumption DEF PassShape, MoreChunks, passVars, QueueTypes
  <2> QED BY <2>1, <2>2, <2>3
<1> QED BY <1>1, <1>2

LEMMA KeptQueue ==
  ASSUME QueueTypes
  PROVE  /\ removed \in Nat /\ accepted \in Nat
         /\ removed <= accepted /\ removed <= removed /\ accepted <= accepted
BY DEF QueueTypes

LEMMA EndPassShape ==
  ASSUME QueueTypes, NEW count \in Nat, EndPass(count), accepted' = accepted
  PROVE  /\ QueueTypes'
         /\ removed' = removed + count \/ removed' = accepted
         /\ removed <= removed'
<1>1. CASE removed + count <= accepted
  <2>1. removed' = removed + count
    BY <1>1 DEF EndPass, Min2
  <2> QED BY <1>1, <2>1, QueueAssumption DEF QueueTypes, QueueLength
<1>2. CASE ~(removed + count <= accepted)
  <2>1. removed' = accepted
    BY <1>2 DEF EndPass, Min2
  <2>2. accepted - accepted = 0 /\ 0 <= MaxQueue
    BY QueueAssumption DEF QueueTypes
  <2>3. QueueLength' = accepted - accepted
    BY <2>1 DEF QueueLength
  <2>4. QueueTypes'
    BY <2>1, <2>2, <2>3 DEF QueueTypes
  <2>5. removed <= accepted
    BY DEF QueueTypes
  <2> QED BY <2>1, <2>4, <2>5
<1> QED BY <1>1, <1>2

LEMMA AdvanceShape ==
  ASSUME ShapeInv, phase = "delivering", Advance, backoff' = FALSE
  PROVE  QueueTypes' /\ PassTypes' /\ PassShape' /\ accepted' = accepted
<1> USE DEF ShapeInv, TypeOK, PassTypes
<1>1. ChunkEnd \in Nat /\ passStart < ChunkEnd /\ ChunkEnd <= passEnd
  BY ChunkBounds
<1> DEFINE done == ChunkEnd - passStart
<1>2. done \in Nat /\ passStart + done = ChunkEnd
  BY <1>1
<1>3. UNCHANGED <<accepted, drainAll, passStart, passEnd, rerunRequested,
                  drainAllRequested>>
  BY DEF Advance, flagVars
<1>4. CASE MoreChunks(ChunkEnd, passEnd, drainAll)
  <2>1. delivered' = done /\ UNCHANGED <<phase, removed>>
    BY <1>4 DEF Advance
  <2>2. PassTypes'
    BY <1>2, <1>3, <2>1
  <2>3. (passStart + delivered)' = ChunkEnd
    BY <1>2, <1>3, <2>1
  <2> HIDE DEF done
  <2>4. PassShape'
    BY <1>3, <1>4, <2>1, <2>3 DEF PassShape, MoreChunks, QueueTypes
  <2> QED BY <1>3, <2>1, <2>2, <2>4 DEF QueueTypes, QueueLength
<1>5. CASE ~MoreChunks(ChunkEnd, passEnd, drainAll)
  <2>1. EndPass(done)
    BY <1>5 DEF Advance
  <2> HIDE DEF done
  <2>2. PassTypes' /\ PassShape'
    BY <1>2, <1>3, <2>1 DEF EndPass, Phases, PassShape
  <2> QED BY <1>2, <1>3, <2>1, <2>2, EndPassShape
<1> QED BY <1>4, <1>5

LEMMA AnsweredTypes ==
  ASSUME ShapeInv, Answered, accepted' = accepted
  PROVE  attempts' \in [Items' -> Nat] /\ Chunk \subseteq Items
<1>1. Chunk \subseteq Items
  BY ChunkBounds DEF Answered, ShapeInv, TypeOK
<1> QED BY <1>1 DEF ShapeInv, TypeOK, FateTypes, QueueTypes, Answered, Items

LEMMA ShapeStep == ShapeInv /\ [Next]_vars => ShapeInv'
<1> SUFFICES ASSUME ShapeInv, [Next]_vars PROVE ShapeInv'
  OBVIOUS
<1> USE DEF ShapeInv, TypeOK
<1>1. CASE Enqueue
  <2> DEFINE r == IF QueueLength >= MaxQueue THEN removed + 1 ELSE removed
             a == accepted + 1
  <2>1. /\ r \in Nat /\ a \in Nat /\ r <= a /\ removed <= r /\ accepted <= a
        /\ a - r <= MaxQueue
    BY QueueAssumption DEF QueueTypes, QueueLength
  <2>2. removed' = r /\ accepted' = a
    BY <1>1 DEF Enqueue
  <2>3. /\ UNCHANGED <<retryVars, retryTimer, acked, dropped, stopped>>
        /\ interval' = TRUE /\ RunFlush(FALSE, call)
    BY <1>1 DEF Enqueue
  <2>4. FateTypes'
    <3>1. attempts' \in [1 .. a -> Nat]
      BY <1>1 DEF Enqueue, FateTypes
    <3>2. evicted' \subseteq 1 .. a
      <4>1. evicted \subseteq 1 .. a
        BY DEF FateTypes, QueueTypes, Items
      <4>2. removed + 1 \in 1 .. a
        BY DEF QueueTypes
      <4>3. evicted' \subseteq evicted \cup {removed + 1}
        BY <1>1 DEF Enqueue
      <4> QED BY <4>1, <4>2, <4>3
    <3>3. Items \subseteq 1 .. a
      BY DEF Items, QueueTypes
    <3> QED BY <2>2, <2>3, <3>1, <3>2, <3>3 DEF FateTypes, Items
  <2> HIDE DEF r, a
  <2>5. /\ PassTypes' /\ PassShape'
        /\ call' \in [Callers -> FlushCall] /\ missed' \in BOOLEAN
    BY <2>1, <2>2, <2>3, RunFlushShape DEF RetryTypes, AuditTypes, retryVars
  <2>6. QueueTypes'
    BY <2>1, <2>2 DEF QueueTypes, QueueLength
  <2> QED
    BY <2>3, <2>4, <2>5, <2>6 DEF RetryTypes, AuditTypes, retryVars
<1>2. ASSUME NEW c \in Callers, FlushPending(c) PROVE ShapeInv'
  <2> DEFINE calls == [call EXCEPT ![c] = [state |-> "waiting",
                                         target |-> accepted,
                                         cut |-> FALSE,
                                         late |-> phase = "resolved"]]
  <2>1. calls \in [Callers -> FlushCall]
    BY DEF AuditTypes, FlushCall, QueueTypes
  <2>2. RunFlush(TRUE, calls)
        /\ UNCHANGED <<queueVars, retryVars, timerVars, fateVars, stopped>>
    BY <1>2 DEF FlushPending
  <2> HIDE DEF calls
  <2>3. /\ PassTypes' /\ PassShape'
        /\ call' \in [Callers -> FlushCall] /\ missed' \in BOOLEAN
    <3>1. UNCHANGED <<accepted, removed, backoff, retryTimer>>
      BY <2>2 DEF queueVars, retryVars, timerVars
    <3> QED BY <2>1, <2>2, <3>1, KeptQueue, RunFlushShape DEF RetryTypes
  <2> QED
    BY <2>2, <2>3
    DEF QueueTypes, RetryTypes, FateTypes, AuditTypes, Items, QueueLength,
        queueVars, retryVars, timerVars, fateVars
<1>3. CASE IntervalFires
  <2>1. /\ PassTypes' /\ PassShape'
        /\ call' \in [Callers -> FlushCall] /\ missed' \in BOOLEAN
    <3>1. /\ UNCHANGED <<accepted, removed, backoff, retryTimer>>
          /\ RunFlush(TRUE, call)
      BY <1>3 DEF IntervalFires, queueVars, retryVars, timerVars
    <3> QED BY <3>1, KeptQueue, RunFlushShape DEF RetryTypes, AuditTypes
  <2> QED
    BY <1>3, <2>1
    DEF IntervalFires, QueueTypes, RetryTypes, FateTypes, AuditTypes, Items,
        QueueLength, queueVars, retryVars, timerVars, fateVars
<1>4. CASE RetryTimerFires
  <2>1. /\ PassTypes' /\ PassShape'
        /\ call' \in [Callers -> FlushCall] /\ missed' \in BOOLEAN
    <3>1. /\ UNCHANGED <<accepted, removed, backoff>> /\ retryTimer' = FALSE
          /\ RunFlush(FALSE, call)
      BY <1>4 DEF RetryTimerFires, queueVars, retryVars
    <3> QED BY <3>1, KeptQueue, RunFlushShape DEF AuditTypes
  <2> QED
    BY <1>4, <2>1
    DEF RetryTimerFires, QueueTypes, RetryTypes, FateTypes, AuditTypes, Items,
        QueueLength, queueVars, retryVars, fateVars
<1>5. CASE BackoffExpires
  BY <1>5
  DEF BackoffExpires, QueueTypes, PassTypes, RetryTypes, FateTypes,
      AuditTypes, PassShape, MoreChunks, Items, QueueLength, queueVars,
      passVars, flagVars, timerVars, fateVars, auditVars
<1>6. CASE Stop
  BY <1>6
  DEF Stop, QueueTypes, PassTypes, RetryTypes, FateTypes, AuditTypes,
      PassShape, MoreChunks, Items, QueueLength, queueVars, passVars,
      flagVars, retryVars, fateVars
<1>7. CASE DeliverySucceeds
  <2>1. /\ QueueTypes' /\ PassTypes' /\ PassShape' /\ accepted' = accepted
        /\ attempts' \in [Items' -> Nat] /\ Chunk \subseteq Items
    BY <1>7, AdvanceShape, AnsweredTypes DEF DeliverySucceeds, Answered, Advance
  <2> QED
    BY <1>7, <2>1, NoAttempts
    DEF DeliverySucceeds, Answered, RetryTypes, FateTypes, AuditTypes, Items
<1>8. ASSUME Answered, GiveUpChunk PROVE ShapeInv'
  <2>1. backoff' = FALSE
    BY <1>8 DEF Answered, GiveUpChunk, PassShape, RetryTypes
  <2>2. /\ QueueTypes' /\ PassTypes' /\ PassShape' /\ accepted' = accepted
        /\ attempts' \in [Items' -> Nat] /\ Chunk \subseteq Items
    BY <1>8, <2>1, AdvanceShape, AnsweredTypes
    DEF GiveUpChunk, Answered, Advance
  <2> QED
    BY <1>8, <2>1, <2>2, NoAttempts
    DEF GiveUpChunk, Answered, RetryTypes, FateTypes, AuditTypes, Items
<1>9. ASSUME Answered, ScheduleRetry, ~(headAttempts + 1 >= MaxAttempts)
      PROVE  ShapeInv'
  <2>1. call' \in [Callers -> FlushCall]
    BY <1>9 DEF ScheduleRetry, Interrupted, FlushCall, AuditTypes
  <2>2. QueueTypes'
    BY <1>9, EndPassShape DEF ScheduleRetry, PassTypes
  <2>3. PassTypes' /\ PassShape'
    BY <1>9 DEF ScheduleRetry, EndPass, PassTypes, PassShape, Phases, flagVars
  <2>4. RetryTypes'
    BY <1>9, QueueAssumption DEF ScheduleRetry, Answered, RetryTypes
  <2>5. FateTypes'
    BY <1>9, AnsweredTypes DEF ScheduleRetry, Answered, FateTypes, Items
  <2> QED
    BY <1>9, <2>1, <2>2, <2>3, <2>4, <2>5 DEF Answered, AuditTypes
<1>10. CASE LoopReturns
  BY <1>10
  DEF LoopReturns, QueueTypes, PassTypes, RetryTypes, FateTypes, AuditTypes,
      PassShape, Phases, Items, QueueLength, queueVars, flagVars, retryVars,
      timerVars, fateVars, auditVars
<1>11. CASE LoopRepeats
  <2>1. /\ PassTypes' /\ PassShape'
        /\ call' \in [Callers -> FlushCall] /\ missed' \in BOOLEAN
    <3>1. /\ UNCHANGED <<accepted, removed, backoff, retryTimer>>
          /\ drainAllRequested' = FALSE
          /\ StartPass(drainAllRequested, call)
      BY <1>11 DEF LoopRepeats, queueVars, retryVars, timerVars
    <3> QED
      BY <3>1, KeptQueue, StartPassShape
      DEF PassTypes, RetryTypes, AuditTypes
  <2> QED
    BY <1>11, <2>1
    DEF LoopRepeats, QueueTypes, RetryTypes, FateTypes, AuditTypes, Items,
        QueueLength, queueVars, retryVars, timerVars, fateVars
<1>12. CASE FlushReturns
  <2>1. call' \in [Callers -> FlushCall]
    BY <1>12 DEF FlushReturns, FlushCall, AuditTypes
  <2> QED
    BY <1>12, <2>1
    DEF FlushReturns, QueueTypes, PassTypes, RetryTypes, FateTypes, AuditTypes,
        PassShape, Phases, Items, QueueLength, queueVars, flagVars, retryVars,
        timerVars, fateVars
<1>13. CASE UNCHANGED vars
  BY <1>13
  DEF vars, QueueTypes, PassTypes, RetryTypes, FateTypes, AuditTypes,
      PassShape, MoreChunks, Items, QueueLength, queueVars, passVars, flagVars,
      retryVars, timerVars, fateVars, auditVars
<1> QED
  BY <1>1, <1>2, <1>3, <1>4, <1>5, <1>6, <1>7, <1>8, <1>9, <1>10, <1>11,
     <1>12, <1>13
  DEF Next, DeliveryFailsPermanently, DeliveryFails

(* The types hold in every reachable state, the queue never exceeds        *)
(* maxQueueSize, and the count of failed attempts of the head chunk stays  *)
(* below maxDeliveryAttempts (event-queue.ts:59-61, :192-195).             *)
THEOREM TypeCorrect == Spec => []TypeOK
<1>1. ShapeInv => TypeOK
  BY DEF ShapeInv
<1> QED BY <1>1, ShapeInit, ShapeStep, PTL DEF Spec

(* No chunk is on the wire before retryNotBefore: interval, retry timer,   *)
(* enqueue() and flushPending() all respect it (event-queue.ts:174).       *)
THEOREM BackoffIsHonoured == Spec => []BackoffHonoured
<1>1. ShapeInv => BackoffHonoured
  BY DEF ShapeInv, PassShape, BackoffHonoured
<1> QED BY <1>1, ShapeInit, ShapeStep, PTL DEF Spec

-----------------------------------------------------------------------------
(* What a pass that begins, and one that ends, say of the queue. *)
LEMMA PassStarts ==
  ASSUME NEW drain \in BOOLEAN, NEW calls,
         NEW r \in Nat, NEW a \in Nat, r <= a, removed' = r, accepted' = a,
         backoff \in BOOLEAN, StartPass(drain, calls)
  PROVE  /\ phase' \in {"delivering", "passDone"} /\ rerunRequested' = FALSE
         /\ backoff => /\ phase' = "passDone" /\ call' = Interrupted(calls)
                       /\ missed' = ~retryTimer'
         /\ ~backoff => /\ passEnd' = a /\ drainAll' = drain /\ call' = calls
                        /\ missed' = FALSE
         /\ ~backoff /\ phase' = "passDone" => a - r < MaxBatch
         /\ ~backoff /\ phase' = "passDone" /\ drain => r = a
<1>1. /\ passStart' = r /\ passEnd' = IF backoff THEN r ELSE a
      /\ drainAll' = drain /\ rerunRequested' = FALSE
      /\ phase' = IF MoreChunks(passStart', passEnd', drain)
                  THEN "delivering" ELSE "passDone"
      /\ call' = IF backoff THEN Interrupted(calls) ELSE calls
      /\ missed' = (backoff /\ ~retryTimer')
  BY DEF StartPass
<1>2. ~MoreChunks(r, r, drain)
  BY DEF MoreChunks
<1>3. ~MoreChunks(r, a, drain) => a - r < MaxBatch /\ (drain => r = a)
  BY QueueAssumption DEF MoreChunks
<1> QED BY <1>1, <1>2, <1>3

LEMMA Shorter ==
  ASSUME NEW p \in Nat, NEW c \in Nat, NEW r \in Nat, NEW b \in Nat, c <= r
  PROVE  p - c < b => p - r < b
OBVIOUS

LEMMA PassEnds ==
  ASSUME ShapeInv, phase = "delivering", Advance
  PROVE  /\ \/ phase' = "delivering" /\ removed' = removed
            \/ /\ phase' = "passDone" /\ removed <= removed'
               /\ drainAll => passEnd <= removed'
               /\ passEnd = accepted => QueueLength' < MaxBatch
         /\ UNCHANGED <<accepted, drainAll, passEnd, rerunRequested,
                        drainAllRequested>>
<1> USE DEF ShapeInv, TypeOK, PassTypes
<1>1. /\ ChunkEnd \in Nat /\ passStart < ChunkEnd /\ ChunkEnd <= passEnd
      /\ passStart <= removed /\ passEnd <= accepted
  BY ChunkBounds DEF PassShape
<1> DEFINE done == ChunkEnd - passStart
<1>2. done \in Nat /\ passStart + done = ChunkEnd
  BY <1>1
<1>3. UNCHANGED <<accepted, drainAll, passEnd, rerunRequested,
                  drainAllRequested>>
  BY DEF Advance, flagVars
<1>4. CASE MoreChunks(ChunkEnd, passEnd, drainAll)
  BY <1>3, <1>4 DEF Advance
<1>5. CASE ~MoreChunks(ChunkEnd, passEnd, drainAll)
  <2>1. EndPass(done) /\ phase' = "passDone"
    BY <1>5 DEF Advance, EndPass
  <2> HIDE DEF done
  <2>2. /\ removed' = removed + done \/ removed' = accepted
        /\ removed <= removed' /\ QueueTypes'
    BY <1>2, <1>3, <2>1, EndPassShape
  <2>3. ChunkEnd <= removed' /\ removed' \in Nat /\ accepted \in Nat
    BY <1>1, <1>2, <2>2 DEF QueueTypes
  <2>4. (drainAll => ChunkEnd = passEnd) /\ passEnd - ChunkEnd < MaxBatch
    BY <1>1, <1>5, QueueAssumption DEF MoreChunks
  <2>5. drainAll => passEnd <= removed'
    BY <2>3, <2>4
  <2>6. passEnd = accepted => QueueLength' < MaxBatch
    <3>1. QueueLength' = accepted - removed'
      BY <1>3 DEF QueueLength
    <3>2. passEnd \in Nat /\ ChunkEnd \in Nat /\ MaxBatch \in Nat
      BY <1>1, QueueAssumption
    <3>3. passEnd - ChunkEnd < MaxBatch => passEnd - removed' < MaxBatch
      BY <2>3, <3>2, Shorter
    <3> QED BY <2>4, <3>1, <3>3
  <2> QED BY <1>3, <2>1, <2>2, <2>5, <2>6
<1> QED BY <1>4, <1>5

-----------------------------------------------------------------------------
(* A full batch that waits.  A pass covers all that is queued unless an    *)
(* enqueue() asked for another one, so it ends with less than a full batch *)
(* unless it was asked, or the retry timer is armed; the loop runs again   *)
(* as long as that leaves it something to do.                              *)
StrandInv ==
  /\ phase = "delivering" /\ ~rerunRequested => passEnd = accepted
  /\ phase = "passDone" /\ ~rerunRequested /\ ~retryTimer /\ ~missed
       => QueueLength < MaxBatch
  /\ phase \in {"resolved", "idle"} /\ ~retryTimer /\ ~missed
       => QueueLength < MaxBatch

LEMMA StartPassStrand ==
  ASSUME NEW drain \in BOOLEAN, NEW calls,
         NEW r \in Nat, NEW a \in Nat, r <= a, removed' = r, accepted' = a,
         backoff \in BOOLEAN, StartPass(drain, calls)
  PROVE  StrandInv'
<1>1. QueueLength' = a - r
  BY DEF QueueLength
<1> QED BY <1>1, PassStarts DEF StrandInv

LEMMA StrandStep ==
  ASSUME ShapeInv, StrandInv, [Next]_vars PROVE StrandInv'
<1>n. /\ removed \in Nat /\ accepted \in Nat /\ removed <= accepted
      /\ phase \in Phases /\ backoff \in BOOLEAN /\ retryTimer \in BOOLEAN
      /\ missed \in BOOLEAN /\ drainAllRequested \in BOOLEAN
      /\ rerunRequested \in BOOLEAN /\ delivered \in Nat
  BY DEF ShapeInv, TypeOK, QueueTypes, PassTypes, RetryTypes, AuditTypes
<1>1. CASE Enqueue
  <2> DEFINE r == IF QueueLength >= MaxQueue THEN removed + 1 ELSE removed
             a == accepted + 1
  <2>1. r \in Nat /\ a \in Nat /\ r <= a
    BY <1>n
  <2>2. removed' = r /\ accepted' = a /\ RunFlush(FALSE, call)
    BY <1>1 DEF Enqueue
  <2> HIDE DEF r, a
  <2>3. CASE phase = "idle"
    <3>1. StartPass(FALSE, call)
      BY <2>2, <2>3 DEF RunFlush
    <3> QED BY <1>n, <2>1, <2>2, <3>1, StartPassStrand
  <2>4. CASE phase # "idle"
    <3>1. /\ phase' = phase /\ rerunRequested' = TRUE
          /\ phase = "resolved" => missed'
      BY <2>2, <2>4 DEF RunFlush, passVars
    <3> QED BY <1>n, <2>4, <3>1 DEF StrandInv, Phases
  <2> QED BY <2>3, <2>4
<1>q. ASSUME NEW drain \in BOOLEAN, NEW calls, RunFlush(drain, calls),
             UNCHANGED queueVars
      PROVE  StrandInv'
  <2>1. CASE phase = "idle"
    <3>1. StartPass(drain, calls)
      BY <1>q, <2>1 DEF RunFlush
    <3> QED BY <1>n, <1>q, <3>1, StartPassStrand DEF queueVars
  <2>2. CASE phase # "idle"
    <3>1. /\ phase' = phase /\ rerunRequested' = TRUE
          /\ phase = "resolved" => missed'
      BY <1>q, <2>2 DEF RunFlush, passVars
    <3> QED BY <1>n, <2>2, <3>1 DEF StrandInv, Phases
  <2> QED BY <2>1, <2>2
<1>2. ASSUME NEW c \in Callers, FlushPending(c) PROVE StrandInv'
  BY <1>2, <1>q DEF FlushPending
<1>3. CASE IntervalFires
  BY <1>3, <1>q DEF IntervalFires
<1>4. CASE RetryTimerFires
  BY <1>4, <1>q DEF RetryTimerFires
<1>5. CASE BackoffExpires
  BY <1>5
  DEF BackoffExpires, StrandInv, QueueLength, queueVars, passVars, flagVars,
      timerVars, auditVars
<1>6. CASE Stop
  BY <1>6, <1>n DEF Stop, StrandInv, QueueLength, queueVars, passVars, flagVars
<1>a. ASSUME Answered, Advance PROVE StrandInv'
  <2>1. phase = "delivering" /\ missed' = missed
    BY <1>a DEF Answered
  <2>2. /\ \/ phase' = "delivering" /\ removed' = removed
           \/ phase' = "passDone" /\ (passEnd = accepted => QueueLength' < MaxBatch)
        /\ UNCHANGED <<accepted, passEnd, rerunRequested>>
    BY <1>a, <2>1, PassEnds
  <2> QED BY <2>1, <2>2 DEF StrandInv
<1>7. CASE DeliverySucceeds
  BY <1>7, <1>a DEF DeliverySucceeds
<1>8. ASSUME Answered, GiveUpChunk PROVE StrandInv'
  BY <1>8, <1>a DEF GiveUpChunk
<1>9. CASE DeliveryFails
  <2>1. ASSUME Answered, ScheduleRetry PROVE StrandInv'
    BY <2>1 DEF ScheduleRetry, EndPass, StrandInv
  <2> QED BY <1>8, <1>9, <2>1 DEF DeliveryFails
<1>10. CASE LoopReturns
  <2>1. /\ phase = "passDone" /\ phase' = "resolved"
        /\ ~rerunRequested \/ QueueLength < MaxBatch
        /\ UNCHANGED <<accepted, removed, retryTimer, missed>>
    BY <1>10 DEF LoopReturns, queueVars, timerVars, auditVars
  <2> QED BY <2>1 DEF StrandInv, QueueLength
<1>11. CASE LoopRepeats
  <2>1. /\ removed' = removed /\ accepted' = accepted
        /\ StartPass(drainAllRequested, call)
    BY <1>11 DEF LoopRepeats, queueVars
  <2> QED BY <1>n, <2>1, StartPassStrand
<1>12. CASE FlushReturns
  <2>1. /\ phase = "resolved" /\ phase' = "idle"
        /\ UNCHANGED <<accepted, removed, retryTimer, missed>>
    BY <1>12 DEF FlushReturns, queueVars, timerVars
  <2> QED BY <2>1 DEF StrandInv, QueueLength
<1>13. CASE UNCHANGED vars
  BY <1>13
  DEF vars, StrandInv, QueueLength, queueVars, passVars, flagVars, timerVars,
      auditVars
<1> QED
  BY <1>1, <1>2, <1>3, <1>4, <1>5, <1>6, <1>7, <1>8, <1>9, <1>10, <1>11,
     <1>12, <1>13
  DEF Next, DeliveryFailsPermanently

(* Once nothing is in flight and no retry is due, no full batch waits,     *)
(* whatever the interleaving of enqueue(), flushes, answers and timers     *)
(* (span-queue.ts:51-53), unless its request was lost.                     *)
THEOREM NoBatchIsStranded == Spec => []NoStrandedBatchUnlessMissed
<1>1. Init => ShapeInv /\ StrandInv
  <2>1. Init => StrandInv
    BY QueueAssumption DEF Init, StrandInv, QueueLength
  <2> QED BY <2>1, ShapeInit
<1>2. ShapeInv /\ StrandInv /\ [Next]_vars => (ShapeInv /\ StrandInv)'
  BY ShapeStep, StrandStep
<1>3. StrandInv => NoStrandedBatchUnlessMissed
  BY DEF StrandInv, NoStrandedBatchUnlessMissed
<1> QED BY <1>1, <1>2, <1>3, PTL DEF Spec

-----------------------------------------------------------------------------
(* A flushPending() that is not late: as long as it waits, what it was to  *)
(* flush is gone, or the running drain reaches that far, or another drain  *)
(* is to follow.                                                           *)
Punctual(k) == k.state # "none" /\ ~k.cut /\ ~k.late

Underway(target) ==
  \/ phase = "delivering" /\ drainAll /\ target <= passEnd
  \/ phase \in {"delivering", "passDone"} /\ drainAllRequested

DrainInv ==
  \A c \in Callers :
    /\ call[c].target <= accepted
    /\ Punctual(call[c]) =>
         \/ call[c].target <= removed
         \/ call[c].state = "waiting" /\ Underway(call[c].target)

(* A step that at most cuts calls short, and leaves what is underway       *)
(* underway or done.                                                       *)
LEMMA DrainKept ==
  ASSUME ShapeInv, DrainInv, NEW r \in Nat, NEW a \in Nat,
         removed' = r, accepted' = a, removed <= r, accepted <= a,
         call' = call \/ call' = Interrupted(call),
         \A t \in Nat : call' = call /\ t <= accepted /\ Underway(t)
                          => t <= r \/ Underway(t)'
  PROVE  DrainInv'
<1> SUFFICES ASSUME NEW c \in Callers
             PROVE  /\ call'[c].target <= a
                    /\ Punctual(call'[c]) =>
                         \/ call'[c].target <= r
                         \/ call'[c].state = "waiting" /\ Underway(call[c].target)'
  BY DEF DrainInv, Underway, Punctual
<1>1. /\ call[c] \in FlushCall /\ removed \in Nat /\ accepted \in Nat
  BY DEF ShapeInv, TypeOK, AuditTypes, QueueTypes
<1>2. call[c].target \in Nat /\ call[c].target <= accepted /\ call[c].target <= a
  BY <1>1 DEF DrainInv, FlushCall
<1>3. Punctual(call[c]) =>
        \/ call[c].target <= removed
        \/ call[c].state = "waiting" /\ Underway(call[c].target)
  BY DEF DrainInv
<1>4. CASE call' = call
  <2>1. Underway(call[c].target) =>
          call[c].target <= r \/ Underway(call[c].target)'
    BY <1>2, <1>4 DEF Underway
  <2>2. call[c].target <= removed => call[c].target <= r
    BY <1>1, <1>2
  <2>3. call'[c] = call[c]
    BY <1>4
  <2> QED BY <1>2, <1>3, <2>1, <2>2, <2>3
<1>5. CASE call' = Interrupted(call)
  <2>1. CASE call[c].state = "waiting"
    BY <1>1, <1>2, <1>5, <2>1 DEF Interrupted, Punctual, FlushCall
  <2>2. CASE call[c].state # "waiting"
    <3>1. call'[c] = call[c]
      BY <1>5, <2>2 DEF Interrupted
    <3> QED BY <1>1, <1>2, <1>3, <2>2, <3>1
  <2> QED BY <2>1, <2>2
<1> QED BY <1>4, <1>5

(* A pass that begins serves the calls that are served already and, if it  *)
(* is to drain, all others.                                                *)
LEMMA StartPassDrain ==
  ASSUME NEW drain \in BOOLEAN, NEW calls \in [Callers -> FlushCall],
         NEW r \in Nat, NEW a \in Nat, r <= a, removed' = r, accepted' = a,
         backoff \in BOOLEAN, StartPass(drain, calls),
         \A c \in Callers :
           /\ calls[c].target <= a
           /\ Punctual(calls[c]) =>
                calls[c].target <= r \/ (calls[c].state = "waiting" /\ drain)
  PROVE  DrainInv'
<1> SUFFICES ASSUME NEW c \in Callers
             PROVE  /\ call'[c].target <= a
                    /\ Punctual(call'[c]) =>
                         \/ call'[c].target <= r
                         \/ call'[c].state = "waiting" /\ Underway(call[c].target)'
  BY DEF DrainInv, Underway, Punctual
<1>1. calls[c] \in FlushCall /\ calls[c].target \in Nat
  BY DEF FlushCall
<1>2. CASE backoff
  <2>1. call' = Interrupted(calls)
    BY <1>2, PassStarts
  <2>2. CASE calls[c].state = "waiting"
    BY <1>1, <2>1, <2>2 DEF Interrupted, Punctual, FlushCall
  <2>3. CASE calls[c].state # "waiting"
    <3>1. call'[c] = calls[c]
      BY <2>1, <2>3 DEF Interrupted
    <3> QED BY <2>3, <3>1
  <2> QED BY <2>2, <2>3
<1>3. CASE ~backoff
  <2>1. /\ call' = calls /\ passEnd' = a /\ drainAll' = drain
        /\ phase' \in {"delivering", "passDone"}
        /\ phase' = "passDone" /\ drain => r = a
    BY <1>3, PassStarts
  <2>2. drain => calls[c].target <= r \/ Underway(call[c].target)'
    BY <2>1 DEF Underway
  <2> QED BY <2>1, <2>2
<1> QED BY <1>2, <1>3

LEMMA RunFlushDrain ==
  ASSUME ShapeInv, DrainInv, NEW drain \in BOOLEAN,
         NEW calls \in [Callers -> FlushCall],
         NEW r \in Nat, NEW a \in Nat, r <= a, removed' = r, accepted' = a,
         removed <= r, accepted <= a, RunFlush(drain, calls),
         \A c \in Callers :
           \/ calls[c] = call[c]
           \/ /\ drain /\ calls[c].state = "waiting" /\ calls[c].target <= a
              /\ calls[c].late = (phase = "resolved")
  PROVE  DrainInv'
<1>n. /\ removed \in Nat /\ accepted \in Nat /\ phase \in Phases
      /\ backoff \in BOOLEAN /\ drainAllRequested \in BOOLEAN
  BY DEF ShapeInv, TypeOK, QueueTypes, PassTypes, RetryTypes
<1>t. \A c \in Callers : calls[c].target \in Nat /\ call[c].target \in Nat
  BY DEF ShapeInv, TypeOK, AuditTypes, FlushCall
<1>1. CASE phase = "idle"
  <2>1. StartPass(drain, calls)
    BY <1>1 DEF RunFlush
  <2>2. ASSUME NEW c \in Callers
        PROVE  /\ calls[c].target <= a
               /\ Punctual(calls[c]) =>
                    calls[c].target <= r \/ (calls[c].state = "waiting" /\ drain)
    <3>1. CASE calls[c] = call[c]
      BY <1>1, <1>n, <1>t, <3>1 DEF DrainInv, Underway
    <3>2. CASE calls[c] # call[c]
      BY <3>2
    <3> QED BY <3>1, <3>2
  <2> QED BY <1>n, <2>1, <2>2, StartPassDrain
<1>2. CASE phase # "idle"
  <2>1. /\ phase' = phase /\ drainAll' = drainAll /\ passEnd' = passEnd
        /\ drainAllRequested' = (drainAllRequested \/ drain) /\ call' = calls
    BY <1>2 DEF RunFlush, passVars
  <2> SUFFICES ASSUME NEW c \in Callers
               PROVE  /\ call'[c].target <= a
                      /\ Punctual(call'[c]) =>
                           \/ call'[c].target <= r
                           \/ call'[c].state = "waiting" /\ Underway(call[c].target)'
    BY DEF DrainInv, Underway, Punctual
  <2>2. CASE calls[c] = call[c]
    <3>1. Underway(call[c].target) => Underway(call[c].target)'
      BY <2>1, <2>2 DEF Underway
    <3> QED BY <1>n, <1>t, <2>1, <2>2, <3>1 DEF DrainInv
  <2>3. CASE calls[c] # call[c]
    <3>1. /\ drain /\ calls[c].state = "waiting" /\ calls[c].target <= a
          /\ calls[c].late = (phase = "resolved")
      BY <2>3
    <3>2. CASE phase = "resolved"
      BY <2>1, <3>1, <3>2 DEF Punctual
    <3>3. CASE phase # "resolved"
      BY <1>2, <1>n, <2>1, <3>1, <3>3 DEF Underway, Phases
    <3> QED BY <3>2, <3>3
  <2> QED BY <2>2, <2>3
<1> QED BY <1>1, <1>2

LEMMA DrainStep ==
  ASSUME ShapeInv, DrainInv, [Next]_vars PROVE DrainInv'
<1>n. /\ removed \in Nat /\ accepted \in Nat /\ removed <= accepted
      /\ phase \in Phases /\ backoff \in BOOLEAN /\ drainAllRequested \in BOOLEAN
      /\ call \in [Callers -> FlushCall] /\ passEnd \in Nat
  BY DEF ShapeInv, TypeOK, QueueTypes, PassTypes, RetryTypes, AuditTypes
<1>r. removed <= removed /\ accepted <= accepted
  BY <1>n
<1>1. CASE Enqueue
  <2> DEFINE r == IF QueueLength >= MaxQueue THEN removed + 1 ELSE removed
             a == accepted + 1
  <2>1. r \in Nat /\ a \in Nat /\ r <= a /\ removed <= r /\ accepted <= a
    BY <1>n, QueueAssumption DEF QueueLength
  <2>2. removed' = r /\ accepted' = a /\ RunFlush(FALSE, call)
    BY <1>1 DEF Enqueue
  <2> HIDE DEF r, a
  <2> QED BY <1>n, <2>1, <2>2, RunFlushDrain
<1>2. ASSUME NEW c \in Callers, FlushPending(c) PROVE DrainInv'
  <2> DEFINE calls == [call EXCEPT ![c] = [state |-> "waiting",
                                         target |-> accepted,
                                         cut |-> FALSE,
                                         late |-> phase = "resolved"]]
  <2>1. /\ calls \in [Callers -> FlushCall]
        /\ \A d \in Callers :
             \/ calls[d] = call[d]
             \/ /\ TRUE /\ calls[d].state = "waiting"
                /\ calls[d].target <= accepted
                /\ calls[d].late = (phase = "resolved")
    BY <1>n DEF FlushCall
  <2>2. RunFlush(TRUE, calls) /\ removed' = removed /\ accepted' = accepted
    BY <1>2 DEF FlushPending, queueVars
  <2> HIDE DEF calls
  <2> QED BY <1>n, <1>r, <2>1, <2>2, RunFlushDrain
<1>q. ASSUME NEW drain \in BOOLEAN, RunFlush(drain, call), UNCHANGED queueVars
      PROVE  DrainInv'
  BY <1>n, <1>r, <1>q, RunFlushDrain DEF queueVars
<1>3. CASE IntervalFires
  BY <1>3, <1>q DEF IntervalFires
<1>4. CASE RetryTimerFires
  BY <1>4, <1>q DEF RetryTimerFires
<1>k. ASSUME UNCHANGED <<removed, accepted, phase, drainAll, passEnd,
                         drainAllRequested, call>>
      PROVE  DrainInv'
  BY <1>k DEF DrainInv, Underway
<1>5. CASE BackoffExpires
  BY <1>5, <1>k DEF BackoffExpires, queueVars, passVars, flagVars, auditVars
<1>6. CASE Stop
  BY <1>6, <1>k DEF Stop, queueVars, passVars, flagVars
<1>a. ASSUME Answered, Advance, call' = call PROVE DrainInv'
  <2>1. phase = "delivering"
    BY <1>a DEF Answered
  <2>2. /\ \/ phase' = "delivering" /\ removed' = removed
           \/ /\ phase' = "passDone" /\ removed <= removed'
              /\ drainAll => passEnd <= removed'
        /\ UNCHANGED <<accepted, drainAll, passEnd, drainAllRequested>>
    BY <1>a, <2>1, PassEnds
  <2>3. removed' \in Nat /\ removed <= removed'
    BY <1>a, <1>n, <2>2, ShapeStep DEF ShapeInv, TypeOK, QueueTypes
  <2>4. \A t \in Nat : t <= accepted /\ Underway(t) => t <= removed' \/ Underway(t)'
    BY <1>n, <2>1, <2>2, <2>3 DEF Underway
  <2> QED BY <1>a, <1>n, <1>r, <2>2, <2>3, <2>4, DrainKept
<1>7. CASE DeliverySucceeds
  BY <1>7, <1>a DEF DeliverySucceeds
<1>8. ASSUME Answered, GiveUpChunk PROVE DrainInv'
  BY <1>8, <1>a DEF GiveUpChunk
<1>9. CASE DeliveryFails
  <2>1. ASSUME ScheduleRetry PROVE DrainInv'
    <3>1. /\ EndPass(delivered) /\ accepted' = accepted
          /\ call' = Interrupted(call)
      BY <2>1 DEF ScheduleRetry
    <3>2. removed <= removed' /\ removed' \in Nat
      BY <3>1, EndPassShape DEF ShapeInv, TypeOK, PassTypes, QueueTypes
    <3>3. CASE call' = call
      <4>1. phase = "delivering" /\ phase' = "passDone" 
            /\ UNCHANGED <<drainAllRequested, drainAll, passEnd>>
        BY <1>9, <2>1 DEF DeliveryFails, Answered, ScheduleRetry, EndPass, flagVars
      <4>2. \A c \in Callers : ~Punctual(call[c]) \/ call[c].state # "waiting"
        BY <1>n, <3>1, <3>3 DEF Interrupted, Punctual, FlushCall
      <4> QED BY <1>n, <3>1, <3>2, <3>3, <4>2 DEF DrainInv, FlushCall
    <3>4. CASE call' # call
      BY <1>n, <1>r, <3>1, <3>2, <3>4, DrainKept
    <3> QED BY <3>3, <3>4
  <2> QED BY <1>8, <1>9, <2>1 DEF DeliveryFails
<1>10. CASE LoopReturns
  <2>1. /\ phase = "passDone" /\ ~drainAllRequested
        /\ UNCHANGED <<accepted, removed, call>>
    BY <1>10 DEF LoopReturns, queueVars, auditVars
  <2> QED BY <2>1 DEF DrainInv, Underway
<1>11. CASE LoopRepeats
  <2>1. /\ removed' = removed /\ accepted' = accepted /\ phase = "passDone"
        /\ StartPass(drainAllRequested, call)
    BY <1>11 DEF LoopRepeats, queueVars
  <2>2. \A c \in Callers :
           /\ call[c].target <= accepted
           /\ Punctual(call[c]) =>
                \/ call[c].target <= removed
                \/ call[c].state = "waiting" /\ drainAllRequested
    BY <2>1 DEF DrainInv, Underway
  <2> QED BY <1>n, <2>1, <2>2, StartPassDrain
<1>12. CASE FlushReturns
  <2>1. /\ phase = "resolved"
        /\ UNCHANGED <<accepted, removed>>
        /\ call' = [c \in Callers |-> IF call[c].state = "waiting"
                                      THEN [call[c] EXCEPT !.state = "returned"]
                                      ELSE call[c]]
    BY <1>12 DEF FlushReturns, queueVars
  <2> SUFFICES ASSUME NEW c \in Callers
               PROVE  /\ call'[c].target <= accepted
                      /\ Punctual(call'[c]) => call'[c].target <= removed
    BY <2>1 DEF DrainInv
  <2>2. Punctual(call[c]) => call[c].target <= removed
    BY <2>1 DEF DrainInv, Underway
  <2>3. /\ call'[c].target = call[c].target
        /\ Punctual(call'[c]) => Punctual(call[c])
    BY <1>n, <2>1 DEF Punctual, FlushCall
  <2> QED BY <2>2, <2>3 DEF DrainInv
<1>13. CASE UNCHANGED vars
  BY <1>13, <1>k DEF vars, queueVars, passVars, flagVars, auditVars
<1> QED
  BY <1>1, <1>2, <1>3, <1>4, <1>5, <1>6, <1>7, <1>8, <1>9, <1>10, <1>11,
     <1>12, <1>13
  DEF Next, DeliveryFailsPermanently

(* A flushPending() that no error and no backoff cut short returns with    *)
(* everything gone that was enqueued before it, however the requests of    *)
(* other flushes fall around it (event-queue.ts:69-70), but for those in   *)
(* the gap of event-queue.ts:131-146.                                      *)
THEOREM PunctualFlushesDrain == Spec => []PunctualFlushPendingDrains
<1>1. Init => ShapeInv /\ DrainInv
  <2>1. Init => DrainInv
    BY DEF Init, DrainInv, Punctual
  <2> QED BY <2>1, ShapeInit
<1>2. ShapeInv /\ DrainInv /\ [Next]_vars => (ShapeInv /\ DrainInv)'
  BY ShapeStep, DrainStep
<1>3. ShapeInv /\ DrainInv => PunctualFlushPendingDrains
  <2> SUFFICES ASSUME ShapeInv, DrainInv, NEW c \in Callers,
                      call[c].state = "returned", ~call[c].cut, ~call[c].late
               PROVE  removed >= call[c].target
    BY DEF PunctualFlushPendingDrains
  <2>1. call[c].target <= removed
    BY DEF DrainInv, Punctual
  <2> QED BY <2>1 DEF ShapeInv, TypeOK, QueueTypes, AuditTypes, FlushCall
<1> QED BY <1>1, <1>2, <1>3, PTL DEF Spec

-----------------------------------------------------------------------------
(***************************************************************************)
(* What becomes of the items: how often each is tried, in which order they *)
(* are settled, and, below the capacity of the queue, that none is lost:   *)
(* DeliveryQueue implements ReliableQueue.                                 *)
(***************************************************************************)

-----------------------------------------------------------------------------
(* The inductive invariant.  Items behind the front have been tried at     *)
(* most as often as headAttempts says, and those that the head chunk has   *)
(* not reached yet were never tried: so whichever chunk is next at the     *)
(* front, none of its items was tried more often than the counter of "the  *)
(* head chunk" knows.  Everything settled is before the front.             *)
TriesInv ==
  \A i \in Items :
    /\ attempts[i] <= MaxAttempts
    /\ i > Front => attempts[i] <= headAttempts
    /\ i > Front + MaxBatch => attempts[i] = 0
    /\ phase = "delivering" /\ i > passEnd => attempts[i] = 0
ForwardInv == \A i \in acked \cup dropped : i <= Front
FateInv == ShapeInv /\ TriesInv /\ ForwardInv

LEMMA FrontNat == ASSUME ShapeInv PROVE Front \in Nat
BY DEF ShapeInv, TypeOK, PassTypes, QueueTypes, Front

LEMMA FateInit == Init => FateInv
<1> SUFFICES ASSUME Init PROVE TriesInv /\ ForwardInv
  BY ShapeInit DEF FateInv
<1> QED BY DEF Init, TriesInv, ForwardInv, Items

(* A step that answers no delivery: at most it appends items that were     *)
(* never tried, moves the front towards the back, or starts a pass over    *)
(* all that is queued.                                                     *)
LEMMA QuietStep ==
  ASSUME FateInv, NEW a \in Nat, accepted <= a, accepted' = a,
         NEW f \in Nat, Front <= f, Front' = f,
         UNCHANGED <<headAttempts, acked, dropped>>,
         \A i \in 1 .. a : attempts'[i] = IF i \in Items THEN attempts[i] ELSE 0,
         phase' = "delivering" =>
           \/ passEnd' = a
           \/ phase = "delivering" /\ passEnd' = passEnd
  PROVE  TriesInv' /\ ForwardInv'
<1> USE DEF FateInv, ShapeInv, TypeOK
<1>1. ASSUME NEW i \in 1 .. a
      PROVE  /\ attempts'[i] <= MaxAttempts
             /\ i > f => attempts'[i] <= headAttempts
             /\ i > f + MaxBatch => attempts'[i] = 0
             /\ phase' = "delivering" /\ i > passEnd' => attempts'[i] = 0
  <2>1. CASE i \in Items
    <3>1. attempts'[i] = attempts[i] /\ attempts[i] \in Nat
      BY <2>1 DEF FateTypes
    <3>2. /\ attempts[i] <= MaxAttempts
          /\ i > f => attempts[i] <= headAttempts
          /\ i > f + MaxBatch => attempts[i] = 0
      BY <2>1, FrontNat, QueueAssumption DEF TriesInv
    <3>3. phase' = "delivering" /\ i > passEnd' => attempts[i] = 0
      BY <2>1 DEF TriesInv
    <3> QED BY <3>1, <3>2, <3>3
  <2>2. CASE i \notin Items
    <3>1. attempts'[i] = 0
      BY <2>2
    <3> QED BY <3>1, QueueAssumption DEF RetryTypes
  <2> QED BY <2>1, <2>2
<1>2. TriesInv'
  BY <1>1 DEF TriesInv, Items
<1>3. ForwardInv'
  BY FrontNat DEF ForwardInv, FateTypes, Items, QueueTypes
<1> QED BY <1>2, <1>3

(* Where the front is after a step that only asks for a flush. *)
LEMMA StartPassFront ==
  ASSUME ShapeInv, NEW drain \in BOOLEAN, NEW calls,
         NEW r \in Nat, NEW a \in Nat, removed' = r, accepted' = a,
         StartPass(drain, calls)
  PROVE  /\ Front' = r
         /\ phase' = "delivering" => passEnd' = a
<1>1. passStart' = r /\ delivered' = 0 /\ (passStart + delivered)' = r
  BY DEF StartPass
<1>2. phase' = "delivering" => passEnd' = a
  BY <1>1 DEF StartPass, MoreChunks
<1> QED BY <1>1, <1>2 DEF Front

LEMMA RunFlushFront ==
  ASSUME ShapeInv, NEW drain \in BOOLEAN, NEW calls,
         NEW r \in Nat, NEW a \in Nat, removed' = r, accepted' = a,
         RunFlush(drain, calls)
  PROVE  /\ Front' = IF phase = "delivering" THEN Front ELSE r
         /\ phase' = "delivering" =>
              \/ passEnd' = a
              \/ phase = "delivering" /\ passEnd' = passEnd
<1>1. CASE phase = "idle"
  <2>1. StartPass(drain, calls)
    BY <1>1 DEF RunFlush
  <2> QED BY <1>1, <2>1, StartPassFront
<1>2. CASE phase # "idle"
  <2>1. UNCHANGED <<phase, passStart, passEnd, delivered>>
    BY <1>2 DEF RunFlush, passVars
  <2> QED BY <2>1 DEF Front
<1> QED BY <1>1, <1>2

(* The facts about the chunk on the wire that every answer needs. *)
LEMMA ChunkAtFront ==
  ASSUME ShapeInv, phase = "delivering"
  PROVE  /\ Front \in Nat /\ ChunkEnd \in Nat /\ Front < ChunkEnd
         /\ Front = passStart + delivered
         /\ ChunkEnd <= Front + MaxBatch /\ ChunkEnd <= passEnd
         /\ ChunkEnd = passEnd \/ ChunkEnd = Front + MaxBatch
         /\ Chunk = {i \in Items : Front < i /\ i <= ChunkEnd}
BY ChunkBounds DEF ShapeInv, TypeOK, PassTypes, Front, Chunk

LEMMA AdvanceFront ==
  ASSUME ShapeInv, phase = "delivering", Advance
  PROVE  /\ \E f \in Nat : Front' = f /\ ChunkEnd <= f
         /\ accepted' = accepted /\ passEnd' = passEnd
<1> USE DEF ShapeInv, TypeOK, PassTypes, QueueTypes
<1> DEFINE done == ChunkEnd - passStart
<1>1. /\ ChunkEnd \in Nat /\ done \in Nat /\ passStart + done = ChunkEnd
      /\ ChunkEnd <= accepted /\ ChunkEnd <= removed + done
  BY ChunkBounds DEF PassShape
<1>2. UNCHANGED <<accepted, passStart, passEnd>>
  BY DEF Advance
<1>3. CASE MoreChunks(ChunkEnd, passEnd, drainAll)
  <2>1. delivered' = done /\ UNCHANGED <<phase, removed>>
    BY <1>3 DEF Advance
  <2>2. Front' = ChunkEnd
    BY <1>1, <1>2, <2>1 DEF Front
  <2> QED BY <1>1, <1>2, <2>2
<1>4. CASE ~MoreChunks(ChunkEnd, passEnd, drainAll)
  <2>1. EndPass(done)
    BY <1>4 DEF Advance
  <2> HIDE DEF done
  <2>2. Front' = Min2(removed + done, accepted)
    BY <2>1 DEF EndPass, Front
  <2>3. Min2(removed + done, accepted) \in Nat
        /\ ChunkEnd <= Min2(removed + done, accepted)
    BY <1>1 DEF Min2
  <2> QED BY <1>2, <2>2, <2>3
<1> QED BY <1>3, <1>4

(* The chunk is settled: the next one was never tried. *)
LEMMA SettledStep ==
  ASSUME FateInv, Answered, Advance, headAttempts' = 0,
         acked' \cup dropped' = acked \cup dropped \cup Chunk
  PROVE  TriesInv' /\ ForwardInv'
<1> USE DEF FateInv, ShapeInv, TypeOK
<1>1. PICK f \in Nat : Front' = f /\ ChunkEnd <= f
  BY AdvanceFront DEF Answered
<1>2. accepted' = accepted /\ passEnd' = passEnd /\ phase = "delivering"
  BY AdvanceFront DEF Answered
<1>3. TriesInv'
  <2>1. ASSUME NEW i \in Items
        PROVE  /\ attempts'[i] <= MaxAttempts
               /\ i > f => attempts'[i] <= 0
               /\ i > f + MaxBatch => attempts'[i] = 0
               /\ i > passEnd => attempts'[i] = 0
    <3>1. attempts[i] \in Nat /\ i \in Nat /\ headAttempts \in Nat
          /\ passEnd \in Nat
      BY DEF FateTypes, RetryTypes, PassTypes, Items
    <3>2. /\ attempts[i] <= MaxAttempts
          /\ i > Front => attempts[i] <= headAttempts
          /\ i > Front + MaxBatch => attempts[i] = 0
          /\ i > passEnd => attempts[i] = 0
      BY <1>2 DEF TriesInv
    <3>3. i > ChunkEnd => attempts[i] = 0
      BY <1>2, <3>1, <3>2, ChunkAtFront, QueueAssumption
    <3>4. CASE i \in Chunk
      <4>1. attempts'[i] = attempts[i] + 1 /\ Front < i /\ i <= ChunkEnd
        BY <1>2, <3>4, ChunkAtFront DEF Answered
      <4>2. headAttempts + 1 <= MaxAttempts
        BY QueueAssumption DEF RetryTypes
      <4>3. ~(i > f) /\ ~(i > passEnd) /\ ~(i > f + MaxBatch)
        BY <1>1, <1>2, <3>1, <4>1, ChunkAtFront, QueueAssumption
      <4>4. attempts[i] + 1 <= MaxAttempts
        BY <1>2, <3>1, <3>2, <4>1, <4>2, ChunkAtFront, QueueAssumption
      <4> QED BY <4>1, <4>3, <4>4
    <3>5. CASE i \notin Chunk
      <4>1. attempts'[i] = attempts[i]
        BY <3>5 DEF Answered
      <4> QED
        BY <1>1, <1>2, <3>1, <3>2, <3>3, <4>1, ChunkAtFront, QueueAssumption
    <3> QED BY <3>4, <3>5
  <2> QED BY <1>1, <1>2, <2>1 DEF TriesInv, Items
<1>4. ForwardInv'
  <2>1. ASSUME NEW i \in acked \cup dropped \cup Chunk PROVE i <= f
    <3>1. i \in Nat /\ i <= ChunkEnd
      BY <1>2, ChunkAtFront DEF ForwardInv, FateTypes, Items
    <3> QED BY <1>1, <1>2, <3>1, ChunkAtFront
  <2> QED BY <1>1, <2>1 DEF ForwardInv
<1> QED BY <1>3, <1>4

(* The chunk stays at the head, and the counter counts the attempt. *)
LEMMA RetryStep ==
  ASSUME FateInv, Answered, ScheduleRetry, ~(headAttempts + 1 >= MaxAttempts)
  PROVE  TriesInv' /\ ForwardInv'
<1> USE DEF FateInv, ShapeInv, TypeOK
<1>1. PICK f \in Nat : Front' = f /\ Front <= f
  <2>1. Front' = Min2(removed + delivered, accepted)
    BY DEF ScheduleRetry, EndPass, Front
  <2>2. /\ Min2(removed + delivered, accepted) \in Nat
        /\ passStart + delivered <= Min2(removed + delivered, accepted)
    BY QueueAssumption
    DEF Answered, Min2, PassShape, MoreChunks, PassTypes, QueueTypes
  <2> QED BY <2>1, <2>2, ChunkAtFront DEF Answered
<1>2. /\ accepted' = accepted /\ phase' = "passDone"
      /\ phase = "delivering" /\ headAttempts' = headAttempts + 1
      /\ UNCHANGED <<acked, dropped>>
  BY DEF ScheduleRetry, Answered, EndPass
<1>3. TriesInv'
  <2>1. ASSUME NEW i \in Items
        PROVE  /\ attempts'[i] <= MaxAttempts
               /\ i > f => attempts'[i] <= headAttempts + 1
               /\ i > f + MaxBatch => attempts'[i] = 0
    <3>1. attempts[i] \in Nat /\ i \in Nat /\ headAttempts \in Nat
      BY DEF FateTypes, RetryTypes, Items
    <3>2. /\ attempts[i] <= MaxAttempts
          /\ i > Front => attempts[i] <= headAttempts
          /\ i > Front + MaxBatch => attempts[i] = 0
      BY <1>2 DEF TriesInv
    <3>3. CASE i \in Chunk
      <4>1. /\ attempts'[i] = attempts[i] + 1 /\ Front < i
            /\ i <= Front + MaxBatch
        BY <1>2, <3>1, <3>3, ChunkAtFront, QueueAssumption DEF Answered
      <4> QED BY <1>1, <1>2, <3>1, <3>2, <4>1, ChunkAtFront, QueueAssumption
    <3>4. CASE i \notin Chunk
      <4>1. attempts'[i] = attempts[i]
        BY <3>4 DEF Answered
      <4> QED BY <1>1, <1>2, <3>1, <3>2, <4>1, ChunkAtFront, QueueAssumption
    <3> QED BY <3>3, <3>4
  <2> QED BY <1>1, <1>2, <2>1 DEF TriesInv, Items
<1>4. ForwardInv'
  BY <1>1, <1>2, ChunkAtFront DEF ForwardInv, FateTypes, Items
<1> QED BY <1>3, <1>4

-----------------------------------------------------------------------------
LEMMA FateStep == FateInv /\ [Next]_vars => FateInv'
<1> SUFFICES ASSUME FateInv, [Next]_vars PROVE FateInv'
  OBVIOUS
<1>s. ShapeInv /\ ShapeInv'
  BY ShapeStep DEF FateInv
<1>n. /\ removed \in Nat /\ accepted \in Nat /\ Front \in Nat
      /\ removed <= accepted /\ 1 .. accepted = Items
      /\ phase # "delivering" => Front = removed
  BY <1>s, FrontNat DEF ShapeInv, TypeOK, QueueTypes, Items, Front
<1>t. \A i \in 1 .. accepted : attempts[i] = IF i \in Items THEN attempts[i] ELSE 0
  BY <1>n
<1> SUFFICES TriesInv' /\ ForwardInv'
  BY <1>s DEF FateInv
<1>1. CASE Enqueue
  <2> DEFINE r == IF QueueLength >= MaxQueue THEN removed + 1 ELSE removed
             a == accepted + 1
  <2>1. r \in Nat /\ a \in Nat /\ accepted <= a /\ removed <= r
    BY <1>n
  <2>2. removed' = r /\ accepted' = a /\ RunFlush(FALSE, call)
        /\ UNCHANGED <<headAttempts, acked, dropped>>
    BY <1>1 DEF Enqueue, retryVars
  <2>3. \A i \in 1 .. a : attempts'[i] = IF i \in Items THEN attempts[i] ELSE 0
    BY <1>1 DEF Enqueue
  <2> HIDE DEF r, a
  <2>4. /\ Front' = IF phase = "delivering" THEN Front ELSE r
        /\ phase' = "delivering" =>
             \/ passEnd' = a
             \/ phase = "delivering" /\ passEnd' = passEnd
    BY <1>s, <2>1, <2>2, RunFlushFront
  <2>5. PICK f \in Nat : Front' = f /\ Front <= f
    BY <1>n, <2>1, <2>4
  <2> QED BY <2>1, <2>2, <2>3, <2>4, <2>5, QuietStep
<1>q. ASSUME NEW drain \in BOOLEAN, NEW calls, RunFlush(drain, calls),
             UNCHANGED <<queueVars, headAttempts, attempts, acked, dropped>>
      PROVE  TriesInv' /\ ForwardInv'
  <2>1. removed' = removed /\ accepted' = accepted
    BY <1>q DEF queueVars
  <2>2. /\ Front' = IF phase = "delivering" THEN Front ELSE removed
        /\ phase' = "delivering" =>
             \/ passEnd' = accepted
             \/ phase = "delivering" /\ passEnd' = passEnd
    BY <1>s, <1>n, <1>q, <2>1, RunFlushFront
  <2>3. Front' = Front /\ Front <= Front /\ accepted <= accepted
    BY <1>n, <2>2
  <2> QED BY <1>n, <1>t, <1>q, <2>1, <2>2, <2>3, QuietStep
<1>2. ASSUME NEW c \in Callers, FlushPending(c) PROVE TriesInv' /\ ForwardInv'
  BY <1>2, <1>q DEF FlushPending, retryVars, fateVars
<1>3. CASE IntervalFires
  BY <1>3, <1>q DEF IntervalFires, retryVars, fateVars
<1>4. CASE RetryTimerFires
  BY <1>4, <1>q DEF RetryTimerFires, retryVars, fateVars
<1>k. ASSUME UNCHANGED <<queueVars, headAttempts, attempts, acked, dropped>>,
             Front' = Front,
             phase' = "delivering" =>
               phase = "delivering" /\ passEnd' = passEnd
      PROVE  TriesInv' /\ ForwardInv'
  BY <1>n, <1>t, <1>k, QuietStep DEF queueVars
<1>5. CASE BackoffExpires
  BY <1>5, <1>k DEF BackoffExpires, passVars, fateVars, Front, queueVars
<1>6. CASE Stop
  BY <1>6, <1>k DEF Stop, passVars, fateVars, retryVars, Front, queueVars
<1>7. CASE DeliverySucceeds
  <2>1. acked' \cup dropped' = acked \cup dropped \cup Chunk
    BY <1>7 DEF DeliverySucceeds
  <2> QED BY <1>7, <2>1, SettledStep DEF DeliverySucceeds
<1>8. ASSUME Answered, GiveUpChunk PROVE TriesInv' /\ ForwardInv'
  <2>1. acked' \cup dropped' = acked \cup dropped \cup Chunk
    BY <1>8 DEF GiveUpChunk
  <2> QED BY <1>8, <2>1, SettledStep DEF GiveUpChunk
<1>9. CASE DeliveryFails
  BY <1>8, <1>9, RetryStep DEF DeliveryFails
<1>10. CASE LoopReturns
  BY <1>10, <1>k
  DEF LoopReturns, fateVars, retryVars, Front, queueVars
<1>11. CASE LoopRepeats
  <2>1. removed' = removed /\ accepted' = accepted /\ phase = "passDone"
        /\ StartPass(drainAllRequested, call)
        /\ UNCHANGED <<headAttempts, attempts, acked, dropped>>
    BY <1>11 DEF LoopRepeats, queueVars, retryVars, fateVars
  <2>2. Front' = removed /\ (phase' = "delivering" => passEnd' = accepted)
    BY <1>s, <1>n, <2>1, StartPassFront DEF ShapeInv, TypeOK, PassTypes
  <2> QED BY <1>n, <1>t, <2>1, <2>2, QuietStep
<1>12. CASE FlushReturns
  BY <1>12, <1>k DEF FlushReturns, fateVars, retryVars, Front, queueVars
<1>13. CASE UNCHANGED vars
  BY <1>13, <1>k
  DEF vars, fateVars, retryVars, passVars, Front, queueVars
<1> QED
  BY <1>1, <1>2, <1>3, <1>4, <1>5, <1>6, <1>7, <1>8, <1>9, <1>10, <1>11,
     <1>12, <1>13
  DEF Next, DeliveryFailsPermanently

(* No item is handed to deliver() more than maxDeliveryAttempts times,     *)
(* however the head chunk grows between attempts and whatever overflow     *)
(* shifts out of it: a poison batch cannot block the queue                 *)
(* (event-queue.ts:31-33, :191-197).                                       *)
THEOREM AttemptsAreBounded == Spec => []AttemptsBounded
<1>1. FateInv => AttemptsBounded
  BY DEF FateInv, TriesInv, AttemptsBounded
<1> QED BY <1>1, FateInit, FateStep, PTL DEF Spec

(* Batches go out in order and at most once, even while overflow shifts    *)
(* items out from under a running flush (event-queue.ts:34-35, :69).       *)
THEOREM DeliveryGoesForward == Spec => []DeliversForward
<1>1. FateInv => DeliversForward
  <2> SUFFICES ASSUME FateInv, phase = "delivering",
                      NEW i \in acked \cup dropped, NEW j \in Chunk
               PROVE  i < j
    BY DEF DeliversForward
  <2>1. i \in Nat /\ j \in Nat
    BY ChunkAtFront
    DEF FateInv, ShapeInv, TypeOK, FateTypes, Items
  <2> QED BY <2>1, ChunkAtFront DEF FateInv, ForwardInv
<1> QED BY <1>1, FateInit, FateStep, PTL DEF Spec

-----------------------------------------------------------------------------
(* Below its capacity the queue loses nothing: DeliveryQueue implements    *)
(* ReliableQueue whenever all the items the application ever enqueues fit  *)
(* in it.  (Without that assumption it does not: see the run               *)
(* queue_overflow_loss.)                                                   *)

(* While a pass is in flight nothing but the pass itself removes items: no *)
(* overflow shift() has moved the front of the queue under its slice.      *)
NoOverflow == MaxItems <= MaxQueue
UndisturbedInv ==
  /\ accepted <= MaxItems
  /\ phase = "delivering" => removed = passStart
CapInv == ShapeInv /\ UndisturbedInv

LEMMA CapInit == Init => CapInv
<1> SUFFICES ASSUME Init PROVE UndisturbedInv
  BY ShapeInit DEF CapInv
<1> QED BY QueueAssumption DEF Init, UndisturbedInv

LEMMA EnqueueFits ==
  ASSUME NoOverflow, CapInv, Enqueue
  PROVE  /\ removed' = removed /\ accepted' = accepted + 1
         /\ accepted + 1 <= MaxItems
<1>1. accepted < MaxItems
  BY DEF Enqueue
<1>2. ~(QueueLength >= MaxQueue)
  BY <1>1, QueueAssumption
  DEF NoOverflow, CapInv, ShapeInv, TypeOK, QueueTypes, QueueLength
<1>3. accepted \in Nat
  BY DEF CapInv, ShapeInv, TypeOK, QueueTypes
<1> QED BY <1>1, <1>2, <1>3, QueueAssumption DEF Enqueue

(* Nothing having been shifted, the front moves to the end of the chunk. *)
LEMMA AdvanceExact ==
  ASSUME CapInv, phase = "delivering", Advance
  PROVE  Front' = ChunkEnd /\ accepted' = accepted /\ UndisturbedInv'
<1> USE DEF CapInv, UndisturbedInv, ShapeInv, TypeOK, PassTypes, QueueTypes
<1> DEFINE done == ChunkEnd - passStart
<1>1. /\ ChunkEnd \in Nat /\ done \in Nat /\ passStart + done = ChunkEnd
      /\ ChunkEnd <= accepted
  BY ChunkBounds DEF PassShape
<1>2. UNCHANGED <<accepted, passStart>>
  BY DEF Advance
<1>3. CASE MoreChunks(ChunkEnd, passEnd, drainAll)
  <2>1. delivered' = done /\ UNCHANGED <<phase, removed>>
    BY <1>3 DEF Advance
  <2>2. Front' = ChunkEnd
    BY <1>1, <1>2, <2>1 DEF Front
  <2> QED BY <1>2, <2>1, <2>2
<1>4. CASE ~MoreChunks(ChunkEnd, passEnd, drainAll)
  <2>1. EndPass(done)
    BY <1>4 DEF Advance
  <2> HIDE DEF done
  <2>2. removed + done = ChunkEnd
    BY <1>1
  <2>3. Front' = ChunkEnd
    BY <1>1, <2>1, <2>2 DEF EndPass, Min2, Front
  <2> QED BY <1>2, <2>1, <2>3 DEF EndPass
<1> QED BY <1>3, <1>4

LEMMA RetryExact ==
  ASSUME CapInv, Answered, ScheduleRetry
  PROVE  Front' = Front /\ UNCHANGED <<accepted, acked, dropped>>
         /\ UndisturbedInv'
<1> USE DEF CapInv, UndisturbedInv, ShapeInv, TypeOK, PassTypes, QueueTypes
<1>1. removed + delivered = Front /\ Front < ChunkEnd /\ ChunkEnd <= accepted
      /\ Front \in Nat /\ ChunkEnd \in Nat
  BY ChunkAtFront DEF Answered, PassShape
<1>2. Front' = Min2(removed + delivered, accepted) /\ phase' = "passDone"
      /\ UNCHANGED <<accepted, acked, dropped>>
  BY DEF ScheduleRetry, EndPass, Front
<1>3. Front' = Front
  BY <1>1, <1>2 DEF Min2
<1> QED BY <1>2, <1>3

(* A step that only asks for a flush leaves the front where it was. *)
LEMMA FlushRequestExact ==
  ASSUME CapInv, NEW drain \in BOOLEAN, NEW calls, removed' = removed,
         NEW a \in Nat, accepted' = a, a <= MaxItems, RunFlush(drain, calls)
  PROVE  Front' = Front /\ UndisturbedInv'
<1>1. Front' = IF phase = "delivering" THEN Front ELSE removed
  BY RunFlushFront DEF CapInv, ShapeInv, TypeOK, QueueTypes
<1>2. Front' = Front
  BY <1>1 DEF Front
<1>3. phase' = "delivering" => passStart' = removed'
  BY DEF RunFlush, StartPass, passVars, CapInv, UndisturbedInv
<1> QED BY <1>2, <1>3 DEF UndisturbedInv

(* Every step is a step of ReliableQueue or leaves its variables alone. *)
LEMMA ReliableStep ==
  ASSUME NoOverflow, CapInv, [Next]_vars
  PROVE  UndisturbedInv' /\ [Reliable!Next]_(Reliable!vars)
<1>q. ASSUME UNCHANGED <<accepted, Front, acked, dropped>>
      PROVE  [Reliable!Next]_(Reliable!vars)
  BY <1>q DEF Reliable!vars
<1>a. accepted \in Nat /\ accepted <= MaxItems
  BY DEF CapInv, UndisturbedInv, ShapeInv, TypeOK, QueueTypes
<1>1. CASE Enqueue
  <2>1. /\ removed' = removed /\ accepted' = accepted + 1
        /\ accepted + 1 <= MaxItems
    BY <1>1, EnqueueFits
  <2>2. RunFlush(FALSE, call) /\ acked' = acked /\ dropped' = dropped
    BY <1>1 DEF Enqueue
  <2>3. Front' = Front /\ UndisturbedInv'
    <3> DEFINE a == accepted + 1
    <3>1. a \in Nat /\ accepted' = a /\ a <= MaxItems
      BY <1>a, <2>1
    <3> HIDE DEF a
    <3> QED BY <2>1, <2>2, <3>1, FlushRequestExact
  <2>4. Reliable!Accept
    BY <2>1, <2>2, <2>3 DEF Reliable!Accept
  <2> QED BY <2>3, <2>4 DEF Reliable!Next
<1>r. ASSUME NEW drain \in BOOLEAN, NEW calls, RunFlush(drain, calls),
             UNCHANGED queueVars, UNCHANGED fateVars
      PROVE  UndisturbedInv' /\ [Reliable!Next]_(Reliable!vars)
  <2>1. Front' = Front /\ UndisturbedInv'
    BY <1>r, <1>a, FlushRequestExact DEF queueVars
  <2> QED BY <1>r, <1>q, <2>1 DEF queueVars, fateVars
<1>2. ASSUME NEW c \in Callers, FlushPending(c)
      PROVE  UndisturbedInv' /\ [Reliable!Next]_(Reliable!vars)
  BY <1>2, <1>r DEF FlushPending
<1>3. CASE IntervalFires
  <2>1. RunFlush(TRUE, call) /\ UNCHANGED queueVars /\ UNCHANGED fateVars
    BY <1>3 DEF IntervalFires
  <2> QED BY <1>r, <2>1
<1>4. CASE RetryTimerFires
  <2>1. RunFlush(FALSE, call) /\ UNCHANGED queueVars /\ UNCHANGED fateVars
    BY <1>4 DEF RetryTimerFires
  <2> QED BY <1>r, <2>1
<1>k. ASSUME UNCHANGED queueVars, acked' = acked, dropped' = dropped,
             \/ UNCHANGED <<phase, passStart, delivered>>
             \/ phase # "delivering" /\ phase' # "delivering"
             \/ phase # "delivering" /\ passStart' = removed' /\ delivered' = 0
      PROVE  UndisturbedInv' /\ [Reliable!Next]_(Reliable!vars)
  <2>1. Front' = Front
    BY <1>k DEF Front, queueVars, CapInv, ShapeInv, TypeOK, QueueTypes
  <2>2. UndisturbedInv'
    BY <1>k DEF CapInv, UndisturbedInv, queueVars
  <2> QED BY <1>k, <1>q, <2>1, <2>2 DEF queueVars
<1>5. CASE BackoffExpires
  BY <1>5, <1>k DEF BackoffExpires, passVars, fateVars
<1>6. CASE Stop
  BY <1>6, <1>k DEF Stop, passVars, fateVars
<1>c. ASSUME phase = "delivering"
      PROVE  \E size \in 1 .. MaxBatch :
               /\ Front + size = ChunkEnd /\ ChunkEnd <= accepted
               /\ Chunk = Front + 1 .. Front + size
  <2>1. /\ Front \in Nat /\ ChunkEnd \in Nat /\ Front < ChunkEnd
        /\ ChunkEnd <= Front + MaxBatch /\ ChunkEnd <= accepted
        /\ Chunk = {i \in 1 .. accepted : Front < i /\ i <= ChunkEnd}
    BY <1>a, <1>c, ChunkAtFront
    DEF CapInv, ShapeInv, TypeOK, PassTypes, PassShape, Items
  <2>2. Chunk = Front + 1 .. ChunkEnd
    BY <1>a, <2>1
  <2>3. ChunkEnd - Front \in 1 .. MaxBatch /\ Front + (ChunkEnd - Front) = ChunkEnd
    BY <2>1, QueueAssumption
  <2> QED BY <2>1, <2>2, <2>3
<1>7. CASE DeliverySucceeds
  <2>1. /\ phase = "delivering" /\ Front' = ChunkEnd /\ accepted' = accepted
        /\ UndisturbedInv' /\ acked' = acked \cup Chunk /\ dropped' = dropped
    BY <1>7, AdvanceExact DEF DeliverySucceeds, Answered
  <2>2. \E size \in 1 .. MaxBatch : Reliable!Settle(size)
    BY <1>c, <2>1 DEF Reliable!Settle
  <2> QED BY <2>1, <2>2 DEF Reliable!Next
<1>8. ASSUME Answered, GiveUpChunk
      PROVE  UndisturbedInv' /\ [Reliable!Next]_(Reliable!vars)
  <2>1. /\ phase = "delivering" /\ Front' = ChunkEnd /\ accepted' = accepted
        /\ UndisturbedInv' /\ dropped' = dropped \cup Chunk /\ acked' = acked
    BY <1>8, AdvanceExact DEF GiveUpChunk, Answered
  <2>2. \E size \in 1 .. MaxBatch : Reliable!Settle(size)
    BY <1>c, <2>1 DEF Reliable!Settle
  <2> QED BY <2>1, <2>2 DEF Reliable!Next
<1>9. CASE DeliveryFails
  BY <1>8, <1>9, <1>q, RetryExact DEF DeliveryFails
<1>10. CASE LoopReturns
  BY <1>10, <1>k DEF LoopReturns, fateVars
<1>11. CASE LoopRepeats
  BY <1>11, <1>k DEF LoopRepeats, StartPass, fateVars
<1>12. CASE FlushReturns
  BY <1>12, <1>k DEF FlushReturns, fateVars
<1>13. CASE UNCHANGED vars
  BY <1>13, <1>k DEF vars, passVars, fateVars
<1> QED
  BY <1>1, <1>2, <1>3, <1>4, <1>5, <1>6, <1>7, <1>8, <1>9, <1>10,
     <1>11, <1>12, <1>13
  DEF Next, DeliveryFailsPermanently

LEMMA CapStep == ASSUME NoOverflow PROVE CapInv /\ [Next]_vars => CapInv'
BY ReliableStep, ShapeStep DEF CapInv

(* Below its capacity the queue implements ReliableQueue: every accepted   *)
(* item meets one fate, in order, in batches of at most maxBatchSize       *)
(* (event-queue.ts:30-35).                                                 *)
THEOREM Refinement ==
  ASSUME NoOverflow
  PROVE  Spec => ImplementsReliableQueue
<1>1. Init => Reliable!Init
  BY DEF Init, Reliable!Init, Front
<1>2. CapInv /\ [Next]_vars => [Reliable!Next]_(Reliable!vars)
  BY ReliableStep
<1> QED
  BY <1>1, <1>2, CapInit, CapStep, PTL
  DEF Spec, ImplementsReliableQueue, Reliable!Spec

(* The abstract queue gives every settled item exactly one fate. *)
LEMMA OneFateInit == Reliable!Init => Reliable!OneFateEach /\ Front \in Nat
BY DEF Reliable!Init, Reliable!OneFateEach

LEMMA OneFateStep ==
  Reliable!OneFateEach /\ Front \in Nat /\ [Reliable!Next]_(Reliable!vars)
    => Reliable!OneFateEach' /\ Front' \in Nat
<1> SUFFICES ASSUME Reliable!OneFateEach, Front \in Nat,
                    [Reliable!Next]_(Reliable!vars)
             PROVE  Reliable!OneFateEach' /\ Front' \in Nat
  OBVIOUS
<1>1. CASE Reliable!Accept
  BY <1>1 DEF Reliable!Accept, Reliable!OneFateEach
<1>2. ASSUME NEW size \in 1 .. MaxBatch, Reliable!Settle(size)
      PROVE  Reliable!OneFateEach' /\ Front' \in Nat
  <2> DEFINE batch == Front + 1 .. Front + size
  <2>1. Front' = Front + size /\ Front + size \in Nat
    BY <1>2, QueueAssumption DEF Reliable!Settle
  <2>2. /\ 1 .. Front + size = (1 .. Front) \cup batch
        /\ (1 .. Front) \cap batch = {}
    BY <1>2, QueueAssumption
  <2>3. \/ acked' = acked \cup batch /\ dropped' = dropped
        \/ dropped' = dropped \cup batch /\ acked' = acked
    BY <1>2 DEF Reliable!Settle
  <2> HIDE DEF batch
  <2>4. /\ acked' \cup dropped' = 1 .. Front + size
        /\ acked' \cap dropped' = {}
    BY <2>2, <2>3 DEF Reliable!OneFateEach
  <2> QED BY <2>1, <2>4 DEF Reliable!OneFateEach
<1>3. CASE UNCHANGED Reliable!vars
  BY <1>3 DEF Reliable!vars, Reliable!OneFateEach
<1> QED BY <1>1, <1>2, <1>3 DEF Reliable!Next

(* Below its capacity the queue removes an item only once it is delivered  *)
(* or given up (event-queue.ts:169-170).                                   *)
THEOREM NothingIsLost ==
  ASSUME NoOverflow
  PROVE  Spec => []RemovedOnlyWhenSettled
<1>1. Spec => []CapInv
  BY CapInit, CapStep, PTL DEF Spec
<1>2. Spec => []Reliable!OneFateEach
  <2> DEFINE Fate == Reliable!OneFateEach /\ Front \in Nat
  <2>1. Spec => Reliable!Init /\ [][Reliable!Next]_(Reliable!vars)
    BY Refinement DEF ImplementsReliableQueue, Reliable!Spec
  <2>2. Reliable!Init => Fate
    BY OneFateInit
  <2>3. Fate /\ [Reliable!Next]_(Reliable!vars) => Fate'
    BY OneFateStep
  <2>4. Fate => Reliable!OneFateEach
    OBVIOUS
  <2> HIDE DEF Fate
  <2> QED BY <2>1, <2>2, <2>3, <2>4, PTL
<1>3. CapInv /\ Reliable!OneFateEach => RemovedOnlyWhenSettled
  <2> SUFFICES ASSUME CapInv, Reliable!OneFateEach, NEW i \in 1 .. removed
               PROVE  i \in acked \cup dropped
    BY DEF RemovedOnlyWhenSettled
  <2>1. removed <= Front /\ Front \in Nat /\ removed \in Nat
    BY DEF CapInv, UndisturbedInv, ShapeInv, TypeOK, PassTypes, QueueTypes,
           Front
  <2> QED BY <2>1 DEF Reliable!OneFateEach
<1> QED BY <1>1, <1>2, <1>3, PTL
=============================================================================
