-------------------------- MODULE ImmediateQueue ---------------------------
(***************************************************************************)
(* The immediate mode of EventQueue and SpanQueue (sendMode 'immediate',   *)
(* src/core/transport/event-queue.ts and span-queue.ts): nothing is        *)
(* queued, every enqueue() starts a send of its own, and flushPending()    *)
(* waits for the sends that are in immediateSends when it is called.       *)
(*                                                                         *)
(* A slot stands for one send, from its enqueue() until immediateSends has *)
(* forgotten it; it is then used again.  deliver() answers at any later    *)
(* time.                                                                   *)
(***************************************************************************)
EXTENDS Integers, FiniteSets

CONSTANTS
  MaxInFlight,  \* MAX_IN_FLIGHT_IMMEDIATE
  Slots,        \* bound: the sends that exist at the same time
  Flushers      \* bound: the callers of flushPending(), each one call at a time

ASSUME ImmediateAssumption ==
  /\ MaxInFlight \in Nat \ {0}
  /\ IsFiniteSet(Slots)

VARIABLES
  send,               \* "none", "inFlight" or, deliver() answered, "settled"
  immediateSends,     \* the Set of promises, as slots
  inFlightImmediate,
  pending,            \* pending[f]: what f's Promise.allSettled() waits for
  flush,              \* flush[f]: "none", "waiting" or "returned"
  owed                \* history: the sends on the air when f called

vars == <<send, immediateSends, inFlightImmediate, pending, flush, owed>>

-----------------------------------------------------------------------------
InFlight == {s \in Slots : send[s] = "inFlight"}

Without(sets, s) == [f \in Flushers |-> sets[f] \ {s}]

(* Mutant of DeliverImmediately: the cap is tested with >. *)
DeliverOverCap(s) ==
  /\ send[s] = "none" /\ inFlightImmediate <= MaxInFlight
  /\ inFlightImmediate' = inFlightImmediate + 1
  /\ send' = [send EXCEPT ![s] = "inFlight"]
  /\ immediateSends' = immediateSends \cup {s}
  /\ UNCHANGED <<pending, flush, owed>>

(* enqueue().  At the cap the item is dropped and nothing changes.  *)
DeliverImmediately(s) ==
  /\ send[s] = "none" /\ inFlightImmediate < MaxInFlight
  /\ inFlightImmediate' = inFlightImmediate + 1
  /\ send' = [send EXCEPT ![s] = "inFlight"]
  /\ immediateSends' = immediateSends \cup {s}
  /\ UNCHANGED <<pending, flush, owed>>

(* deliver() accepts the item: the finally block gives the place back and  *)
(* the send's promise resolves.                                            *)
SendSucceeds(s) ==
  /\ send[s] = "inFlight"
  /\ inFlightImmediate' = inFlightImmediate - 1
  /\ send' = [send EXCEPT ![s] = "settled"]
  /\ owed' = Without(owed, s)
  /\ UNCHANGED <<immediateSends, pending, flush>>

(* Mutant of SendFails: the place is given back on success only. *)
SendFailsKeepsPlace(s) ==
  /\ send[s] = "inFlight"
  /\ send' = [send EXCEPT ![s] = "settled"]
  /\ owed' = Without(owed, s)
  /\ UNCHANGED <<immediateSends, inFlightImmediate, pending, flush>>

(* deliver() rejects: the send swallows the error and ends the same way. *)
SendFails(s) ==
  /\ send[s] = "inFlight"
  /\ inFlightImmediate' = inFlightImmediate - 1
  /\ send' = [send EXCEPT ![s] = "settled"]
  /\ owed' = Without(owed, s)
  /\ UNCHANGED <<immediateSends, pending, flush>>

(* The reactions to that promise, in the order they were registered:       *)
(* send.finally() deletes it from the set, then every allSettled() counts  *)
(* it off.                                                                 *)
Forget(s) ==
  /\ send[s] = "settled"
  /\ send' = [send EXCEPT ![s] = "none"]
  /\ immediateSends' = immediateSends \ {s}
  /\ pending' = Without(pending, s)
  /\ UNCHANGED <<inFlightImmediate, flush, owed>>

(* Mutant of FlushPending: it returns at once, as before immediateSends. *)
FlushPendingReturnsAtOnce(f) ==
  /\ flush[f] # "waiting"
  /\ flush' = [flush EXCEPT ![f] = "waiting"]
  /\ pending' = [pending EXCEPT ![f] = {}]
  /\ owed' = [owed EXCEPT ![f] = InFlight]
  /\ UNCHANGED <<send, immediateSends, inFlightImmediate>>

FlushPending(f) ==
  /\ flush[f] # "waiting"
  /\ flush' = [flush EXCEPT ![f] = "waiting"]
  /\ pending' = [pending EXCEPT ![f] = immediateSends]
  /\ owed' = [owed EXCEPT ![f] = InFlight]
  /\ UNCHANGED <<send, immediateSends, inFlightImmediate>>

(* Mutant of FlushReturns: it waits for the set, not for its snapshot. *)
FlushReturnsWhenEmpty(f) ==
  /\ flush[f] = "waiting" /\ immediateSends = {}
  /\ flush' = [flush EXCEPT ![f] = "returned"]
  /\ UNCHANGED <<send, immediateSends, inFlightImmediate, pending, owed>>

FlushReturns(f) ==
  /\ flush[f] = "waiting" /\ pending[f] = {}
  /\ flush' = [flush EXCEPT ![f] = "returned"]
  /\ UNCHANGED <<send, immediateSends, inFlightImmediate, pending, owed>>

-----------------------------------------------------------------------------
Init ==
  /\ send = [s \in Slots |-> "none"]
  /\ immediateSends = {} /\ inFlightImmediate = 0
  /\ pending = [f \in Flushers |-> {}]
  /\ flush = [f \in Flushers |-> "none"]
  /\ owed = [f \in Flushers |-> {}]

Next ==
  \/ \E s \in Slots : \/ DeliverImmediately(s)
                      \/ SendSucceeds(s)
                      \/ SendFails(s)
                      \/ Forget(s)
  \/ \E f \in Flushers : FlushPending(f) \/ FlushReturns(f)

Spec == Init /\ [][Next]_vars

(* Microtasks run, and deliver() settles: the default transport aborts a   *)
(* request after 10 seconds (default-fetch-transport.ts).                  *)
FairSpec ==
  /\ Spec
  /\ \A s \in Slots : WF_vars(SendSucceeds(s) \/ SendFails(s)) /\ WF_vars(Forget(s))
  /\ \A f \in Flushers : WF_vars(FlushReturns(f))

-----------------------------------------------------------------------------
(* Types; the counter never passes MAX_IN_FLIGHT_IMMEDIATE. *)
TypeOK ==
  /\ send \in [Slots -> {"none", "inFlight", "settled"}]
  /\ immediateSends \subseteq Slots
  /\ inFlightImmediate \in 0 .. MaxInFlight
  /\ pending \in [Flushers -> SUBSET Slots]
  /\ flush \in [Flushers -> {"none", "waiting", "returned"}]
  /\ owed \in [Flushers -> SUBSET Slots]

(* Every place is given back, whatever becomes of the send: otherwise the  *)
(* cap would, one failure at a time, close for good                        *)
(* (event-queue.ts:96-107).                                                *)
EveryPlaceCounted == inFlightImmediate = Cardinality(InFlight)

(* A flushPending() that has returned left no send on the air that had     *)
(* been started before it: shutdown() and the crash handler may exit       *)
(* (event-queue.ts:74-76).                                                 *)
FlushAwaitsSends == \A f \in Flushers : flush[f] = "returned" => owed[f] = {}

(* ... and it does return, however many sends are started meanwhile. *)
FlushEnds == \A f \in Flushers : flush[f] = "waiting" ~> flush[f] = "returned"
=============================================================================
