--------------------------- MODULE ReliableQueue ---------------------------
(***************************************************************************)
(* What a delivery queue promises while it is not over its capacity: every *)
(* accepted item meets exactly one fate, acknowledged by the backend or    *)
(* given up, in the order of acceptance and in batches of bounded size.    *)
(* Items are numbered as in DeliveryQueue.  Failed attempts that will be   *)
(* retried are invisible here.                                             *)
(***************************************************************************)
EXTENDS Integers

CONSTANT MaxBatch

VARIABLES
  accepted,  \* items accepted so far
  settled,   \* items whose fate is known: 1 .. settled
  acked,     \* those the backend acknowledged
  dropped    \* those given up

vars == <<accepted, settled, acked, dropped>>

Init == accepted = 0 /\ settled = 0 /\ acked = {} /\ dropped = {}

Accept ==
  /\ accepted' = accepted + 1
  /\ UNCHANGED <<settled, acked, dropped>>

(* The oldest unsettled items meet their fate together. *)
Settle(size) ==
  LET batch == settled + 1 .. settled + size IN
  /\ settled + size <= accepted
  /\ settled' = settled + size
  /\ \/ acked' = acked \cup batch /\ UNCHANGED dropped
     \/ dropped' = dropped \cup batch /\ UNCHANGED acked
  /\ UNCHANGED accepted

Next == Accept \/ \E size \in 1 .. MaxBatch : Settle(size)

Spec == Init /\ [][Next]_vars

(* Every settled item has exactly one fate, and no other item has any. *)
OneFateEach ==
  /\ acked \cup dropped = 1 .. settled
  /\ acked \cap dropped = {}
=============================================================================
