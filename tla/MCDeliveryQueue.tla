-------------------------- MODULE MCDeliveryQueue --------------------------
(* Model checking of DeliveryQueue: the constants come from the .cfg files. *)
EXTENDS DeliveryQueue
=============================================================================
