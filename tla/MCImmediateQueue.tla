------------------------- MODULE MCImmediateQueue --------------------------
(* Model checking of ImmediateQueue: one slot more than the cap, so that   *)
(* the cap is met while settled sends still await their deletion.          *)
EXTENDS ImmediateQueue
=============================================================================
