----------------------------- MODULE MCRuntime -----------------------------
(* What the SDK runs on its own: the polling of the policy, with the       *)
(* constants of the code in seconds (MAX_BACKOFF_MS, RETRY_AFTER_MAX_MS),  *)
(* and the fuse, whose clock runs for more than two windows, so that a     *)
(* burst can straddle the border between them.  They share nothing: each   *)
(* is explored while the other is at rest.                                 *)
EXTENDS CapturePolicyCache, SafeRun

RuntimeInit == Init /\ FuseInit
RuntimeNext == \/ FuseInit /\ Next /\ UNCHANGED fuseVars
               \/ Init /\ FuseNext /\ UNCHANGED vars
RuntimeSpec == RuntimeInit /\ [][RuntimeNext]_<<vars, fuseVars>>
=============================================================================
