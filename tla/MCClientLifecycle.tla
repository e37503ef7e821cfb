------------------------- MODULE MCClientLifecycle -------------------------
(* Model checking of ClientLifecycle: two calls, so that a crash or a      *)
(* flush() overlaps a shutdown(), and a second client to replace the first.*)
EXTENDS ClientLifecycle
=============================================================================
