----------------------------- MODULE MCTracing -----------------------------
(* Tracing with two tasks and two error objects, both interchangeable.            *)
EXTENDS Tracing, TLC

Symmetry == Permutations(Tasks) \cup Permutations(Errors)
=============================================================================
