--------------------------- MODULE MCHttpRequests ---------------------------
(* HttpRequests with interchangeable requests.                                    *)
EXTENDS HttpRequests, TLC

Symmetry == Permutations(Requests)
=============================================================================
