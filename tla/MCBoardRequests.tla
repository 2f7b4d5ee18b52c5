--------------------------- MODULE MCBoardRequests ---------------------------
(* BoardRequests for TLC: calls in flight are interchangeable. *)
EXTENDS BoardRequests

Symmetry == Permutations(Calls)
=============================================================================
