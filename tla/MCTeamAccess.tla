----------------------------- MODULE MCTeamAccess -----------------------------
(***************************************************************************)
(* Model checking of TeamAccess: neither users nor calls are told apart.   *)
(***************************************************************************)
EXTENDS TeamAccess, TLC

Symmetry == Permutations(Users) \cup Permutations(Calls)
=============================================================================
