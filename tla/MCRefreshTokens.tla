---------------------------- MODULE MCRefreshTokens ----------------------------
(***************************************************************************)
(* Model checking of RefreshTokens: neither calls nor passwords are told   *)
(* apart.                                                                  *)
(***************************************************************************)
EXTENDS RefreshTokens, TLC

Symmetry == Permutations(Calls) \cup Permutations(Passwords)
=============================================================================
