----------------------------- MODULE MCGoogleOAuth -----------------------------
(***************************************************************************)
(* Model checking of GoogleOAuth: calls, Google accounts and e-mails are   *)
(* interchangeable.                                                        *)
(***************************************************************************)
EXTENDS GoogleOAuth, TLC

Symmetry == Permutations(Calls) \cup Permutations(Subs) \cup Permutations(Emails)
=============================================================================
