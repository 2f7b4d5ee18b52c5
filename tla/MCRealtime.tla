----------------------------- MODULE MCRealtime -----------------------------
(* Realtime for TLC: the tab of a user beside another of theirs or a guest. *)
EXTENDS Realtime, TLC

CONSTANTS u1, s1, s2

MCUses == s1 :> {u1} @@ s2 :> {u1, Anonymous}
=============================================================================
