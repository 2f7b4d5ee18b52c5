---------------------------- MODULE MCCardContent ----------------------------
(* CardContent for TLC: the card and what is shown of it, or its comments. *)
EXTENDS CardContent

MCRepertoires ==
    {{"LIKE", "EDIT", "SETTINGS", "HIDE_CARDS"},
     {"COMMENT", "EDIT_COMMENT", "DELETE_COMMENT", "DELETE", "OPEN_BOARDS"}}

Symmetry == Permutations(Users) \cup Permutations(Calls)
=============================================================================
