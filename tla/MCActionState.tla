--------------------------- MODULE MCActionState ---------------------------
(***************************************************************************)
(* ActionState with one action that may be redefined, a script of each     *)
(* kind that stops, and a few report steps.                                *)
(***************************************************************************)
EXTENDS ActionState

MCRunCount ==
  [p \in Scripts |-> CASE p = "once"  -> "single"
                       [] p = "until" -> "first_true"
                       [] OTHER       -> "unlimited"]
=============================================================================
