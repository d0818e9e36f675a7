-------------------------- MODULE MCWellTestState --------------------------
(* One well, a few time steps and report steps, at most one restart. *)
EXTENDS WellTestState

MCWTests == {{"PHYSICAL", "THP_DESIGN"}, {"ECONOMIC"}}
=============================================================================
