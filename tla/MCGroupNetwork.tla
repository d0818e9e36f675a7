--------------------------- MODULE MCGroupNetwork ---------------------------
(***************************************************************************)
(* The networks with two groups below FIELD, a well, and a node that is no *)
(* group.  The two groups can change places.                               *)
(***************************************************************************)
EXTENDS InjectionNetwork

CONSTANTS A, B, N, V

Symmetry == Permutations({A, B})
=============================================================================
