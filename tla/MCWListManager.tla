--------------------------- MODULE MCWListManager ---------------------------
(* Three lists and two wells, any sequence of operations. *)
EXTENDS WListManager

CONSTANTS L1, L2, L3, P, Q
=============================================================================
