---------------------------- MODULE GroupForest ----------------------------
(***************************************************************************)
(* What GRUPTREE and WELSPECS promise: every group but the field hangs     *)
(* below one other group, every well in one group, and a statement moves   *)
(* what it names and nothing else.                                         *)
(***************************************************************************)
CONSTANTS Groups, Wells, FIELD

VARIABLES
  up,      \* the group a group hangs below, for the groups there are
  home     \* the group of a well, for the wells there are

forest == <<up, home>>

Known == DOMAIN up \cup {FIELD}

Init ==
  /\ up = [g \in {} |-> FIELD]
  /\ home = [w \in {} |-> FIELD]

(* The parents of the groups once the groups of S are there as well. *)
With(S) == [g \in DOMAIN up \cup (S \ {FIELD}) |-> IF g \in DOMAIN up THEN up[g] ELSE FIELD]

(* The group and the parent are entered below the field, unless they are   *)
(* there, and the group is hung below the parent.                          *)
Hang(c, p) ==
  /\ c # FIELD
  /\ up' = [With({c, p}) EXCEPT ![c] = p]
  /\ UNCHANGED home

(* The well is put in the group, which is entered unless it is there. *)
Place(w, g) ==
  /\ up' = With({g})
  /\ home' = [v \in DOMAIN home \cup {w} |-> IF v = w THEN g ELSE home[v]]

Enter(g) == up' = With({g}) /\ UNCHANGED home

Next ==
  \/ \E c, p \in Groups : Hang(c, p)
  \/ \E w \in Wells, g \in Groups : Place(w, g)
  \/ \E g \in Groups : Enter(g)

Spec == Init /\ [][Next]_forest
=============================================================================
