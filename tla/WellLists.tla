----------------------------- MODULE WellLists -----------------------------
(***************************************************************************)
(* What the keyword WLIST promises: named sets of wells, changed by NEW,   *)
(* ADD, MOV and DEL, and not changed by continuing the run from a restart  *)
(* file.                                                                   *)
(***************************************************************************)
CONSTANTS Lists, Wells

VARIABLE members   \* members[l]: the wells of list l, none if there is no such list

Init == members = [l \in Lists |-> {}]

New(l, ws) == members' = [members EXCEPT ![l] = ws]
Add(l, ws) == members' = [members EXCEPT ![l] = @ \cup ws]
Mov(l, ws) == members' = [k \in Lists |-> IF k = l THEN members[k] \cup ws ELSE members[k] \ ws]
Del(l, ws) == members' = [members EXCEPT ![l] = @ \ ws]

Next == \E l \in Lists, ws \in SUBSET Wells : New(l, ws) \/ Add(l, ws) \/ Mov(l, ws) \/ Del(l, ws)

Spec == Init /\ [][Next]_members
=============================================================================
