----------------------------- MODULE GroupTree -----------------------------
(***************************************************************************)
(* The groups and wells of one snapshot.  The tree is kept twice: each     *)
(* group knows its parent, and each group knows its child groups or its    *)
(* wells; each well knows its group.  A tree is a record of these          *)
(* functions; the order of the children is not kept.                       *)
(***************************************************************************)
EXTENDS Naturals, FiniteSets

CONSTANTS
  Groups,    \* the names of groups
  Wells,     \* the names of wells
  FIELD,     \* the group at the root
  NoGroup    \* stands for no parent, and for the group of a well not entered yet

ASSUME GroupAssumption == FIELD \in Groups /\ NoGroup \notin Groups /\ IsFiniteSet(Groups)

Trees ==
  [groups : SUBSET Groups,
   parent : [Groups -> Groups \cup {NoGroup}],
   children : [Groups -> SUBSET Groups],
   wells : [Groups -> SUBSET Wells],
   home : [Wells -> Groups \cup {NoGroup}],
   satellites : SUBSET Groups]

FieldAlone ==
  [groups |-> {FIELD},
   parent |-> [g \in Groups |-> NoGroup],
   children |-> [g \in Groups |-> {}],
   wells |-> [g \in Groups |-> {}],
   home |-> [w \in Wells |-> NoGroup],
   satellites |-> {}]

-----------------------------------------------------------------------------
(* A satellite, and a group with wells, cannot have groups below it.       *)
CanParentGroups(t, g) == g \notin t.satellites /\ t.wells[g] = {}

(* Variant with a fault: the groups are not looked at. *)
CanParentWellsToo(t, g) == g \notin t.satellites

(* A satellite, and a group with groups below it, cannot have wells.       *)
CanParentWells(t, g) == g \notin t.satellites /\ t.children[g] = {}

(* A new group starts out below FIELD. *)
addGroup(t, g) ==
  [t EXCEPT !.groups = @ \cup {g},
            !.parent[g] = FIELD,
            !.children[FIELD] = @ \cup {g}]

(* Variant with a fault: a group that is there is entered again. *)
EnsuredAnew(t, g) == addGroup(t, g)

Ensured(t, g) == IF g \in t.groups THEN t ELSE addGroup(t, g)

EnsureRefused(t, g) == g \notin t.groups /\ ~CanParentGroups(t, FIELD)

(* Variant with a fault: it is taken off the old one last, which may be the new one. *)
addGroupToGroupLost(t, p, c) ==
  [t EXCEPT !.children = [[@ EXCEPT ![p] = @ \cup {c}] EXCEPT ![t.parent[c]] = @ \ {c}],
            !.parent[c] = p]

(* The child is entered with the new parent, then taken off the old one.   *)
addGroupToGroup(t, p, c) ==
  IF t.parent[c] = p THEN [t EXCEPT !.children[p] = @ \cup {c}]
  ELSE [t EXCEPT !.children = [g \in Groups |-> CASE g = p -> @[g] \cup {c}
                                                   [] g = t.parent[c] -> @[g] \ {c}
                                                   [] OTHER -> @[g]],
                 !.parent[c] = p]

(* FIELD has no parent that it could be taken off; a parent that does not  *)
(* know its child is an error.                                             *)
addGroupToGroupRefused(t, p, c) ==
  \/ ~CanParentGroups(t, p)
  \/ t.parent[c] = NoGroup
  \/ t.parent[c] # p /\ c \notin t.children[t.parent[c]]

addWellToGroup(t, g, w) ==
  IF t.home[w] \in {g, NoGroup} THEN [t EXCEPT !.wells[g] = @ \cup {w}, !.home[w] = g]
  ELSE [t EXCEPT !.wells = [h \in Groups |-> CASE h = g -> @[h] \cup {w}
                                                [] h = t.home[w] -> @[h] \ {w}
                                                [] OTHER -> @[h]],
                 !.home[w] = g]

addWellToGroupRefused(t, g, w) ==
  \/ ~CanParentWells(t, g)
  \/ t.home[w] \notin {g, NoGroup} /\ w \notin t.wells[t.home[w]]

(* Nothing looks at what is below the group. *)
recordSatelliteProduction(t, g) == [t EXCEPT !.satellites = @ \cup {g}]

-----------------------------------------------------------------------------
(* The groups from g on down, as groupTree walks them: by the child lists. *)
Below(t, g) ==
  LET reach[k \in 0 .. Cardinality(Groups)] ==
        IF k = 0 THEN {g}
        ELSE reach[k - 1] \cup UNION {t.children[h] : h \in reach[k - 1]}
  IN  reach[Cardinality(Groups)]
=============================================================================
