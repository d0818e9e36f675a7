---------------------------- MODULE GroupNetwork ----------------------------
(***************************************************************************)
(* The keywords that build the group tree and the surface network, record  *)
(* by record, in the snapshot of the last report step, and the restart     *)
(* from a file written at its end.  A standard network (GRUPNET) follows   *)
(* the group tree; an extended one (BRANPROP, NODEPROP) has a tree of its  *)
(* own; a schedule has one or the other.                                   *)
(*                                                                         *)
(* The groups of a new snapshot are the objects of the snapshot before,    *)
(* until a handler puts a changed copy in their place.                     *)
(***************************************************************************)
EXTENDS GroupTree, ExtNetwork

CONSTANTS
  Nodes,      \* the names in BRANPROP and NODEPROP: groups and others
  MaxRecords  \* bound: the records of a run

ASSUME NodesAssumption == NoGroup \notin Nodes

VARIABLES
  tree,      \* the groups and wells of the last snapshot
  net,       \* its network
  manifolds, \* its groups that were made chokes
  before,    \* the groups that are chokes in the snapshot before
  shared,    \* the groups whose object is that of the snapshot before
  restarted, \* the run continues from a restart file
  fault,     \* an error was raised: the run ends
  count      \* the records so far, the ends of report steps included

vars == <<tree, net, manifolds, before, shared, restarted, fault, count>>

Init ==
  /\ tree = FieldAlone
  /\ net = EmptyNetwork
  /\ manifolds = {}
  /\ before = {}
  /\ shared = {}
  /\ restarted = FALSE
  /\ fault = FALSE
  /\ count = 0

Count == /\ ~fault
         /\ count < MaxRecords
         /\ count' = count + 1

Refuse == fault' = TRUE /\ UNCHANGED <<tree, net, manifolds, before, shared, restarted>>

(* The groups that a handler put a copy of in their place. *)
Renewed(t) ==
  {g \in Groups : \/ tree.parent[g] # t.parent[g]
                  \/ tree.children[g] # t.children[g]
                  \/ tree.wells[g] # t.wells[g]
                  \/ (g \in tree.satellites) # (g \in t.satellites)}

-----------------------------------------------------------------------------
(* Variant with a fault: the branch is left where it was. *)
followedNot(c, p) == net

(* The standard network follows a group that moves.                        *)
followed(c, p) ==
  LET at == UptreeAt(net, c)
  IN  IF net.standard /\ has_node(net, c) /\ at # 0
      THEN add_or_replace_branch(net, [net.branches[at] EXCEPT !.up = p])
      ELSE net

(* GRUPTREE.  A record that would hang a group below itself is no tree,    *)
(* and not a legal input; the handler does not look.                       *)
GRUPTREE(c, p) ==
  LET t1 == Ensured(tree, c)
      t2 == Ensured(t1, p)
      t3 == addGroupToGroup(t2, p, c)
  IN  /\ p \notin Below(tree, c)
      /\ Count
      /\ IF \/ EnsureRefused(tree, c) \/ EnsureRefused(t1, p)
            \/ addGroupToGroupRefused(t2, p, c)
         THEN Refuse
         ELSE /\ tree' = t3
              /\ net' = followed(c, p)
              /\ shared' = shared \ Renewed(t3)
              /\ UNCHANGED <<manifolds, before, restarted, fault>>

(* WELSPECS: a new well, or an old one in the same or in another group. *)
WELSPECS(w, g) ==
  LET t1 == Ensured(tree, g)
      t2 == addWellToGroup(t1, g, w)
  IN  /\ Count
      /\ IF EnsureRefused(tree, g) \/ addWellToGroupRefused(t1, g, w)
         THEN Refuse
         ELSE /\ tree' = t2
              /\ shared' = shared \ (Renewed(t2) \cup {g})
              /\ UNCHANGED <<net, manifolds, before, restarted, fault>>

(* GSATPROD makes a group a satellite, FIELD excepted. *)
GSATPROD(g) ==
  LET t == recordSatelliteProduction(Ensured(tree, g), g)
  IN  /\ Count
      /\ IF g = FIELD \/ EnsureRefused(tree, g)
         THEN Refuse
         ELSE /\ tree' = t
              /\ shared' = shared \ (Renewed(t) \cup {g})
              /\ UNCHANGED <<net, manifolds, before, restarted, fault>>

-----------------------------------------------------------------------------
(* BRANPROP with a VFP table enters or replaces a branch, with table 0 it  *)
(* drops it; 9999 is a branch without a table.                             *)
BRANPROP(d, u, table) ==
  LET n == [net EXCEPT !.standard = FALSE]
  IN  /\ Count
      /\ IF active(net) /\ net.standard THEN Refuse
         ELSE /\ net' = IF table = 0 THEN drop_branch(n, u, d)
                        ELSE add_or_replace_branch(n, Branch(d, u, table # 9999))
              /\ UNCHANGED <<tree, manifolds, before, shared, restarted, fault>>

(* NODEPROP.  A choke must be a group of wells.  The handler marks the     *)
(* group, which it does not copy first.                                    *)
NODEPROP(n, fixed, choke) ==
  LET manifold == choke /\ n \in tree.groups
      node == [fixed |-> fixed, choke |-> manifold]
      wellgroup == n \in tree.groups /\ tree.children[n] = {} /\ n \notin tree.satellites
  IN  /\ Count
      /\ IF \/ active(net) /\ net.standard
            \/ manifold /\ ~wellgroup
            \/ update_nodeRefused(net, n, node)
         THEN Refuse
         ELSE /\ net' = update_node(net, n, node)
              /\ manifolds' = IF manifold THEN manifolds \cup {n} ELSE manifolds
              /\ before' = IF manifold /\ n \in shared THEN before \cup {n} ELSE before
              /\ UNCHANGED <<tree, shared, restarted, fault>>

(* GRUPNET: a group with a fixed pressure is a node with a branch without  *)
(* a table to its parent, one with a table has a branch to its parent, one *)
(* with neither loses it.                                                  *)
GRUPNET(g, fixed, table) ==
  LET n == [net EXCEPT !.standard = TRUE]
      p == tree.parent[g]
      node == [fixed |-> fixed, choke |-> FALSE]
      linked == IF p = NoGroup THEN n
                ELSE add_or_replace_branch(n, Branch(g, p, ~fixed /\ table # 9999))
  IN  /\ Count
      /\ g \in tree.groups
      /\ IF active(net) /\ ~net.standard THEN Refuse
         ELSE /\ net' = IF fixed \/ table # 0 THEN update_node(linked, g, node)
                        ELSE drop_branch(n, p, g)
              /\ UNCHANGED <<tree, manifolds, before, shared, restarted, fault>>

-----------------------------------------------------------------------------
(* The next report step begins with a copy of the snapshot.                *)
NextStep ==
  /\ Count
  /\ before' = manifolds
  /\ shared' = tree.groups
  /\ UNCHANGED <<tree, net, manifolds, restarted, fault>>

(* Variant with a fault: the groups stay below FIELD. *)
RestoredFlat ==
  [tree EXCEPT !.parent = [g \in Groups |-> IF g \in tree.groups \ {FIELD} THEN FIELD ELSE NoGroup],
               !.children = [p \in Groups |-> IF p = FIELD THEN tree.groups \ {FIELD} ELSE {}]]

(* The run is restarted: each group of the file is entered below FIELD,    *)
(* hung below its parent when that is another group, and its wells are     *)
(* entered; the network is read.  Which groups are chokes is not in the    *)
(* file.                                                                   *)
Restored ==
  [tree EXCEPT !.children = [p \in Groups |-> {c \in tree.groups : tree.parent[c] = p}],
               !.wells = [g \in Groups |-> {w \in Wells : tree.home[w] = g}]]

RestoreRefused ==
  \/ \E c \in tree.groups : tree.parent[c] \in tree.satellites
  \/ \E w \in Wells : tree.home[w] # NoGroup /\ ~CanParentWells(Restored, tree.home[w])

Restart ==
  /\ Count
  /\ IF RestoreRefused THEN Refuse
     ELSE /\ tree' = Restored
          /\ net' = restored_network(net)
          /\ manifolds' = {}
          /\ before' = {}
          /\ shared' = {}
          /\ restarted' = TRUE
          /\ UNCHANGED fault

Keyword ==
  \/ \E c, p \in Groups : GRUPTREE(c, p)
  \/ \E w \in Wells, g \in Groups : WELSPECS(w, g)
  \/ \E g \in Groups : GSATPROD(g)
  \/ \E d, u \in Nodes, table \in {0, 1, 9999} : d # u /\ BRANPROP(d, u, table)
  \/ \E n \in Nodes, fixed, choke \in BOOLEAN : NODEPROP(n, fixed, choke)
  \/ \E g \in Groups, fixed \in BOOLEAN, table \in {0, 1} : GRUPNET(g, fixed, table)

Next == Keyword \/ NextStep \/ Restart

Spec == Init /\ [][Next]_vars

-----------------------------------------------------------------------------
(* Every variable stays in its range. *)
TypeOK ==
  /\ tree \in Trees /\ FIELD \in tree.groups
  /\ net \in Networks(Groups \cup Nodes)
  /\ manifolds \subseteq Groups /\ before \subseteq Groups /\ shared \subseteq Groups
  /\ restarted \in BOOLEAN /\ fault \in BOOLEAN
  /\ count \in Nat

(* The two sides of the tree agree: a group is on the list of the one      *)
(* parent it names, a well on the list of the one group it names, after    *)
(* any sequence of moves and after a restart.                              *)
BackReferences ==
  /\ \A p, c \in Groups : c \in tree.children[p] <=> tree.parent[c] = p
  /\ \A g \in Groups, w \in Wells : w \in tree.wells[g] <=> tree.home[w] = g
  /\ \A c \in Groups : c \in tree.groups \ {FIELD} <=> tree.parent[c] # NoGroup
  /\ \A c \in Groups : tree.parent[c] \in tree.groups \cup {NoGroup}
  /\ \A w \in Wells : tree.home[w] \in tree.groups \cup {NoGroup}

(* No group has both groups and wells below it, in whichever order they    *)
(* were put there.                                                         *)
OneKind == \A g \in Groups : tree.children[g] = {} \/ tree.wells[g] = {}

(* The tree agrees with itself, however often groups and wells are moved.  *)
TreeAgrees == BackReferences /\ OneKind

(* groupTree, which starts at FIELD and walks the lists of children, finds *)
(* every group.                                                            *)
Reachable == Below(tree, FIELD) = tree.groups

(* "Bug - more than one uptree branch" cannot happen: BRANPROP and GRUPNET *)
(* replace a branch up, GRUPTREE moves it, and a restart reads it once.    *)
OneUptree ==
  \A i, j \in DOMAIN net.branches : net.branches[i].down = net.branches[j].down => i = j

(* The ends of the branches are nodes and have a number, which is the only *)
(* one: what is written to the restart file can be read back.              *)
EndsNumbered ==
  /\ \A i \in DOMAIN net.branches :
       {net.branches[i].down, net.branches[i].up} \subseteq DOMAIN net.nodes \cap Range(net.names)
  /\ \A i, j \in DOMAIN net.names : net.names[i] = net.names[j] => i = j
  /\ Range(net.names) \subseteq DOMAIN net.nodes

(* The standard network of GRUPNET has a branch from a group to its parent *)
(* and no other, also after the group has moved.                           *)
StandardMirrors ==
  net.standard => \A i \in DOMAIN net.branches :
                     net.branches[i].up = tree.parent[net.branches[i].down]

(* No node of the network has two branches up, the ends of the branches    *)
(* are nodes with a number of their own, and the network that GRUPNET made *)
(* follows the group tree, moves included.  The network of BRANPROP may    *)
(* still have a cycle.                                                     *)
NetworkSound == OneUptree /\ EndsNumbered /\ StandardMirrors

(* INODE and INOBR agree: where the branches of a node start and how many  *)
(* there are is what INOBR holds, as long as the first branch has the      *)
(* first node at its lower end, which it loses when it is replaced.        *)
InobrIndexed ==
  active(net) /\ net.branches[1].down = net.names[1] =>
    LET inobr == inobrFunc(net)
    IN  \A k \in DOMAIN net.names :
          LET n == net.names[k]
              first == cumNumberOfBranchesConnToNode(net, n)
          IN  /\ first + numberOfBranchesConnToNode(net, n) - 1 <= Len(inobr)
              /\ {inobr[i] : i \in first .. first + numberOfBranchesConnToNode(net, n) - 1}
                   = Range(Connected(net, n))

(* A restart brings back the tree, and a network with the branches of the  *)
(* old one.                                                                *)
RestartFaithful ==
  [][restarted' /\ ~restarted =>
       /\ tree' = tree
       /\ net'.branches = net.branches
       /\ \A n \in Range(net'.names) : net'.nodes[n].fixed = net.nodes[n].fixed]_vars

(* The tree, as its lists of children and wells have it, is the one that   *)
(* GRUPTREE and WELSPECS promise, a restart included.                      *)
Forest ==
  INSTANCE GroupForest
    WITH up <- [g \in tree.groups \ {FIELD} |-> CHOOSE p \in Groups : g \in tree.children[p]],
         home <- [w \in {v \in Wells : tree.home[v] # NoGroup} |->
                    CHOOSE g \in Groups : w \in tree.wells[g]]

ImplementsForest == Forest!Spec

(* ScheduleState.hpp says that a snapshot holds the information at one     *)
(* point in time: what a keyword changes is not changed in earlier ones.   *)
PastKept == [][NextStep \/ Restart \/ before' = before]_vars

(* AggregateGroupData.cpp asserts that a satellite group has neither wells *)
(* nor groups.                                                             *)
SatellitesEmpty ==
  \A g \in tree.satellites : tree.wells[g] = {} /\ tree.children[g] = {}

(* ExtNetwork.cpp says that a gathering tree structure is required; the    *)
(* node pressures of the restart file are looked for from branch to branch *)
(* up to one that is fixed.                                                *)
NetworkGathers == GatheringTree(net)

(* ExtNetwork.cpp says that the branch of a choke can not have a VFP table. *)
ChokeWithoutTable ==
  \A i \in DOMAIN net.branches : ~(net.nodes[net.branches[i].down].choke /\ net.branches[i].vfp)
=============================================================================
