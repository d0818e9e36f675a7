-------------------------- MODULE InjectionNetwork --------------------------
(***************************************************************************)
(* The injection network that GNETINJE builds beside the production        *)
(* network of GroupNetwork, for one injected phase (gas and water have a   *)
(* network each).  A branch leads to the parent that the group has when    *)
(* the record is read, and unlike those of GRUPNET it does not follow the  *)
(* group when GRUPTREE moves it.  The injection networks are not in the    *)
(* restart file.                                                           *)
(***************************************************************************)
EXTENDS GroupNetwork

VARIABLES
  injectionNetwork,  \* the injection network of the last snapshot for the phase
  said,              \* history: the parent to which the last record of a group put a branch
  moved              \* history: the groups that have moved since they were given a branch

injection == <<injectionNetwork, said, moved>>

NothingSaid == [g \in Groups |-> NoGroup]

InjectionInit ==
  /\ Init
  /\ injectionNetwork = EmptyNetwork
  /\ said = NothingSaid
  /\ moved = {}

-----------------------------------------------------------------------------
(* A record with neither pressure nor table: the group has no branch to    *)
(* its parent any more.  FIELD, which has no parent, is left as it was.    *)
Dropped(n, g) == IF tree.parent[g] = NoGroup THEN n ELSE drop_branch(n, tree.parent[g], g)

(* Variant with a fault: the branch up stays. *)
TerminalOnly(n, g) == update_node(n, g, [NewNode EXCEPT !.fixed = TRUE])

(* A record with a pressure: a node on top, which loses its branch up.     *)
Terminal(n, g) ==
  LET at == UptreeAt(n, g)
  IN  update_node(IF at = 0 THEN n ELSE drop_branch(n, n.branches[at].up, g),
                  g, [NewNode EXCEPT !.fixed = TRUE])

(* A record with a table: a branch to the parent, from a node without a    *)
(* fixed pressure.  For FIELD it does nothing.                             *)
Linked(n, g, table) ==
  IF tree.parent[g] = NoGroup THEN n
  ELSE update_node(add_or_replace_branch(n, Branch(g, tree.parent[g], table # 9999)), g, NewNode)

(* GNETINJE.  Of several records for a group in one keyword the last one   *)
(* counts, so that a keyword is as good as one record for each group.  A   *)
(* pressure together with a table is an error.                             *)
GNETINJE(g, fixed, table) ==
  LET n == [injectionNetwork EXCEPT !.standard = TRUE]
  IN  /\ g \in tree.groups
      /\ ~(fixed /\ table # 0)
      /\ Count
      /\ injectionNetwork' = CASE fixed -> Terminal(n, g)
                               [] ~fixed /\ table = 0 -> Dropped(n, g)
                               [] table # 0 -> Linked(n, g, table)
      /\ said' = [said EXCEPT ![g] = IF table # 0 THEN tree.parent[g] ELSE NoGroup]
      /\ moved' = IF fixed \/ table # 0 THEN moved \ {g} ELSE moved
      /\ UNCHANGED <<tree, net, manifolds, before, shared, restarted, fault>>

(* The other keywords and the next report step leave it as it is.          *)
Aside ==
  /\ UNCHANGED <<injectionNetwork, said>>
  /\ moved' = moved \cup {g \in Groups : said[g] # NoGroup /\ tree'.parent[g] # tree.parent[g]}

(* The restarted run begins without one, unless the restart is refused.    *)
Forgotten ==
  IF fault' THEN UNCHANGED injection
  ELSE injectionNetwork' = EmptyNetwork /\ said' = NothingSaid /\ moved' = {}

InjectionNext ==
  \/ Keyword /\ Aside
  \/ NextStep /\ Aside
  \/ Restart /\ Forgotten
  \/ \E g \in Groups, fixed \in BOOLEAN, table \in {0, 1, 9999} : GNETINJE(g, fixed, table)

InjectionSpec == InjectionInit /\ [][InjectionNext]_<<vars, injection>>

-----------------------------------------------------------------------------
Up(g) ==
  LET at == UptreeAt(injectionNetwork, g)
  IN  IF at = 0 THEN NoGroup ELSE injectionNetwork.branches[at].up

(* The branches are those that the last records of the groups gave, as far *)
(* as the groups have stayed where they were; and wherever groups have     *)
(* been moved, no node has two branches up, and a node of fixed pressure   *)
(* has none, however often it changes its part.                            *)
FlowLinesAsSaid ==
  /\ \A g \in Groups \ moved : Up(g) = said[g]
  /\ \A i, j \in DOMAIN injectionNetwork.branches :
       injectionNetwork.branches[i].down = injectionNetwork.branches[j].down => i = j
  /\ \A b \in Range(injectionNetwork.branches) : ~injectionNetwork.nodes[b.down].fixed

(* NetworkKeywordHandlers.cpp says that a group given neither a table nor  *)
(* a pressure is not part of the network and that its branch is cleared,   *)
(* and NetworkTests.cpp that it must not have an upstream branch.          *)
DroppedHasNoBranch == \A g \in Groups : said[g] = NoGroup => Up(g) = NoGroup

(* ExtNetwork.cpp says that a gathering tree structure is required.        *)
InjectionGathers == GatheringTree(injectionNetwork)
=============================================================================
