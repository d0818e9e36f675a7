----------------------------- MODULE ExtNetwork -----------------------------
(***************************************************************************)
(* The surface network: branches from a downtree to an uptree node, the    *)
(* nodes with what is known of them, and the order in which the nodes were *)
(* first named by a branch.  Of a branch only its ends and whether it has  *)
(* a VFP table are kept, of a node whether its pressure is fixed and       *)
(* whether it is a choke.  A network is a record of these, so that the     *)
(* operations are operators on it.                                         *)
(***************************************************************************)
EXTENDS Naturals, Integers, Sequences, SequencesExt, Functions

Networks(Names) ==
  [standard : BOOLEAN,
   branches : Seq([down : Names, up : Names, vfp : BOOLEAN]),
   nodes : UNION {[S -> [fixed : BOOLEAN, choke : BOOLEAN]] : S \in SUBSET Names},
   names : Seq(Names)]

NewNode == [fixed |-> FALSE, choke |-> FALSE]

Branch(d, u, vfp) == [down |-> d, up |-> u, vfp |-> vfp]

EmptyNetwork == [standard |-> FALSE, branches |-> << >>, nodes |-> [n \in {} |-> NewNode],
                 names |-> << >>]

active(net) == net.branches # << >> /\ DOMAIN net.nodes # {}

has_node(net, n) == n \in DOMAIN net.nodes

(* The position of the branch up from n, 0 if there is none. *)
UptreeAt(net, n) == SelectInSeq(net.branches, LAMBDA b : b.down = n)

(* The nodes above n, and a network in which no node is above itself: the  *)
(* gathering tree that the comments ask for.                               *)
Above(net, n) ==
  LET above[k \in 0 .. Len(net.branches)] ==
        IF k = 0 THEN {}
        ELSE above[k - 1] \cup {b.up : b \in {c \in Range(net.branches) : c.down \in above[k - 1] \cup {n}}}
  IN  above[Len(net.branches)]

GatheringTree(net) == \A b \in Range(net.branches) : b.down \notin Above(net, b.down)

-----------------------------------------------------------------------------
Named(s, n) == IF n \in Range(s) THEN s ELSE Append(s, n)

(* The ends of the branch become nodes; the downtree one is named first. *)
WithEnds(net, b) ==
  [net EXCEPT !.nodes = [n \in DOMAIN @ \cup {b.down, b.up} |->
                           IF n \in DOMAIN @ THEN @[n] ELSE NewNode],
              !.names = Named(Named(@, b.down), b.up)]

add_branch(net, b) == [WithEnds(net, b) EXCEPT !.branches = Append(@, b)]

drop_branch(net, u, d) ==
  LET at == SelectInSeq(net.branches, LAMBDA b : b.up = u /\ b.down = d)
  IN  IF at = 0 THEN net ELSE [net EXCEPT !.branches = RemoveAt(@, at)]

(* A node has one branch up at most: the old one gives way. *)
add_or_replace_branch(net, b) ==
  LET at == UptreeAt(net, b.down)
  IN  add_branch(IF at = 0 THEN net ELSE drop_branch(net, net.branches[at].up, b.down), b)

(* A choke must not have a VFP table on its branch; what is looked at is   *)
(* the first branch that has the node at one of its ends.                  *)
update_nodeRefused(net, n, node) ==
  LET at == SelectInSeq(net.branches, LAMBDA b : n \in {b.up, b.down})
  IN  /\ at # 0
      /\ net.branches[at].down = n
      /\ node.choke /\ net.branches[at].vfp

update_node(net, n, node) ==
  [net EXCEPT !.nodes = [m \in DOMAIN @ \cup {n} |-> IF m = n THEN node ELSE @[m]]]

-----------------------------------------------------------------------------
(* The restart file lists, in INOBR, the branches of one node after        *)
(* another: by their number, negative at the lower end.  INODE tells each  *)
(* node how many it has and where they start.                              *)

IndexOfName(net, n) == SelectInSeq(net.names, LAMBDA m : m = n)

(* The branches that meet in n, in the order in which next_branch finds    *)
(* them while it strikes out those it has found.                           *)
Connected(net, n) ==
  LET Ends(k) == LET b == net.branches[k]
                 IN  (IF b.up = n THEN <<k>> ELSE << >>) \o
                     (IF b.down = n THEN << -k >> ELSE << >>)
  IN  FlattenSeq([k \in DOMAIN net.branches |-> Ends(k)])

numberOfBranchesConnToNode(net, n) == Len(Connected(net, n))

(* Variant with a fault: the node's own branches are counted. *)
cumNumberOfBranchesConnToNodeToo(net, n) ==
  FoldLeft(LAMBDA c, m : c + numberOfBranchesConnToNode(net, m), 1,
           SubSeq(net.names, 1, IndexOfName(net, n)))

cumNumberOfBranchesConnToNode(net, n) ==
  FoldLeft(LAMBDA c, m : c + numberOfBranchesConnToNode(net, m), 1,
           SubSeq(net.names, 1, IndexOfName(net, n) - 1))

(* The lower end of the first branch goes first, and the nodes follow from *)
(* there on.                                                               *)
inobrFunc(net) ==
  LET n1 == IndexOfName(net, net.branches[1].down)
      Entries(k) == LET c == Connected(net, net.names[k])
                    IN  IF k = n1 THEN RemoveFirst(c, -1) ELSE c
  IN  << -n1 >> \o FlattenSeq([k \in 1 .. Len(net.names) - n1 + 1 |-> Entries(n1 + k - 1)])

(* The branches in the file, each by the numbers of its ends, and the      *)
(* nodes by name with their fixed pressure: no choke is in the file.  The  *)
(* restarted network names its nodes in the order of its branches and is   *)
(* not a standard one.                                                     *)
linked_network(branches) ==
  LET linked[k \in 0 .. Len(branches)] ==
        IF k = 0 THEN EmptyNetwork ELSE add_branch(linked[k - 1], branches[k])
  IN  linked[Len(branches)]

restored_network(net) ==
  IF ~active(net) THEN EmptyNetwork
  ELSE [linked_network(net.branches) EXCEPT
          !.nodes = [n \in DOMAIN @ \cup Range(net.names) |->
                       IF n \in Range(net.names) THEN [net.nodes[n] EXCEPT !.choke = FALSE]
                       ELSE @[n]]]
=============================================================================
