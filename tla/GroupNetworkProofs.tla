------------------------- MODULE GroupNetworkProofs -------------------------
(***************************************************************************)
(* Theorems about GroupNetwork, for any groups, wells, nodes and number of *)
(* records.  The tree is proved for all behaviours, on its own: no guard   *)
(* of a tree keyword looks at the network.  The network rests on the tree, *)
(* and what is read back from the restart file on both.                    *)
(***************************************************************************)
EXTENDS GroupNetwork, FiniteSetTheorems, SequenceTheorems, TLAPS

(* What is inductive about the tree: the two sides agree, and no group has *)
(* both kinds of children.                                                 *)
Sound(t) ==
  /\ t \in Trees
  /\ FIELD \in t.groups
  /\ \A p, c \in Groups : c \in t.children[p] <=> t.parent[c] = p
  /\ \A g \in Groups, w \in Wells : w \in t.wells[g] <=> t.home[w] = g
  /\ \A c \in Groups : c \in t.groups \ {FIELD} <=> t.parent[c] # NoGroup
  /\ \A c \in Groups : t.parent[c] \in t.groups \cup {NoGroup}
  /\ \A w \in Wells : t.home[w] \in t.groups \cup {NoGroup}
  /\ \A g \in Groups : t.children[g] = {} \/ t.wells[g] = {}

(* A record that has the fields of a tree is a tree. *)
LEMMA FieldsMakeTree ==
  ASSUME NEW t \in Trees, NEW r, r = [x \in DOMAIN t |-> r[x]],
         r.groups \in SUBSET Groups,
         r.parent \in [Groups -> Groups \cup {NoGroup}],
         r.children \in [Groups -> SUBSET Groups],
         r.wells \in [Groups -> SUBSET Wells],
         r.home \in [Wells -> Groups \cup {NoGroup}],
         r.satellites \in SUBSET Groups
  PROVE  r \in Trees
  BY DEF Trees

(* Entering a group that is not there below FIELD keeps a sound tree. *)
LEMMA EnsuredSound ==
  ASSUME NEW t, Sound(t), NEW g \in Groups, ~EnsureRefused(t, g)
  PROVE  Sound(Ensured(t, g)) /\ g \in Ensured(t, g).groups
<1>1. CASE g \in t.groups
  BY <1>1 DEF Ensured
<1>2. CASE g \notin t.groups
  <2> DEFINE r == addGroup(t, g)
  <2>1. /\ r.groups = t.groups \cup {g}
        /\ r.parent = [t.parent EXCEPT ![g] = FIELD]
        /\ r.children = [t.children EXCEPT ![FIELD] = @ \cup {g}]
        /\ r.wells = t.wells /\ r.home = t.home /\ r.satellites = t.satellites
    BY DEF addGroup, Sound, Trees
  <2>4. r = [x \in DOMAIN t |-> r[x]]
    BY DEF addGroup
  <2>2. g # FIELD /\ t.parent[g] = NoGroup /\ t.wells[FIELD] = {}
    BY <1>2 DEF Sound, EnsureRefused, CanParentGroups
  <2> HIDE DEF r
  <2>5. r \in Trees
    <3>1. t \in Trees
      BY DEF Sound
    <3>2. /\ r.groups \in SUBSET Groups
          /\ r.parent \in [Groups -> Groups \cup {NoGroup}]
          /\ r.children \in [Groups -> SUBSET Groups]
          /\ r.wells \in [Groups -> SUBSET Wells]
          /\ r.home \in [Wells -> Groups \cup {NoGroup}]
          /\ r.satellites \in SUBSET Groups
      BY <2>1, <3>1, GroupAssumption DEF Trees
    <3> QED
      BY <2>4, <3>1, <3>2, FieldsMakeTree
  <2>3. Sound(r) /\ g \in r.groups
    BY <2>1, <2>2, <2>5, GroupAssumption DEF Sound, Trees
  <2> QED
    BY <2>3, <1>2 DEF Ensured, r
<1> QED
  BY <1>1, <1>2

(* Hanging a group below another keeps a sound tree. *)
LEMMA HungSound ==
  ASSUME NEW t, Sound(t), NEW p \in t.groups, NEW c \in t.groups,
         ~addGroupToGroupRefused(t, p, c)
  PROVE  Sound(addGroupToGroup(t, p, c))
<1> DEFINE r == addGroupToGroup(t, p, c)
<1>1. /\ p \in Groups /\ c \in Groups /\ t.wells[p] = {}
      /\ t.parent[c] # NoGroup /\ t.parent[c] \in Groups /\ c \in t.children[t.parent[c]]
  BY DEF Sound, Trees, addGroupToGroupRefused, CanParentGroups
<1>2. CASE t.parent[c] = p
  <2>1. t.children[p] \cup {c} = t.children[p]
    BY <1>1, <1>2
  <2>2. r = t
    BY <1>1, <1>2, <2>1 DEF addGroupToGroup, Sound, Trees
  <2> QED
    BY <2>2
<1>3. CASE t.parent[c] # p
  <2> DEFINE q == t.parent[c]
  <2>1. /\ r.groups = t.groups
        /\ r.parent = [t.parent EXCEPT ![c] = p]
        /\ r.children = [g \in Groups |-> CASE g = p -> t.children[g] \cup {c}
                                            [] g = q -> t.children[g] \ {c}
                                            [] OTHER -> t.children[g]]
        /\ r.wells = t.wells /\ r.home = t.home /\ r.satellites = t.satellites
    BY <1>3 DEF addGroupToGroup, Sound, Trees
  <2>5. r = [x \in DOMAIN t |-> r[x]]
    BY <1>3 DEF addGroupToGroup
  <2>2. \A g \in Groups : r.children[g] = IF g = p THEN t.children[g] \cup {c}
                                          ELSE IF g = q THEN t.children[g] \ {c}
                                          ELSE t.children[g]
    BY <2>1, <1>1, <1>3 DEF Sound, Trees
  <2> HIDE DEF r
  <2>3. r \in Trees
    <3>1. t \in Trees
      BY DEF Sound
    <3>2. /\ r.groups \in SUBSET Groups
          /\ r.parent \in [Groups -> Groups \cup {NoGroup}]
          /\ r.children \in [Groups -> SUBSET Groups]
          /\ r.wells \in [Groups -> SUBSET Wells]
          /\ r.home \in [Wells -> Groups \cup {NoGroup}]
          /\ r.satellites \in SUBSET Groups
      BY <2>1, <3>1, <1>1 DEF Trees
    <3> QED
      BY <2>5, <3>1, <3>2, FieldsMakeTree
  <2>4. Sound(r)
    BY <2>1, <2>2, <2>3, <1>1, <1>3, GroupAssumption DEF Sound, Trees
  <2> QED
    BY <2>4 DEF r
<1> QED
  BY <1>2, <1>3

(* Putting a well in a group keeps a sound tree. *)
LEMMA PlacedSound ==
  ASSUME NEW t, Sound(t), NEW g \in t.groups, NEW w \in Wells,
         ~addWellToGroupRefused(t, g, w)
  PROVE  Sound(addWellToGroup(t, g, w))
<1> DEFINE r == addWellToGroup(t, g, w)
<1>1. g \in Groups /\ t.children[g] = {}
  BY DEF Sound, Trees, addWellToGroupRefused, CanParentWells
<1>2. CASE t.home[w] \in {g, NoGroup}
  <2>1. /\ r.groups = t.groups /\ r.parent = t.parent /\ r.children = t.children
        /\ r.wells = [t.wells EXCEPT ![g] = @ \cup {w}]
        /\ r.home = [t.home EXCEPT ![w] = g]
        /\ r.satellites = t.satellites
    BY <1>2 DEF addWellToGroup, Sound, Trees
  <2>2. r = [x \in DOMAIN t |-> r[x]]
    BY <1>2 DEF addWellToGroup
  <2> HIDE DEF r
  <2>3. r \in Trees
    BY <2>1, <2>2, <1>1, FieldsMakeTree DEF Sound, Trees
  <2>4. Sound(r)
    BY <2>1, <2>3, <1>1, <1>2, GroupAssumption DEF Sound, Trees
  <2> QED
    BY <2>4 DEF r
<1>3. CASE t.home[w] \notin {g, NoGroup}
  <2> DEFINE h == t.home[w]
  <2>1. /\ r.groups = t.groups /\ r.parent = t.parent /\ r.children = t.children
        /\ r.wells = [f \in Groups |-> CASE f = g -> t.wells[f] \cup {w}
                                         [] f = h -> t.wells[f] \ {w}
                                         [] OTHER -> t.wells[f]]
        /\ r.home = [t.home EXCEPT ![w] = g]
        /\ r.satellites = t.satellites
    BY <1>3 DEF addWellToGroup, Sound, Trees
  <2>2. r = [x \in DOMAIN t |-> r[x]]
    BY <1>3 DEF addWellToGroup
  <2>3. h \in Groups
    BY <1>3 DEF Sound, Trees
  <2>4. \A f \in Groups : r.wells[f] = IF f = g THEN t.wells[f] \cup {w}
                                       ELSE IF f = h THEN t.wells[f] \ {w}
                                       ELSE t.wells[f]
    BY <2>1, <2>3, <1>1, <1>3 DEF Sound, Trees
  <2> HIDE DEF r
  <2>5. r \in Trees
    <3>1. t \in Trees
      BY DEF Sound
    <3>2. /\ r.groups \in SUBSET Groups
          /\ r.parent \in [Groups -> Groups \cup {NoGroup}]
          /\ r.children \in [Groups -> SUBSET Groups]
          /\ r.wells \in [Groups -> SUBSET Wells]
          /\ r.home \in [Wells -> Groups \cup {NoGroup}]
          /\ r.satellites \in SUBSET Groups
      BY <2>1, <3>1, <1>1 DEF Trees
    <3> QED
      BY <2>2, <3>1, <3>2, FieldsMakeTree
  <2>6. Sound(r)
    BY <2>1, <2>3, <2>4, <2>5, <1>1, <1>3, GroupAssumption DEF Sound, Trees
  <2> QED
    BY <2>6 DEF r
<1> QED
  BY <1>2, <1>3

(* A satellite keeps the tree sound. *)
LEMMA SatelliteSound ==
  ASSUME NEW t, Sound(t), NEW g \in Groups
  PROVE  Sound(recordSatelliteProduction(t, g))
<1> DEFINE r == recordSatelliteProduction(t, g)
<1>1. /\ r.groups = t.groups /\ r.parent = t.parent /\ r.children = t.children
      /\ r.wells = t.wells /\ r.home = t.home
      /\ r.satellites = t.satellites \cup {g}
  BY DEF recordSatelliteProduction, Sound, Trees
<1>2. r = [x \in DOMAIN t |-> r[x]]
  BY DEF recordSatelliteProduction
<1> HIDE DEF r
<1>3. r \in Trees
  BY <1>1, <1>2, FieldsMakeTree DEF Sound, Trees
<1>4. Sound(r)
  BY <1>1, <1>3 DEF Sound
<1> QED
  BY <1>4 DEF r

(* Entering every group of a sound tree below its parent, and every well   *)
(* in its group, gives the tree again.                                     *)
LEMMA RestoredSame == Sound(tree) => Restored = tree
<1> SUFFICES ASSUME Sound(tree) PROVE Restored = tree
  OBVIOUS
<1>1. [p \in Groups |-> {c \in tree.groups : tree.parent[c] = p}] = tree.children
  <2>1. \A p \in Groups : {c \in tree.groups : tree.parent[c] = p} = tree.children[p]
    BY GroupAssumption DEF Sound, Trees
  <2> QED
    BY <2>1 DEF Sound, Trees
<1>2. [g \in Groups |-> {w \in Wells : tree.home[w] = g}] = tree.wells
  <2>1. \A g \in Groups : {w \in Wells : tree.home[w] = g} = tree.wells[g]
    BY DEF Sound, Trees
  <2> QED
    BY <2>1 DEF Sound, Trees
<1>3. Restored.children = tree.children /\ Restored.wells = tree.wells
  BY <1>1, <1>2 DEF Restored, Sound, Trees
<1>4. /\ Restored.groups = tree.groups /\ Restored.parent = tree.parent
      /\ Restored.home = tree.home /\ Restored.satellites = tree.satellites
  BY DEF Restored, Sound, Trees
<1>5. Restored = [x \in DOMAIN tree |-> Restored[x]]
  BY DEF Restored
<1> QED
  BY <1>3, <1>4, <1>5 DEF Sound, Trees

-----------------------------------------------------------------------------
(* The tree of the beginning, FIELD alone, is sound. *)
LEMMA InitSound == Init => Sound(tree)
  BY GroupAssumption DEF Init, FieldAlone, Sound, Trees

(* Every keyword, a report step and a restart keep the tree sound. *)
LEMMA NextSound == Sound(tree) /\ [Next]_vars => Sound(tree)'
<1> SUFFICES ASSUME Sound(tree), [Next]_vars PROVE Sound(tree')
  BY DEF Sound
<1>0. tree' = tree => Sound(tree')
  OBVIOUS
<1>1. ASSUME NEW c \in Groups, NEW p \in Groups, GRUPTREE(c, p)
      PROVE  Sound(tree')
  <2> DEFINE t1 == Ensured(tree, c)
             t2 == Ensured(t1, p)
  <2>1. CASE \/ EnsureRefused(tree, c) \/ EnsureRefused(t1, p)
             \/ addGroupToGroupRefused(t2, p, c)
    BY <1>1, <2>1, <1>0 DEF GRUPTREE, Refuse
  <2>2. CASE ~(\/ EnsureRefused(tree, c) \/ EnsureRefused(t1, p)
               \/ addGroupToGroupRefused(t2, p, c))
    <3>1. Sound(t1) /\ c \in t1.groups
      BY <2>2, EnsuredSound
    <3>2. Sound(t2) /\ p \in t2.groups
      BY <2>2, <3>1, EnsuredSound
    <3>3. c \in t2.groups
      BY <3>1 DEF Ensured, addGroup, Sound, Trees
    <3>4. tree' = addGroupToGroup(t2, p, c)
      BY <1>1, <2>2 DEF GRUPTREE
    <3> QED
      BY <3>2, <3>3, <3>4, <2>2, HungSound
  <2> QED
    BY <2>1, <2>2
<1>2. ASSUME NEW w \in Wells, NEW g \in Groups, WELSPECS(w, g)
      PROVE  Sound(tree')
  <2>1. CASE EnsureRefused(tree, g) \/ addWellToGroupRefused(Ensured(tree, g), g, w)
    BY <1>2, <2>1, <1>0 DEF WELSPECS, Refuse
  <2>2. CASE ~(EnsureRefused(tree, g) \/ addWellToGroupRefused(Ensured(tree, g), g, w))
    <3>1. Sound(Ensured(tree, g)) /\ g \in Ensured(tree, g).groups
      BY <2>2, EnsuredSound
    <3>2. tree' = addWellToGroup(Ensured(tree, g), g, w)
      BY <1>2, <2>2 DEF WELSPECS
    <3> QED
      BY <3>1, <3>2, <2>2, PlacedSound
  <2> QED
    BY <2>1, <2>2
<1>3. ASSUME NEW g \in Groups, GSATPROD(g)
      PROVE  Sound(tree')
  <2>1. CASE g = FIELD \/ EnsureRefused(tree, g)
    BY <1>3, <2>1, <1>0 DEF GSATPROD, Refuse
  <2>2. CASE ~(g = FIELD \/ EnsureRefused(tree, g))
    BY <1>3, <2>2, EnsuredSound, SatelliteSound DEF GSATPROD
  <2> QED
    BY <2>1, <2>2
<1>4. Restart => Sound(tree')
  BY RestoredSame DEF Restart, Refuse
<1>5. ASSUME NEW d \in Nodes, NEW u \in Nodes, NEW table \in {0, 1, 9999}, BRANPROP(d, u, table)
      PROVE  Sound(tree')
  BY <1>5, <1>0 DEF BRANPROP, Refuse
<1>6. ASSUME NEW n \in Nodes, NEW fixed \in BOOLEAN, NEW choke \in BOOLEAN,
             NODEPROP(n, fixed, choke)
      PROVE  Sound(tree')
  BY <1>6, <1>0 DEF NODEPROP, Refuse
<1>7. ASSUME NEW g \in Groups, NEW fixed \in BOOLEAN, NEW table \in {0, 1},
             GRUPNET(g, fixed, table)
      PROVE  Sound(tree')
  BY <1>7, <1>0 DEF GRUPNET, Refuse
<1>8. NextStep \/ UNCHANGED vars => Sound(tree')
  BY <1>0 DEF NextStep, vars
<1> QED
  BY <1>1, <1>2, <1>3, <1>4, <1>5, <1>6, <1>7, <1>8 DEF Next, Keyword

(* The tree is always sound. *)
LEMMA SpecSound == Spec => []Sound(tree)
  BY InitSound, NextSound, PTL DEF Spec

(* The groups and wells agree about who is whose in all behaviours. *)
THEOREM SidesAgree == Spec => []BackReferences
<1>1. Sound(tree) => BackReferences
  BY DEF Sound, BackReferences
<1> QED
  BY <1>1, SpecSound, PTL

(* No group ever has both groups and wells below it. *)
THEOREM KindsStayApart == Spec => []OneKind
<1>1. Sound(tree) => OneKind
  BY DEF Sound, OneKind
<1> QED
  BY <1>1, SpecSound, PTL

(* The tree agrees with itself in all behaviours.                          *)
THEOREM TreeStaysSound == Spec => []TreeAgrees
  BY SidesAgree, KindsStayApart, PTL DEF TreeAgrees

-----------------------------------------------------------------------------
(* What lies below a group.                                                *)

Closed(t, S) == \A h \in S : t.children[h] \subseteq S

ReachOp(p, S, k) == S \cup UNION {p.tree.children[h] : h \in S}

(* After k steps the walk has found k + 1 groups at least, or has ended;   *)
(* it finds no group that it need not.                                     *)
ReachInv(p, k, S) ==
  /\ S \in SUBSET Groups /\ p.root \in S
  /\ Cardinality(S) >= k + 1 \/ Closed(p.tree, S)
  /\ \A Y \in SUBSET Groups : p.root \in Y /\ Closed(p.tree, Y) => S \subseteq Y

Reaching == INSTANCE Recursion WITH Op <- ReachOp, Inv <- ReachInv

(* Below is the least set with the group that has the children of its      *)
(* groups: as many steps as there are groups are enough.                   *)
LEMMA BelowIs ==
  ASSUME NEW t, t.children \in [Groups -> SUBSET Groups], NEW g \in Groups
  PROVE  /\ Below(t, g) \in SUBSET Groups /\ g \in Below(t, g)
         /\ Closed(t, Below(t, g))
         /\ \A Y \in SUBSET Groups : g \in Y /\ Closed(t, Y) => Below(t, g) \subseteq Y
<1> DEFINE p == [tree |-> t, root |-> g]
           K == Cardinality(Groups)
           R == Reaching!Chain(p, {g}, 0, K)
<1>1. Below(t, g) = R[K]
  BY DEF Below, Reaching!Chain, ReachOp
<1>2. p.tree = t /\ p.root = g
  OBVIOUS
<1>3. K \in Nat /\ \A S \in SUBSET Groups : /\ IsFiniteSet(S) /\ Cardinality(S) \in Nat
                                            /\ Cardinality(S) <= K
  BY GroupAssumption, FS_Subset, FS_CardinalityType
<1> HIDE DEF p, K
<1>4. ReachInv(p, 0, {g})
  <2>1. Cardinality({g}) = 1
    BY FS_Singleton
  <2> QED
    BY <1>2, <2>1 DEF ReachInv
<1>5. ASSUME NEW k \in 0 + 1 .. K, NEW S, ReachInv(p, k - 1, S)
      PROVE  ReachInv(p, k, ReachOp(p, S, k))
  <2> DEFINE T == ReachOp(p, S, k)
  <2>1. T = S \cup UNION {t.children[h] : h \in S}
    BY <1>2 DEF ReachOp
  <2>2. /\ S \in SUBSET Groups /\ g \in S
        /\ Cardinality(S) >= k \/ Closed(t, S)
        /\ \A Y \in SUBSET Groups : g \in Y /\ Closed(t, Y) => S \subseteq Y
    BY <1>2, <1>3, <1>5 DEF ReachInv
  <2> HIDE DEF T
  <2>3. T \in SUBSET Groups /\ g \in T /\ S \subseteq T
    BY <2>1, <2>2
  <2>4. ASSUME NEW Y \in SUBSET Groups, g \in Y, Closed(t, Y) PROVE T \subseteq Y
    BY <2>1, <2>2, <2>4 DEF Closed
  <2>5. CASE Closed(t, S)
    <3>1. T = S
      BY <2>1, <2>5 DEF Closed
    <3> QED
      BY <1>2, <2>2, <2>3, <2>4, <2>5, <3>1 DEF ReachInv, T
  <2>6. CASE ~Closed(t, S)
    <3>1. S # T
      BY <2>1, <2>6 DEF Closed
    <3>2. Cardinality(S) <= Cardinality(T) /\ Cardinality(S) # Cardinality(T)
      BY <1>3, <2>2, <2>3, <3>1, FS_Subset
    <3>3. Cardinality(S) \in Nat /\ Cardinality(T) \in Nat
      BY <1>3, <2>2, <2>3
    <3>4. Cardinality(T) >= k + 1
      BY <1>3, <2>2, <2>6, <3>2, <3>3
    <3> QED
      BY <1>2, <2>3, <2>4, <3>4 DEF ReachInv, T
  <2> QED
    BY <2>5, <2>6
<1>6. ReachInv(p, K, R[K])
  <2>1. K \in Int /\ 0 \in Int /\ K \in 0 .. K
    BY <1>3
  <2>2. \A k \in 0 + 1 .. K : \A S : ReachInv(p, k - 1, S) => ReachInv(p, k, ReachOp(p, S, k))
    BY <1>5
  <2> QED
    BY <1>4, <2>1, <2>2, Reaching!ChainKeeps
<1> HIDE DEF R
<1>7. Closed(t, R[K])
  BY <1>2, <1>3, <1>6 DEF ReachInv
<1> QED
  BY <1>1, <1>2, <1>6, <1>7 DEF ReachInv

(* The walk from FIELD finds the groups there are, and no group above it.  *)
Walked(t) == Below(t, FIELD) = t.groups

(* What is reached from FIELD has its children reached. *)
LEMMA BelowChildren ==
  ASSUME NEW t, Sound(t)
  PROVE  /\ t.children \in [Groups -> SUBSET Groups] /\ FIELD \in Groups
         /\ t.groups \in SUBSET Groups /\ FIELD \in t.groups
         /\ \A p, c \in Groups : c \in t.children[p] <=> t.parent[c] = p
         /\ \A c \in Groups : c \in t.groups \ {FIELD} <=> t.parent[c] # NoGroup
         /\ t.parent[FIELD] = NoGroup
         /\ Closed(t, t.groups)
         /\ \A p \in Groups : FIELD \notin t.children[p]
<1>1. /\ t.children \in [Groups -> SUBSET Groups] /\ FIELD \in Groups
      /\ t.groups \in SUBSET Groups /\ FIELD \in t.groups
      /\ \A p, c \in Groups : c \in t.children[p] <=> t.parent[c] = p
      /\ \A c \in Groups : c \in t.groups \ {FIELD} <=> t.parent[c] # NoGroup
      /\ NoGroup \notin Groups
  BY GroupAssumption DEF Sound, Trees
<1> QED
  BY <1>1 DEF Closed

(* A group that is entered is found. *)
LEMMA EnsuredWalked ==
  ASSUME NEW t, Sound(t), Walked(t), NEW g \in Groups, ~EnsureRefused(t, g)
  PROVE  Walked(Ensured(t, g))
<1> DEFINE r == Ensured(t, g)
           B == Below(r, FIELD)
<1>1. Sound(r) /\ Sound(t)
  BY EnsuredSound
<1>2. CASE g \in t.groups
  BY <1>2 DEF Ensured
<1>3. CASE g \notin t.groups
  <2>1. /\ r.groups = t.groups \cup {g}
        /\ r.children = [t.children EXCEPT ![FIELD] = @ \cup {g}]
    BY <1>3 DEF Ensured, addGroup, Sound, Trees
  <2> HIDE DEF r
  <2>2. /\ B \in SUBSET Groups /\ FIELD \in B /\ Closed(r, B)
        /\ \A Y \in SUBSET Groups : FIELD \in Y /\ Closed(r, Y) => B \subseteq Y
    BY <1>1, BelowChildren, BelowIs
  <2>3. \A Y \in SUBSET Groups : FIELD \in Y /\ Closed(t, Y) => t.groups \subseteq Y
    BY <1>1, BelowChildren, BelowIs DEF Walked
  <2> HIDE DEF B
  <2>4. Closed(t, B) /\ g \in B
    BY <1>1, <2>1, <2>2, BelowChildren DEF Closed
  <2>5. r.groups \subseteq B
    BY <2>1, <2>2, <2>3, <2>4
  <2>6. B \subseteq r.groups
    BY <1>1, <2>2, BelowChildren
  <2> QED
    BY <2>5, <2>6 DEF Walked, B, r
<1> QED
  BY <1>2, <1>3

(* Entering a group puts nothing below one that FIELD is not below. *)
LEMMA EnsuredBelow ==
  ASSUME NEW t, Sound(t), NEW g \in Groups, ~EnsureRefused(t, g), NEW c \in Groups, c # FIELD
  PROVE  Below(Ensured(t, g), c) \subseteq Below(t, c)
<1> DEFINE r == Ensured(t, g)
           B == Below(t, c)
           Y == Groups \ {FIELD}
<1>1. Sound(r) /\ Sound(t)
  BY EnsuredSound
<1>2. /\ B \in SUBSET Groups /\ c \in B /\ Closed(t, B)
      /\ \A X \in SUBSET Groups : c \in X /\ Closed(t, X) => B \subseteq X
  BY <1>1, BelowChildren, BelowIs
<1>3. /\ \A X \in SUBSET Groups : c \in X /\ Closed(r, X) => Below(r, c) \subseteq X
  BY <1>1, BelowChildren, BelowIs
<1> HIDE DEF B, r
<1>4. FIELD \notin B
  <2>1. Y \in SUBSET Groups /\ c \in Y /\ Closed(t, Y)
    BY <1>1, BelowChildren DEF Closed
  <2> QED
    BY <1>2, <2>1
<1>5. \A h \in B : r.children[h] = t.children[h]
  BY <1>1, <1>2, <1>4, BelowChildren DEF r, Ensured, addGroup
<1>6. Closed(r, B)
  BY <1>2, <1>5 DEF Closed
<1> QED
  BY <1>2, <1>3, <1>6 DEF B, r

(* A group that is hung below one that is not below it is found, and with  *)
(* it all that is below it.                                                *)
LEMMA HungWalked ==
  ASSUME NEW t, Sound(t), Walked(t), NEW p \in t.groups, NEW c \in t.groups,
         ~addGroupToGroupRefused(t, p, c), p \notin Below(t, c)
  PROVE  Walked(addGroupToGroup(t, p, c))
<1> DEFINE r == addGroupToGroup(t, p, c)
           q == t.parent[c]
           D == Below(t, c)
           B == Below(r, FIELD)
<1>1. Sound(r) /\ Sound(t)
  BY HungSound
<1>2. p \in Groups /\ c \in Groups /\ q \in Groups /\ c \in t.children[q] /\ r.groups = t.groups
  BY DEF Sound, Trees, addGroupToGroupRefused, addGroupToGroup
<1>3. \A h \in Groups : r.children[h] = IF h = p THEN t.children[h] \cup {c}
                                        ELSE IF h = q THEN t.children[h] \ {c}
                                        ELSE t.children[h]
  <2>1. CASE q = p
    <3>1. r.children = [t.children EXCEPT ![p] = @ \cup {c}]
      BY <2>1 DEF addGroupToGroup, Sound, Trees
    <3> HIDE DEF r
    <3>2. t.children \in [Groups -> SUBSET Groups]
      BY <1>1, BelowChildren
    <3> HIDE DEF q
    <3> QED
      BY <1>2, <2>1, <3>1, <3>2
  <2>2. CASE q # p
    <3>1. r.children = [g \in Groups |-> CASE g = p -> t.children[g] \cup {c}
                                           [] g = q -> t.children[g] \ {c}
                                           [] OTHER -> t.children[g]]
      BY <2>2 DEF addGroupToGroup, Sound, Trees
    <3> HIDE DEF r
    <3> QED
      BY <1>2, <2>2, <3>1
  <2> QED
    BY <2>1, <2>2
<1>4. /\ D \in SUBSET Groups /\ c \in D /\ Closed(t, D) /\ p \notin D
      /\ \A Y \in SUBSET Groups : c \in Y /\ Closed(t, Y) => D \subseteq Y
  BY <1>1, <1>2, BelowChildren, BelowIs
<1> HIDE DEF r, D
<1>5. /\ B \in SUBSET Groups /\ FIELD \in B /\ Closed(r, B)
      /\ \A Y \in SUBSET Groups : FIELD \in Y /\ Closed(r, Y) => B \subseteq Y
  BY <1>1, BelowChildren, BelowIs
<1>6. \A Y \in SUBSET Groups : FIELD \in Y /\ Closed(t, Y) => t.groups \subseteq Y
  BY <1>1, BelowChildren, BelowIs DEF Walked
<1> HIDE DEF B, q
<1>7. Closed(t, B \cup D)
  <2> SUFFICES ASSUME NEW h \in B \cup D, NEW x \in t.children[h] PROVE x \in B \cup D
    BY DEF Closed
  <2>1. CASE h \in D
    BY <1>4, <2>1 DEF Closed
  <2>2. CASE h \in B
    <3>1. h \in Groups /\ r.children[h] \subseteq B
      BY <1>5, <2>2 DEF Closed
    <3>2. x = c \/ x \in r.children[h]
      BY <1>3, <3>1
    <3> QED
      BY <1>4, <3>1, <3>2
  <2> QED
    BY <2>1, <2>2
<1>8. p \in B
  BY <1>4, <1>5, <1>6, <1>7
<1>9. c \in B
  BY <1>2, <1>3, <1>5, <1>8 DEF Closed
<1>10. Closed(t, B)
  BY <1>2, <1>3, <1>5, <1>9 DEF Closed
<1>11. t.groups \subseteq B
  BY <1>5, <1>6, <1>10
<1>12. B \subseteq r.groups
  BY <1>1, <1>5, BelowChildren
<1> QED
  BY <1>2, <1>11, <1>12 DEF Walked, B, r

(* A step that leaves the groups and the children alone. *)
LEMMA SameWalked ==
  ASSUME NEW t, Walked(t), NEW r, r.groups = t.groups, r.children = t.children
  PROVE  Walked(r)
BY DEF Walked, Below

(* groupTree finds every group, in all behaviours: no group is ever hung   *)
(* below itself, and none is lost when it moves.                           *)
THEOREM AllGroupsReachable == Spec => []Reachable
<1> DEFINE I == Sound(tree) /\ Walked(tree)
<1>1. Init => I
  <2> SUFFICES ASSUME Init PROVE I
    OBVIOUS
  <2>1. Sound(tree) /\ tree = FieldAlone
    BY InitSound DEF Init
  <2>2. Closed(tree, {FIELD}) /\ tree.groups = {FIELD}
    BY <2>1, GroupAssumption DEF FieldAlone, Closed
  <2>3. Below(tree, FIELD) \subseteq {FIELD} /\ FIELD \in Below(tree, FIELD)
    <3>1. {FIELD} \in SUBSET Groups /\ FIELD \in {FIELD}
      BY GroupAssumption
    <3> QED
      BY <2>1, <2>2, <3>1, BelowChildren, BelowIs
  <2> QED
    BY <2>1, <2>2, <2>3 DEF Walked
<1>2. I /\ [Next]_vars => I'
  <2> SUFFICES ASSUME Sound(tree), Walked(tree), [Next]_vars PROVE Walked(tree')
    BY NextSound DEF Sound, Walked, Closed, Below
  <2>1. tree' = tree => Walked(tree')
    OBVIOUS
  <2>2. ASSUME NEW c \in Groups, NEW p \in Groups, GRUPTREE(c, p)
        PROVE  Walked(tree')
    <3> DEFINE t1 == Ensured(tree, c)
               t2 == Ensured(t1, p)
    <3>1. CASE \/ EnsureRefused(tree, c) \/ EnsureRefused(t1, p)
               \/ addGroupToGroupRefused(t2, p, c)
      BY <2>1, <2>2, <3>1 DEF GRUPTREE, Refuse
    <3>2. CASE ~(\/ EnsureRefused(tree, c) \/ EnsureRefused(t1, p)
                 \/ addGroupToGroupRefused(t2, p, c))
      <4>1. /\ tree' = addGroupToGroup(t2, p, c)
            /\ p \notin Below(tree, c)
            /\ ~EnsureRefused(tree, c) /\ ~EnsureRefused(t1, p) /\ ~addGroupToGroupRefused(t2, p, c)
        BY <2>2, <3>2 DEF GRUPTREE
      <4>2. Sound(t1) /\ c \in t1.groups /\ Walked(t1)
        BY <4>1, EnsuredSound, EnsuredWalked
      <4>3. c \in t2.groups
        BY <4>2 DEF Ensured, addGroup, Sound, Trees
      <4> HIDE DEF t1
      <4>4. Sound(t2) /\ p \in t2.groups /\ Walked(t2)
        BY <4>1, <4>2, EnsuredSound, EnsuredWalked
      <4>5. c # FIELD
        <5>1. t2.parent[c] # NoGroup
          BY <4>1 DEF addGroupToGroupRefused
        <5> HIDE DEF t2
        <5> QED
          BY <4>4, <5>1, BelowChildren
      <4>6. Below(t1, c) \subseteq Below(tree, c) /\ Below(t2, c) \subseteq Below(t1, c)
        <5>1. Below(t1, c) \subseteq Below(tree, c)
          BY <4>1, <4>5, EnsuredBelow DEF t1
        <5>2. Below(t2, c) \subseteq Below(t1, c)
          BY <4>1, <4>2, <4>5, EnsuredBelow
        <5> QED
          BY <5>1, <5>2
      <4>7. p \notin Below(t2, c)
        BY <4>1, <4>6
      <4> HIDE DEF t2
      <4> QED
        BY <4>1, <4>3, <4>4, <4>7, HungWalked
    <3> QED
      BY <3>1, <3>2
  <2>3. ASSUME NEW w \in Wells, NEW g \in Groups, WELSPECS(w, g)
        PROVE  Walked(tree')
    <3> DEFINE t == Ensured(tree, g)
               r == addWellToGroup(t, g, w)
    <3>1. CASE EnsureRefused(tree, g) \/ addWellToGroupRefused(t, g, w)
      BY <2>1, <2>3, <3>1 DEF WELSPECS, Refuse
    <3>2. CASE ~(EnsureRefused(tree, g) \/ addWellToGroupRefused(t, g, w))
      <4>1. Walked(t) /\ Sound(t)
        BY <3>2, EnsuredWalked, EnsuredSound
      <4>2. tree' = r
        BY <2>3, <3>2 DEF WELSPECS
      <4> HIDE DEF t
      <4>3. r.groups = t.groups /\ r.children = t.children
        BY <4>1 DEF addWellToGroup, Sound, Trees
      <4> HIDE DEF r
      <4> QED
        BY <4>1, <4>2, <4>3, SameWalked
    <3> QED
      BY <3>1, <3>2
  <2>4. ASSUME NEW g \in Groups, GSATPROD(g)
        PROVE  Walked(tree')
    <3> DEFINE t == Ensured(tree, g)
               r == recordSatelliteProduction(t, g)
    <3>1. CASE g = FIELD \/ EnsureRefused(tree, g)
      BY <2>1, <2>4, <3>1 DEF GSATPROD, Refuse
    <3>2. CASE ~(g = FIELD \/ EnsureRefused(tree, g))
      <4>1. Walked(t) /\ Sound(t)
        BY <3>2, EnsuredWalked, EnsuredSound
      <4>2. tree' = r
        BY <2>4, <3>2 DEF GSATPROD
      <4> HIDE DEF t
      <4>3. r.groups = t.groups /\ r.children = t.children
        BY <4>1 DEF recordSatelliteProduction, Sound, Trees
      <4> HIDE DEF r
      <4> QED
        BY <4>1, <4>2, <4>3, SameWalked
    <3> QED
      BY <3>1, <3>2
  <2>5. Restart => tree' = tree
    BY RestoredSame DEF Restart, Refuse
  <2>6. ASSUME NEW d \in Nodes, NEW u \in Nodes, NEW table \in {0, 1, 9999}, BRANPROP(d, u, table)
        PROVE  tree' = tree
    BY <2>6 DEF BRANPROP, Refuse
  <2>7. ASSUME NEW n \in Nodes, NEW fixed \in BOOLEAN, NEW choke \in BOOLEAN,
               NODEPROP(n, fixed, choke)
        PROVE  tree' = tree
    BY <2>7 DEF NODEPROP, Refuse
  <2>8. ASSUME NEW g \in Groups, NEW fixed \in BOOLEAN, NEW table \in {0, 1},
               GRUPNET(g, fixed, table)
        PROVE  tree' = tree
    BY <2>8 DEF GRUPNET, Refuse
  <2>9. NextStep \/ UNCHANGED vars => tree' = tree
    BY DEF NextStep, vars
  <2> QED
    BY <2>1, <2>2, <2>3, <2>4, <2>5, <2>6, <2>7, <2>8, <2>9 DEF Next, Keyword
<1>3. I => Reachable
  BY DEF Walked, Reachable
<1> QED
  BY <1>1, <1>2, <1>3, PTL DEF Spec

-----------------------------------------------------------------------------
(* The network. *)
Names == Groups \cup Nodes
Branches == [down : Names, up : Names, vfp : BOOLEAN]
NodeSet == [fixed : BOOLEAN, choke : BOOLEAN]

NetSound(n) ==
  /\ n \in Networks(Names)
  /\ \A i, j \in DOMAIN n.branches : n.branches[i].down = n.branches[j].down => i = j
  /\ \A i \in DOMAIN n.branches :
       /\ n.branches[i].down \in DOMAIN n.nodes \cap Range(n.names)
       /\ n.branches[i].up \in DOMAIN n.nodes \cap Range(n.names)
  /\ \A i, j \in DOMAIN n.names : n.names[i] = n.names[j] => i = j
  /\ Range(n.names) \subseteq DOMAIN n.nodes

(* The loop over the branches of the restart file. *)
LinkOp(bs, n, k) == add_branch(n, bs[k])
LinkInv(bs, k, n) == NetSound(n) /\ n.branches = SubSeq(bs, 1, k) /\ ~n.standard

Linking == INSTANCE Recursion WITH Op <- LinkOp, Inv <- LinkInv

(* The least position with a property is one of them. *)
LEMMA MinIn == ASSUME NEW I \in SUBSET Nat, I # {} PROVE Min(I) \in I
  BY Linking!Least DEF Min

(* A sequence without one of its elements. *)
LEMMA RemoveAtProps ==
  ASSUME NEW S, NEW s \in Seq(S), NEW i \in 1 .. Len(s)
  PROVE  /\ RemoveAt(s, i) \in Seq(S)
         /\ DOMAIN RemoveAt(s, i) = 1 .. Len(s) - 1
         /\ \A k \in 1 .. Len(s) - 1 : RemoveAt(s, i)[k] = IF k < i THEN s[k] ELSE s[k + 1]
<1>1. /\ SubSeq(s, 1, i - 1) \in Seq(S) /\ Len(SubSeq(s, 1, i - 1)) = i - 1
      /\ \A k \in 1 .. i - 1 : SubSeq(s, 1, i - 1)[k] = s[k]
  OBVIOUS
<1>2. /\ SubSeq(s, i + 1, Len(s)) \in Seq(S) /\ Len(SubSeq(s, i + 1, Len(s))) = Len(s) - i
      /\ \A k \in 1 .. Len(s) - i : SubSeq(s, i + 1, Len(s))[k] = s[k + i]
  OBVIOUS
<1> DEFINE a == SubSeq(s, 1, i - 1)
           b == SubSeq(s, i + 1, Len(s))
<1> HIDE DEF a, b
<1>3. /\ a \o b \in Seq(S) /\ Len(a \o b) = Len(s) - 1
      /\ \A k \in 1 .. Len(s) - 1 : (a \o b)[k] = IF k < i THEN s[k] ELSE s[k + 1]
  <2>1. a \in Seq(S) /\ b \in Seq(S) /\ Len(a) = i - 1 /\ Len(b) = Len(s) - i
    BY <1>1, <1>2 DEF a, b
  <2>2. a \o b \in Seq(S) /\ Len(a \o b) = Len(s) - 1
    BY <2>1
  <2>3. ASSUME NEW k \in 1 .. Len(s) - 1
        PROVE  (a \o b)[k] = IF k < i THEN s[k] ELSE s[k + 1]
    <3>1. CASE k < i
      BY <3>1, <2>1, <1>1 DEF a
    <3>2. CASE ~(k < i)
      <4>1. (a \o b)[k] = b[k - (i - 1)] /\ k - (i - 1) \in 1 .. Len(s) - i
        BY <3>2, <2>1
      <4>2. b[k - (i - 1)] = s[k - (i - 1) + i]
        BY <4>1, <1>2 DEF b
      <4> QED BY <4>1, <4>2, <3>2
    <3> QED BY <3>1, <3>2
  <2> QED BY <2>2, <2>3
<1>4. RemoveAt(s, i) = a \o b
  BY DEF RemoveAt, a, b
<1>5. DOMAIN (a \o b) = 1 .. Len(a \o b)
  BY <1>3
<1> QED
  BY <1>3, <1>4, <1>5

(* A node has a number once it is named, and the others keep theirs. *)
LEMMA NamedProps ==
  ASSUME NEW S, NEW s \in Seq(S), NEW x \in S, \A i, j \in DOMAIN s : s[i] = s[j] => i = j
  PROVE  /\ Named(s, x) \in Seq(S)
         /\ \A i, j \in DOMAIN Named(s, x) : Named(s, x)[i] = Named(s, x)[j] => i = j
         /\ Range(Named(s, x)) = Range(s) \cup {x}
<1>1. CASE x \in Range(s)
  BY <1>1 DEF Named, Range
<1>2. CASE x \notin Range(s)
  <2>1. Named(s, x) = Append(s, x) BY <1>2 DEF Named
  <2>2. \A i, j \in DOMAIN Append(s, x) : Append(s, x)[i] = Append(s, x)[j] => i = j
    BY <1>2 DEF Range
  <2>3. Range(Append(s, x)) = Range(s) \cup {x}
    BY DEF Range
  <2> QED BY <2>1, <2>2, <2>3
<1> QED BY <1>1, <1>2

(* Networks: the fields a record must have. *)
LEMMA FieldsMakeNetwork ==
  ASSUME NEW n \in Networks(Names), NEW r, r = [x \in DOMAIN n |-> r[x]],
         r.standard \in BOOLEAN,
         r.branches \in Seq(Branches),
         NEW D \in SUBSET Names, r.nodes \in [D -> NodeSet],
         r.names \in Seq(Names)
  PROVE  r \in Networks(Names)
  BY DEF Networks, Branches, NodeSet

(* The fields of a sound network. *)
LEMMA NetworkFields ==
  ASSUME NEW n \in Networks(Names)
  PROVE  /\ n.standard \in BOOLEAN
         /\ n.branches \in Seq(Branches)
         /\ DOMAIN n.nodes \subseteq Names
         /\ n.nodes \in [DOMAIN n.nodes -> NodeSet]
         /\ n.names \in Seq(Names)
  BY DEF Networks, Branches, NodeSet

(* The ends of a branch become nodes with a number. *)
LEMMA WithEndsSound ==
  ASSUME NEW n, NetSound(n), NEW b \in Branches
  PROVE  /\ NetSound(WithEnds(n, b))
         /\ WithEnds(n, b).branches = n.branches
         /\ WithEnds(n, b).standard = n.standard
         /\ {b.down, b.up} \subseteq DOMAIN WithEnds(n, b).nodes \cap Range(WithEnds(n, b).names)
<1> DEFINE r == WithEnds(n, b)
           D == DOMAIN n.nodes \cup {b.down, b.up}
<1>0. n \in Networks(Names)
  BY DEF NetSound
<1>1. /\ r.standard = n.standard
      /\ r.branches = n.branches
      /\ r.nodes = [m \in D |-> IF m \in DOMAIN n.nodes THEN n.nodes[m] ELSE NewNode]
      /\ r.names = Named(Named(n.names, b.down), b.up)
  BY <1>0 DEF WithEnds, Networks
<1>2. r = [x \in DOMAIN n |-> r[x]]
  BY DEF WithEnds
<1> HIDE DEF r
<1>3. b.down \in Names /\ b.up \in Names
  BY DEF Branches
<1> DEFINE s == Named(n.names, b.down)
<1>4. /\ s \in Seq(Names) /\ Range(s) = Range(n.names) \cup {b.down}
      /\ \A i, j \in DOMAIN s : s[i] = s[j] => i = j
  BY <1>0, <1>3, NetworkFields, NamedProps DEF NetSound
<1> HIDE DEF s
<1>5. /\ r.names \in Seq(Names)
      /\ Range(r.names) = Range(n.names) \cup {b.down, b.up}
      /\ \A i, j \in DOMAIN r.names : r.names[i] = r.names[j] => i = j
  <2>1. r.names = Named(s, b.up)
    BY <1>1 DEF s
  <2> QED BY <2>1, <1>3, <1>4, NamedProps
<1>6. D \in SUBSET Names /\ r.nodes \in [D -> NodeSet]
  BY <1>0, <1>1, <1>3, NetworkFields DEF NewNode, NodeSet
<1>7. r \in Networks(Names)
  BY <1>0, <1>1, <1>2, <1>5, <1>6, NetworkFields, FieldsMakeNetwork
<1>8. DOMAIN r.nodes = D
  BY <1>6
<1>9. NetSound(r)
  BY <1>1, <1>5, <1>7, <1>8 DEF NetSound
<1> QED
  BY <1>1, <1>5, <1>8, <1>9 DEF r

(* A branch up from a node that has none is added. *)
LEMMA AddSound ==
  ASSUME NEW n, NetSound(n), NEW b \in Branches,
         \A i \in DOMAIN n.branches : n.branches[i].down # b.down
  PROVE  /\ NetSound(add_branch(n, b))
         /\ add_branch(n, b).branches = Append(n.branches, b)
         /\ add_branch(n, b).standard = n.standard
<1> DEFINE w == WithEnds(n, b)
           r == add_branch(n, b)
<1>1. /\ NetSound(w) /\ w.branches = n.branches /\ w.standard = n.standard
      /\ {b.down, b.up} \subseteq DOMAIN w.nodes \cap Range(w.names)
  BY WithEndsSound
<1>2. r = [w EXCEPT !.branches = Append(@, b)]
  BY DEF add_branch
<1> HIDE DEF w, r
<1>3. w \in Networks(Names)
  BY <1>1 DEF NetSound
<1>4. /\ r.standard = w.standard /\ r.branches = Append(w.branches, b)
      /\ r.nodes = w.nodes /\ r.names = w.names
      /\ r = [x \in DOMAIN w |-> r[x]]
  BY <1>2, <1>3 DEF Networks
<1>5. w.branches \in Seq(Branches) /\ r.branches \in Seq(Branches)
  BY <1>3, <1>4, NetworkFields
<1>6. r \in Networks(Names)
  BY <1>3, <1>4, <1>5, NetworkFields, FieldsMakeNetwork
<1>7. \A i, j \in DOMAIN r.branches : r.branches[i].down = r.branches[j].down => i = j
  BY <1>1, <1>4, <1>5 DEF NetSound
<1>8. \A i \in DOMAIN r.branches :
        /\ r.branches[i].down \in DOMAIN r.nodes \cap Range(r.names)
        /\ r.branches[i].up \in DOMAIN r.nodes \cap Range(r.names)
  BY <1>1, <1>4, <1>5 DEF NetSound
<1>9. NetSound(r)
  BY <1>1, <1>4, <1>6, <1>7, <1>8 DEF NetSound
<1> QED
  BY <1>1, <1>4, <1>9 DEF r

(* Dropping a branch: the others stay, and if it was there it is gone. *)
LEMMA DropSound ==
  ASSUME NEW n, NetSound(n), NEW u \in Names, NEW d \in Names
  PROVE  /\ NetSound(drop_branch(n, u, d))
         /\ drop_branch(n, u, d).standard = n.standard
         /\ \A i \in DOMAIN drop_branch(n, u, d).branches :
              \E j \in DOMAIN n.branches : drop_branch(n, u, d).branches[i] = n.branches[j]
         /\ (\E j \in DOMAIN n.branches : n.branches[j].up = u /\ n.branches[j].down = d)
              => \A i \in DOMAIN drop_branch(n, u, d).branches :
                   drop_branch(n, u, d).branches[i].down # d
<1> DEFINE I == {i \in 1 .. Len(n.branches) : n.branches[i].up = u /\ n.branches[i].down = d}
           at == SelectInSeq(n.branches, LAMBDA b : b.up = u /\ b.down = d)
           r == drop_branch(n, u, d)
<1>0. n \in Networks(Names) /\ n.branches \in Seq(Branches)
  BY NetworkFields DEF NetSound
<1>1. at = IF I # {} THEN Min(I) ELSE 0
  BY DEF SelectInSeq
<1>2. I \in SUBSET Nat
  BY <1>0
<1>3. r = IF at = 0 THEN n ELSE [n EXCEPT !.branches = RemoveAt(@, at)]
  BY DEF drop_branch
<1> HIDE DEF at, r
<1>4. CASE I = {}
  <2>1. r = n
    BY <1>1, <1>3, <1>4
  <2> QED
    BY <2>1, <1>0, <1>4 DEF r
<1>5. CASE I # {}
  <2>1. at \in I
    BY <1>1, <1>2, <1>5, MinIn
  <2>2. at \in 1 .. Len(n.branches) /\ n.branches[at].up = u /\ n.branches[at].down = d
    BY <2>1
  <2> DEFINE q == RemoveAt(n.branches, at)
  <2>3. /\ q \in Seq(Branches)
        /\ DOMAIN q = 1 .. Len(n.branches) - 1
        /\ \A k \in 1 .. Len(n.branches) - 1 :
             q[k] = IF k < at THEN n.branches[k] ELSE n.branches[k + 1]
    BY <1>0, <2>2, RemoveAtProps
  <2>4. /\ r.standard = n.standard /\ r.branches = q
        /\ r.nodes = n.nodes /\ r.names = n.names
        /\ r = [x \in DOMAIN n |-> r[x]]
    <3>1. at # 0
      BY <1>0, <2>2
    <3>2. r = [n EXCEPT !.branches = q]
      BY <1>3, <3>1
    <3>3. n = [x \in DOMAIN n |-> n[x]] /\ DOMAIN n = {"standard", "branches", "nodes", "names"}
      BY <1>0 DEF Networks
    <3> HIDE DEF q
    <3> QED
      BY ONLY <3>2, <3>3
  <2> HIDE DEF q
  <2>5. r \in Networks(Names)
    BY <1>0, <2>3, <2>4, NetworkFields, FieldsMakeNetwork
  <2>6. \A i \in DOMAIN q : \E j \in DOMAIN n.branches :
          /\ q[i] = n.branches[j] /\ j # at
          /\ j = IF i < at THEN i ELSE i + 1
    BY <1>0, <2>2, <2>3
  <2>7. \A i, j \in DOMAIN q : q[i].down = q[j].down => i = j
    <3> SUFFICES ASSUME NEW i \in DOMAIN q, NEW j \in DOMAIN q, q[i].down = q[j].down
                 PROVE  i = j
      OBVIOUS
    <3> DEFINE k == IF i < at THEN i ELSE i + 1
               l == IF j < at THEN j ELSE j + 1
    <3>1. k \in DOMAIN n.branches /\ l \in DOMAIN n.branches
          /\ n.branches[k].down = n.branches[l].down
      BY <2>6
    <3>2. k = l
      BY <3>1 DEF NetSound
    <3> QED
      BY <3>2, <2>2, <2>3
  <2>8. \A i \in DOMAIN q : q[i].down # d
    BY <2>2, <2>6, <1>0 DEF NetSound
  <2>9. NetSound(r)
    <3>1. \A i \in DOMAIN q : /\ q[i].down \in DOMAIN n.nodes \cap Range(n.names)
                              /\ q[i].up \in DOMAIN n.nodes \cap Range(n.names)
      BY <2>6 DEF NetSound
    <3> QED
      BY <2>4, <2>5, <2>7, <3>1 DEF NetSound
  <2> QED
    BY <2>4, <2>6, <2>8, <2>9 DEF r
<1> QED
  BY <1>4, <1>5

(* A branch up that takes the place of the old one, if any. *)
LEMMA ReplaceSound ==
  ASSUME NEW n, NetSound(n), NEW b \in Branches
  PROVE  /\ NetSound(add_or_replace_branch(n, b))
         /\ add_or_replace_branch(n, b).standard = n.standard
         /\ \A i \in DOMAIN add_or_replace_branch(n, b).branches :
              \/ add_or_replace_branch(n, b).branches[i] = b
              \/ /\ add_or_replace_branch(n, b).branches[i].down # b.down
                 /\ \E j \in DOMAIN n.branches :
                      add_or_replace_branch(n, b).branches[i] = n.branches[j]
<1> DEFINE I == {i \in 1 .. Len(n.branches) : n.branches[i].down = b.down}
           at == UptreeAt(n, b.down)
           w == IF at = 0 THEN n ELSE drop_branch(n, n.branches[at].up, b.down)
           r == add_or_replace_branch(n, b)
<1>0. n \in Networks(Names) /\ n.branches \in Seq(Branches)
  BY NetworkFields DEF NetSound
<1>1. at = IF I # {} THEN Min(I) ELSE 0
  BY DEF UptreeAt, SelectInSeq
<1>2. r = add_branch(w, b)
  BY DEF add_or_replace_branch
<1>7. I \in SUBSET Nat
  BY <1>0
<1> HIDE DEF at, r
<1>3. /\ NetSound(w) /\ w.standard = n.standard
      /\ \A i \in DOMAIN w.branches :
           w.branches[i].down # b.down /\ \E j \in DOMAIN n.branches : w.branches[i] = n.branches[j]
  <2>1. CASE I = {}
    <3>1. w = n
      BY <1>1, <2>1
    <3>2. \A i \in DOMAIN n.branches : n.branches[i].down # b.down
      BY <1>0, <2>1
    <3> QED
      BY <3>1, <3>2
  <2>2. CASE I # {}
    <3>1. at \in I
      BY <1>1, <1>7, <2>2, MinIn
    <3>5. at \in 1 .. Len(n.branches) /\ n.branches[at].down = b.down
      BY <3>1
    <3>2. at \in DOMAIN n.branches /\ n.branches[at].down = b.down /\ at # 0
      BY <1>0, <3>5
    <3>6. n.branches[at] \in Branches
      BY <1>0, <3>5
    <3>3. n.branches[at].up \in Names /\ b.down \in Names
      BY <3>6 DEF Branches
    <3>4. w = drop_branch(n, n.branches[at].up, b.down)
      BY <3>2
    <3> HIDE DEF w
    <3> QED
      BY <3>2, <3>3, <3>4, DropSound
  <2> QED
    BY <2>1, <2>2
<1> HIDE DEF w
<1>4. /\ NetSound(r) /\ r.branches = Append(w.branches, b) /\ r.standard = w.standard
  BY <1>2, <1>3, AddSound
<1>5. w.branches \in Seq(Branches)
  BY <1>3, NetworkFields DEF NetSound
<1>6. \A i \in DOMAIN r.branches : r.branches[i] = b \/ \E k \in DOMAIN w.branches : r.branches[i] = w.branches[k]
  BY <1>4, <1>5
<1> QED
  BY <1>3, <1>4, <1>6 DEF r

(* What is known of a node is set: the node may be new, the branches stay. *)
LEMMA UpdateSound ==
  ASSUME NEW n, NetSound(n), NEW m \in Names, NEW node \in NodeSet
  PROVE  /\ NetSound(update_node(n, m, node))
         /\ update_node(n, m, node).branches = n.branches
         /\ update_node(n, m, node).standard = n.standard
<1> DEFINE r == update_node(n, m, node)
           D == DOMAIN n.nodes \cup {m}
<1>0. n \in Networks(Names)
  BY DEF NetSound
<1>1. /\ r.standard = n.standard /\ r.branches = n.branches /\ r.names = n.names
      /\ r.nodes = [x \in D |-> IF x = m THEN node ELSE n.nodes[x]]
      /\ r = [x \in DOMAIN n |-> r[x]]
  BY <1>0 DEF update_node, Networks
<1> HIDE DEF r
<1>2. D \in SUBSET Names /\ r.nodes \in [D -> NodeSet] /\ DOMAIN r.nodes = D
  BY <1>0, <1>1, NetworkFields
<1>3. r \in Networks(Names)
  BY <1>0, <1>1, <1>2, NetworkFields, FieldsMakeNetwork
<1>4. NetSound(r)
  BY <1>1, <1>2, <1>3 DEF NetSound
<1> QED
  BY <1>1, <1>4 DEF r

(* The empty network is sound. *)
LEMMA EmptySound == NetSound(EmptyNetwork)
<1>1. EmptyNetwork \in Networks(Names)
  BY DEF EmptyNetwork, Networks, NewNode
<1> QED
  BY <1>1 DEF EmptyNetwork, NetSound, Range

(* The network that is built from branches with different lower ends. *)
LEMMA LinkedSound ==
  ASSUME NEW bs \in Seq(Branches),
         \A i, j \in DOMAIN bs : bs[i].down = bs[j].down => i = j
  PROVE  /\ NetSound(linked_network(bs))
         /\ linked_network(bs).branches = bs
         /\ ~linked_network(bs).standard
<1> DEFINE K == Len(bs)
           f == Linking!Chain(bs, EmptyNetwork, 0, K)
<1>1. linked_network(bs) = f[K]
  BY DEF linked_network, Linking!Chain, LinkOp
<1>2. LinkInv(bs, 0, EmptyNetwork)
  BY EmptySound DEF EmptyNetwork, LinkInv
<1>3. ASSUME NEW k \in 0 + 1 .. K, NEW n, LinkInv(bs, k - 1, n)
      PROVE  LinkInv(bs, k, LinkOp(bs, n, k))
  <2> DEFINE b == bs[k]
  <2>1. b \in Branches /\ LinkOp(bs, n, k) = add_branch(n, b)
    BY DEF LinkOp
  <2>2. NetSound(n) /\ n.branches = SubSeq(bs, 1, k - 1) /\ ~n.standard
    BY <1>3 DEF LinkInv
  <2>3. \A i \in DOMAIN n.branches : n.branches[i].down # b.down
    <3>1. \A i \in 1 .. k - 1 : SubSeq(bs, 1, k - 1)[i] = bs[i]
      OBVIOUS
    <3>2. DOMAIN SubSeq(bs, 1, k - 1) = 1 .. k - 1
      OBVIOUS
    <3> QED
      BY <2>2, <3>1, <3>2
  <2> HIDE DEF b
  <2> DEFINE m == LinkOp(bs, n, k)
  <2>4. NetSound(m) /\ m.branches = Append(n.branches, b) /\ m.standard = n.standard
    BY <2>1, <2>2, <2>3, AddSound
  <2>5. Append(SubSeq(bs, 1, k - 1), b) = SubSeq(bs, 1, k)
    BY DEF b
  <2> QED
    BY <2>2, <2>4, <2>5 DEF LinkInv
<1>4. LinkInv(bs, K, f[K])
  <2>1. K \in Int /\ 0 \in Int /\ K \in 0 .. K
    OBVIOUS
  <2>2. \A k \in 0 + 1 .. K : \A n : LinkInv(bs, k - 1, n) => LinkInv(bs, k, LinkOp(bs, n, k))
    BY <1>3
  <2> HIDE DEF K
  <2> QED
    BY <1>2, <2>1, <2>2, Linking!ChainKeeps
<1>5. SubSeq(bs, 1, Len(bs)) = bs
  OBVIOUS
<1> HIDE DEF f
<1> QED
  BY <1>1, <1>4, <1>5 DEF LinkInv

(* What is read from the restart file has the branches of the network that *)
(* was written.                                                            *)
LEMMA RestoredNetSound ==
  ASSUME NEW n, NetSound(n)
  PROVE  /\ NetSound(restored_network(n))
         /\ ~restored_network(n).standard
         /\ active(n) => restored_network(n).branches = n.branches
<1>1. CASE ~active(n)
  BY <1>1, EmptySound DEF restored_network, EmptyNetwork
<1>2. CASE active(n)
  <2> DEFINE m == linked_network(n.branches)
             D == DOMAIN m.nodes \cup Range(n.names)
             r == restored_network(n)
  <2>0. n \in Networks(Names) /\ n.branches \in Seq(Branches) /\ n.names \in Seq(Names)
    BY NetworkFields DEF NetSound
  <2>1. NetSound(m) /\ m.branches = n.branches /\ ~m.standard
    BY <2>0, LinkedSound DEF NetSound
  <2>2. m \in Networks(Names)
    BY <2>1 DEF NetSound
  <2>3. r = [m EXCEPT !.nodes = [x \in DOMAIN @ \cup Range(n.names) |->
                                   IF x \in Range(n.names) THEN [n.nodes[x] EXCEPT !.choke = FALSE]
                                   ELSE @[x]]]
    BY <1>2 DEF restored_network
  <2> HIDE DEF m, r
  <2>4. /\ r.standard = m.standard /\ r.branches = m.branches /\ r.names = m.names
        /\ r.nodes = [x \in D |-> IF x \in Range(n.names) THEN [n.nodes[x] EXCEPT !.choke = FALSE]
                                  ELSE m.nodes[x]]
        /\ r = [x \in DOMAIN m |-> r[x]]
    BY <2>2, <2>3 DEF Networks
  <2>5. \A x \in Range(n.names) : [n.nodes[x] EXCEPT !.choke = FALSE] \in NodeSet
    <3>1. \A x \in Range(n.names) : n.nodes[x] \in NodeSet
      BY <2>0, NetworkFields DEF NetSound
    <3> QED
      BY <3>1 DEF NodeSet
  <2>6. D \in SUBSET Names
    BY <2>0, <2>2, NetworkFields DEF Range
  <2>7. r.nodes \in [D -> NodeSet] /\ DOMAIN r.nodes = D
    BY <2>2, <2>4, <2>5, NetworkFields
  <2>8. r \in Networks(Names)
    BY <2>2, <2>4, <2>6, <2>7, NetworkFields, FieldsMakeNetwork
  <2>9. NetSound(r)
    BY <2>1, <2>4, <2>7, <2>8 DEF NetSound
  <2> QED
    BY <2>1, <2>4, <2>9 DEF r
<1> QED
  BY <1>1, <1>2

-----------------------------------------------------------------------------
(* What is inductive about the network, given a sound tree: it is sound,   *)
(* and a standard one has no branch but from a group to its parent.        *)
Mirrors(n, t) ==
  n.standard => \A i \in DOMAIN n.branches :
                  /\ n.branches[i].down \in Groups
                  /\ n.branches[i].up = t.parent[n.branches[i].down]

NInv == Sound(tree) /\ NetSound(net) /\ Mirrors(net, tree)

(* The groups that have a parent keep it when another group is entered. *)
LEMMA EnsuredKeepsParents ==
  ASSUME NEW t, Sound(t), NEW g \in Groups
  PROVE  \A x \in Groups : t.parent[x] # NoGroup => Ensured(t, g).parent[x] = t.parent[x]
<1>1. CASE g \in t.groups
  BY <1>1 DEF Ensured
<1>2. CASE g \notin t.groups
  <2>1. t.parent[g] = NoGroup
    BY <1>2 DEF Sound
  <2>2. Ensured(t, g).parent = [t.parent EXCEPT ![g] = FIELD]
    BY <1>2 DEF Ensured, addGroup, Sound, Trees
  <2> QED
    BY <2>1, <2>2 DEF Sound, Trees
<1> QED
  BY <1>1, <1>2

(* A network that is not touched mirrors a tree whose groups keep their    *)
(* parents.                                                                *)
LEMMA MirrorsKept ==
  ASSUME NInv, NEW t,
         \A x \in Groups : tree.parent[x] # NoGroup => t.parent[x] = tree.parent[x]
  PROVE  Mirrors(net, t)
<1> SUFFICES ASSUME net.standard, NEW i \in DOMAIN net.branches
             PROVE  /\ net.branches[i].down \in Groups
                    /\ net.branches[i].up = t.parent[net.branches[i].down]
  BY DEF Mirrors
<1>1. net \in Networks(Names)
  BY DEF NInv, NetSound
<1>2. net.branches[i] \in Branches
  BY <1>1, NetworkFields
<1>3. net.branches[i].up # NoGroup
  BY <1>2, GroupAssumption, NodesAssumption DEF Branches, Names
<1> QED
  BY <1>3 DEF NInv, Mirrors

(* The flag for a standard network is set: everything else stays. *)
LEMMA FlagSound ==
  ASSUME NEW n, NetSound(n), NEW b \in BOOLEAN
  PROVE  /\ NetSound([n EXCEPT !.standard = b])
         /\ [n EXCEPT !.standard = b].branches = n.branches
         /\ [n EXCEPT !.standard = b].standard = b
<1> DEFINE r == [n EXCEPT !.standard = b]
<1>0. n \in Networks(Names)
  BY DEF NetSound
<1>1. /\ r.standard = b /\ r.branches = n.branches /\ r.names = n.names /\ r.nodes = n.nodes
      /\ r = [x \in DOMAIN n |-> r[x]]
  BY <1>0 DEF Networks
<1> HIDE DEF r
<1>2. r \in Networks(Names)
  BY <1>0, <1>1, NetworkFields, FieldsMakeNetwork
<1>3. NetSound(r)
  BY <1>1, <1>2 DEF NetSound
<1> QED
  BY <1>1, <1>3 DEF r

(* The network is marked as an extended one. *)
LEMMA FlagCleared ==
  ASSUME NEW n, NetSound(n)
  PROVE  NetSound([n EXCEPT !.standard = FALSE]) /\ [n EXCEPT !.standard = FALSE].standard = FALSE
<1>1. FALSE \in BOOLEAN
  BY Zenon
<1>2. \A b \in BOOLEAN : NetSound([n EXCEPT !.standard = b]) /\ [n EXCEPT !.standard = b].standard = b
  BY FlagSound
<1> QED
  BY <1>1, <1>2, Zenon

(* The branch of a group that moves goes with it. *)
LEMMA FollowedSound ==
  ASSUME NInv, NEW c \in Groups, NEW p \in Groups, NEW t,
         t.parent[c] = p,
         \A x \in Groups \ {c} : tree.parent[x] # NoGroup => t.parent[x] = tree.parent[x]
  PROVE  NetSound(followed(c, p)) /\ Mirrors(followed(c, p), t)
<1> DEFINE I == {i \in 1 .. Len(net.branches) : net.branches[i].down = c}
           at == UptreeAt(net, c)
<1>0. net \in Networks(Names) /\ net.branches \in Seq(Branches) /\ NetSound(net)
  BY NetworkFields DEF NetSound, NInv
<1>1. at = IF I # {} THEN Min(I) ELSE 0
  BY DEF UptreeAt, SelectInSeq
<1>2. I \in SUBSET Nat
  BY <1>0
<1> HIDE DEF at
<1>3. \A i \in DOMAIN net.branches : net.standard =>
        /\ net.branches[i].down \in Groups
        /\ net.branches[i].down # c => net.branches[i].up = t.parent[net.branches[i].down]
  <2> SUFFICES ASSUME NEW i \in DOMAIN net.branches, net.standard
               PROVE  /\ net.branches[i].down \in Groups
                      /\ net.branches[i].down # c
                           => net.branches[i].up = t.parent[net.branches[i].down]
    OBVIOUS
  <2>1. net.branches[i] \in Branches
    BY <1>0
  <2>2. net.branches[i].up # NoGroup
    BY <2>1, GroupAssumption, NodesAssumption DEF Branches, Names
  <2> QED
    BY <2>2 DEF NInv, Mirrors
<1>4. CASE net.standard /\ I # {}
  <2>1. at \in I
    BY <1>1, <1>2, <1>4, MinIn
  <2>2. at \in 1 .. Len(net.branches) /\ net.branches[at].down = c
    BY <2>1
  <2>3. net.branches[at] \in Branches
    BY <1>0, <2>2
  <2> DEFINE b == [net.branches[at] EXCEPT !.up = p]
  <2>4. b \in Branches /\ b.down = c /\ b.up = p
    BY <2>2, <2>3 DEF Branches, Names
  <2>5. has_node(net, c)
    BY <1>0, <2>2 DEF has_node, NetSound
  <2>6. followed(c, p) = add_or_replace_branch(net, b)
    BY <1>4, <2>2, <2>5 DEF followed, at
  <2> HIDE DEF b
  <2> DEFINE r == add_or_replace_branch(net, b)
  <2>7. /\ NetSound(r)
        /\ \A i \in DOMAIN r.branches :
             \/ r.branches[i] = b
             \/ /\ r.branches[i].down # b.down
                /\ \E j \in DOMAIN net.branches : r.branches[i] = net.branches[j]
    <3>1. b \in Branches /\ NetSound(net)
      BY <1>0, <2>4
    <3> QED
      BY <3>1, ReplaceSound
  <2> HIDE DEF r
  <2>8. Mirrors(r, t)
    BY <1>3, <1>4, <2>4, <2>7 DEF Mirrors
  <2> QED
    BY <2>6, <2>7, <2>8 DEF r
<1>5. CASE ~(net.standard /\ I # {})
  <2>1. followed(c, p) = net
    BY <1>1, <1>5 DEF followed, at
  <2>2. net.standard => \A i \in DOMAIN net.branches : net.branches[i].down # c
    BY <1>0, <1>5
  <2>3. Mirrors(net, t)
    BY <1>3, <2>2 DEF Mirrors
  <2> QED
    BY <1>0, <2>1, <2>3
<1> QED
  BY <1>4, <1>5

(* Every step keeps tree and network sound, and the one mirroring the      *)
(* other.                                                                  *)
LEMMA NetTree ==
  ASSUME NInv, Next
  PROVE  NetSound(net') /\ Mirrors(net', tree')
<1>0. Sound(tree) /\ NetSound(net) /\ Mirrors(net, tree) /\ Sound(tree')
  BY NextSound DEF NInv, Sound
<1>a. net' = net /\ tree' = tree => NetSound(net') /\ Mirrors(net', tree')
  BY <1>0
<1>1. ASSUME NEW c \in Groups, NEW p \in Groups, GRUPTREE(c, p)
      PROVE  NetSound(net') /\ Mirrors(net', tree')
  <2> DEFINE t1 == Ensured(tree, c)
             t2 == Ensured(t1, p)
  <2>1. CASE \/ EnsureRefused(tree, c) \/ EnsureRefused(t1, p)
             \/ addGroupToGroupRefused(t2, p, c)
    BY <1>1, <2>1, <1>a DEF GRUPTREE, Refuse
  <2>2. CASE ~(\/ EnsureRefused(tree, c) \/ EnsureRefused(t1, p)
               \/ addGroupToGroupRefused(t2, p, c))
    <3>1. Sound(t1)
      BY <1>0, <2>2, EnsuredSound
    <3>2. Sound(t2)
      BY <2>2, <3>1, EnsuredSound
    <3>3. \A x \in Groups : tree.parent[x] # NoGroup => t2.parent[x] = tree.parent[x]
      <4>1. \A x \in Groups : tree.parent[x] # NoGroup => t1.parent[x] = tree.parent[x]
        BY <1>0, EnsuredKeepsParents
      <4>2. \A x \in Groups : t1.parent[x] # NoGroup => t2.parent[x] = t1.parent[x]
        BY <3>1, EnsuredKeepsParents
      <4> QED
        BY <4>1, <4>2
    <3>4. tree' = addGroupToGroup(t2, p, c) /\ net' = followed(c, p)
      BY <1>1, <2>2 DEF GRUPTREE
    <3> HIDE DEF t1, t2
    <3>5. tree'.parent[c] = p /\ \A x \in Groups \ {c} : tree'.parent[x] = t2.parent[x]
      BY <3>2, <3>4 DEF addGroupToGroup, Sound, Trees
    <3>6. \A x \in Groups \ {c} : tree.parent[x] # NoGroup => tree'.parent[x] = tree.parent[x]
      BY <3>3, <3>5
    <3>7. NetSound(followed(c, p)) /\ Mirrors(followed(c, p), tree')
      BY <3>5, <3>6, FollowedSound
    <3> QED
      BY <3>4, <3>7
  <2> QED
    BY <2>1, <2>2
<1>2. ASSUME NEW w \in Wells, NEW g \in Groups, WELSPECS(w, g)
      PROVE  NetSound(net') /\ Mirrors(net', tree')
  <2>1. CASE EnsureRefused(tree, g) \/ addWellToGroupRefused(Ensured(tree, g), g, w)
    BY <1>2, <2>1, <1>a DEF WELSPECS, Refuse
  <2>2. CASE ~(EnsureRefused(tree, g) \/ addWellToGroupRefused(Ensured(tree, g), g, w))
    <3>1. Sound(Ensured(tree, g))
      BY <1>0, <2>2, EnsuredSound
    <3>2. tree' = addWellToGroup(Ensured(tree, g), g, w) /\ net' = net
      BY <1>2, <2>2 DEF WELSPECS
    <3>3. tree'.parent = Ensured(tree, g).parent
      BY <3>1, <3>2 DEF addWellToGroup, Sound, Trees
    <3>4. Mirrors(net, tree')
      BY <1>0, <3>3, EnsuredKeepsParents, MirrorsKept
    <3> QED
      BY <1>0, <3>2, <3>4
  <2> QED
    BY <2>1, <2>2
<1>3. ASSUME NEW g \in Groups, GSATPROD(g)
      PROVE  NetSound(net') /\ Mirrors(net', tree')
  <2>1. CASE g = FIELD \/ EnsureRefused(tree, g)
    BY <1>3, <2>1, <1>a DEF GSATPROD, Refuse
  <2>2. CASE ~(g = FIELD \/ EnsureRefused(tree, g))
    <3>1. Sound(Ensured(tree, g))
      BY <1>0, <2>2, EnsuredSound
    <3>2. tree' = recordSatelliteProduction(Ensured(tree, g), g) /\ net' = net
      BY <1>3, <2>2 DEF GSATPROD
    <3>3. tree'.parent = Ensured(tree, g).parent
      BY <3>1, <3>2 DEF recordSatelliteProduction, Sound, Trees
    <3>4. Mirrors(net, tree')
      BY <1>0, <3>3, EnsuredKeepsParents, MirrorsKept
    <3> QED
      BY <1>0, <3>2, <3>4
  <2> QED
    BY <2>1, <2>2
<1>4. ASSUME NEW d \in Nodes, NEW u \in Nodes, NEW table \in {0, 1, 9999}, BRANPROP(d, u, table)
      PROVE  NetSound(net') /\ Mirrors(net', tree')
  <2> DEFINE n == [net EXCEPT !.standard = FALSE]
             b == Branch(d, u, table # 9999)
  <2>1. CASE active(net) /\ net.standard
    BY <1>4, <2>1, <1>a DEF BRANPROP, Refuse
  <2>2. CASE ~(active(net) /\ net.standard)
    <3>1. NetSound(n) /\ n.standard = FALSE
      BY <1>0, FlagCleared
    <3>2. net' = IF table = 0 THEN drop_branch(n, u, d) ELSE add_or_replace_branch(n, b)
      BY <1>4, <2>2 DEF BRANPROP
    <3>3. d \in Names /\ u \in Names /\ b \in Branches
      BY DEF Names, Branch, Branches
    <3> HIDE DEF n, b
    <3>4. NetSound(net') /\ net'.standard = n.standard
      BY <3>1, <3>2, <3>3, DropSound, ReplaceSound
    <3> QED
      BY <3>1, <3>4 DEF Mirrors
  <2> QED
    BY <2>1, <2>2
<1>5. ASSUME NEW n \in Nodes, NEW fixed \in BOOLEAN, NEW choke \in BOOLEAN,
             NODEPROP(n, fixed, choke)
      PROVE  NetSound(net') /\ Mirrors(net', tree')
  <2> DEFINE node == [fixed |-> fixed, choke |-> choke /\ n \in tree.groups]
  <2>1. \/ net' = net /\ tree' = tree
        \/ net' = update_node(net, n, node) /\ tree' = tree
    BY <1>5 DEF NODEPROP, Refuse
  <2>2. n \in Names /\ node \in NodeSet
    BY DEF Names, NodeSet
  <2> HIDE DEF node
  <2>3. NetSound(update_node(net, n, node)) /\ Mirrors(update_node(net, n, node), tree)
    BY <1>0, <2>2, UpdateSound DEF Mirrors
  <2> QED
    BY <1>a, <2>1, <2>3
<1>6. ASSUME NEW g \in Groups, NEW fixed \in BOOLEAN, NEW table \in {0, 1},
             GRUPNET(g, fixed, table)
      PROVE  NetSound(net') /\ Mirrors(net', tree')
  <2> DEFINE n == [net EXCEPT !.standard = TRUE]
             p == tree.parent[g]
             b == Branch(g, p, ~fixed /\ table # 9999)
             node == [fixed |-> fixed, choke |-> FALSE]
             linked == IF p = NoGroup THEN n ELSE add_or_replace_branch(n, b)
  <2>1. CASE active(net) /\ ~net.standard
    BY <1>6, <2>1, <1>a DEF GRUPNET, Refuse
  <2>2. CASE ~(active(net) /\ ~net.standard)
    <3>1. /\ tree' = tree
          /\ net' = IF fixed \/ table # 0 THEN update_node(linked, g, node)
                    ELSE drop_branch(n, p, g)
      BY <1>6, <2>2 DEF GRUPNET
    <3>2. NetSound(n) /\ n.branches = net.branches /\ n.standard = TRUE
      BY <1>0, FlagSound
    <3>3. Mirrors(n, tree)
      <4>1. CASE net.standard
        BY <1>0, <3>2, <4>1 DEF Mirrors
      <4>2. CASE ~net.standard
        <5>1. net.branches = << >>
          <6>1. net.branches \in Seq(Branches)
            BY <1>0, NetworkFields DEF NetSound
          <6> QED
            BY <1>0, <2>2, <4>2, <6>1 DEF active, NetSound
        <5> QED
          BY <3>2, <5>1 DEF Mirrors
      <4> QED
        BY <4>1, <4>2
    <3>4. g \in Names /\ node \in NodeSet
      BY DEF Names, NodeSet
    <3> HIDE DEF n, node
    <3>5. NetSound(linked) /\ Mirrors(linked, tree)
      <4>1. CASE p = NoGroup
        BY <3>2, <3>3, <4>1
      <4>2. CASE p # NoGroup
        <5>1. p \in Groups
          BY <1>0, <4>2 DEF Sound, Trees
        <5>2. b \in Branches /\ b.down = g /\ b.up = p
          BY <5>1 DEF Branch, Branches, Names
        <5> DEFINE r == add_or_replace_branch(n, b)
        <5> HIDE DEF b
        <5>3. /\ NetSound(r)
              /\ \A i \in DOMAIN r.branches :
                   \/ r.branches[i] = b
                   \/ /\ r.branches[i].down # b.down
                      /\ \E j \in DOMAIN n.branches : r.branches[i] = n.branches[j]
          BY <3>2, <5>2, ReplaceSound
        <5>4. linked = r
          BY <4>2
        <5> HIDE DEF r
        <5>5. Mirrors(r, tree)
          BY <3>2, <3>3, <5>2, <5>3 DEF Mirrors
        <5> HIDE DEF linked
        <5> QED
          BY <5>3, <5>4, <5>5
      <4> QED
        BY <4>1, <4>2
    <3> HIDE DEF linked
    <3>6. NetSound(update_node(linked, g, node)) /\ Mirrors(update_node(linked, g, node), tree)
      BY <3>4, <3>5, UpdateSound DEF Mirrors
    <3>7. NetSound(drop_branch(n, p, g)) /\ Mirrors(drop_branch(n, p, g), tree)
      <4>1. CASE p = NoGroup
        <5>1. \A i \in DOMAIN n.branches : n.branches[i].up # p
          <6>1. n.branches \in Seq(Branches)
            BY <3>2, NetworkFields DEF NetSound
          <6>2. ASSUME NEW i \in DOMAIN n.branches PROVE n.branches[i].up \in Names
            <7>1. n.branches[i] \in Branches
              BY <6>1
            <7> QED
              BY <7>1 DEF Branches
          <6> QED
            BY <4>1, <6>2, GroupAssumption, NodesAssumption DEF Names
        <5> DEFINE I == {i \in 1 .. Len(n.branches) : n.branches[i].up = p /\ n.branches[i].down = g}
        <5>2. n.branches \in Seq(Branches)
          BY <3>2, NetworkFields DEF NetSound
        <5>3. I = {}
          BY <5>1, <5>2
        <5>4. drop_branch(n, p, g) = n
          BY <5>3 DEF drop_branch, SelectInSeq
        <5> QED
          BY <3>2, <3>3, <5>4
      <4>2. CASE p # NoGroup
        <5>1. p \in Names
          BY <1>0, <4>2 DEF Sound, Trees, Names
        <5> DEFINE r == drop_branch(n, p, g)
        <5>2. /\ NetSound(r)
              /\ \A i \in DOMAIN r.branches : \E j \in DOMAIN n.branches : r.branches[i] = n.branches[j]
          BY <3>2, <3>4, <5>1, DropSound
        <5> HIDE DEF r
        <5>3. Mirrors(r, tree)
          BY <3>2, <3>3, <5>2 DEF Mirrors
        <5> QED
          BY <5>2, <5>3 DEF r
      <4> QED
        BY <4>1, <4>2
    <3> QED
      BY <3>1, <3>6, <3>7
  <2> QED
    BY <2>1, <2>2
<1>7. Restart => NetSound(net') /\ Mirrors(net', tree')
  <2>1. NetSound(restored_network(net)) /\ ~restored_network(net).standard
    BY <1>0, RestoredNetSound
  <2> QED
    BY <1>a, <2>1 DEF Restart, Refuse, Mirrors
<1>8. NextStep => NetSound(net') /\ Mirrors(net', tree')
  BY <1>a DEF NextStep
<1> QED
  BY <1>1, <1>2, <1>3, <1>4, <1>5, <1>6, <1>7, <1>8 DEF Next, Keyword

(* Tree and network are always sound and agree. *)
LEMMA SpecNInv == Spec => []NInv
<1>1. Init => NInv
  <2>1. Init => Sound(tree)
    BY InitSound
  <2>2. Init => NetSound(net)
    BY EmptySound DEF Init
  <2>3. Init => Mirrors(net, tree)
    BY DEF Init, Mirrors, EmptyNetwork
  <2> QED
    BY <2>1, <2>2, <2>3 DEF NInv
<1>2. NInv /\ [Next]_vars => NInv'
  <2> SUFFICES ASSUME NInv, [Next]_vars PROVE NInv'
    OBVIOUS
  <2>1. CASE Next
    <3>1. Sound(tree)'
      BY NextSound DEF NInv
    <3>2. NetSound(net') /\ Mirrors(net', tree')
      BY <2>1, NetTree
    <3> QED
      BY <3>1, <3>2 DEF NInv, NetSound, Mirrors
  <2>2. CASE UNCHANGED vars
    BY <2>2 DEF NInv, Sound, NetSound, Mirrors, vars
  <2> QED
    BY <2>1, <2>2
<1> QED
  BY <1>1, <1>2, PTL DEF Spec

(* No node ever has two branches up. *)
THEOREM OneBranchUp == Spec => []OneUptree
<1>1. NInv => OneUptree
  BY DEF NInv, NetSound, OneUptree
<1> QED
  BY <1>1, SpecNInv, PTL

(* The ends of every branch are nodes with one number. *)
THEOREM EndsStayNumbered == Spec => []EndsNumbered
<1>1. NInv => EndsNumbered
  BY DEF NInv, NetSound, EndsNumbered
<1> QED
  BY <1>1, SpecNInv, PTL

(* A standard network follows the group tree. *)
THEOREM StandardFollows == Spec => []StandardMirrors
<1>1. NInv => StandardMirrors
  BY DEF NInv, Mirrors, StandardMirrors
<1> QED
  BY <1>1, SpecNInv, PTL

(* The network is sound in all behaviours.                                 *)
THEOREM NetworkStaysSound == Spec => []NetworkSound
  BY OneBranchUp, EndsStayNumbered, StandardFollows, PTL DEF NetworkSound

(* Only Restart continues from a restart file. *)
LEMMA OthersDoNotRestart ==
  ASSUME Next, ~Restart
  PROVE  restarted' = restarted
<1>1. ASSUME NEW c \in Groups, NEW p \in Groups, GRUPTREE(c, p)
      PROVE  restarted' = restarted
  BY <1>1 DEF GRUPTREE, Refuse
<1>2. ASSUME NEW w \in Wells, NEW g \in Groups, WELSPECS(w, g)
      PROVE  restarted' = restarted
  BY <1>2 DEF WELSPECS, Refuse
<1>3. ASSUME NEW g \in Groups, GSATPROD(g)
      PROVE  restarted' = restarted
  BY <1>3 DEF GSATPROD, Refuse
<1>4. ASSUME NEW d \in Nodes, NEW u \in Nodes, NEW table \in {0, 1, 9999},
             BRANPROP(d, u, table)
      PROVE  restarted' = restarted
  BY <1>4 DEF BRANPROP, Refuse
<1>5. ASSUME NEW n \in Nodes, NEW fixed \in BOOLEAN, NEW choke \in BOOLEAN,
             NODEPROP(n, fixed, choke)
      PROVE  restarted' = restarted
  BY <1>5 DEF NODEPROP, Refuse
<1>6. ASSUME NEW g \in Groups, NEW fixed \in BOOLEAN, NEW table \in {0, 1},
             GRUPNET(g, fixed, table)
      PROVE  restarted' = restarted
  BY <1>6 DEF GRUPNET, Refuse
<1>7. NextStep => restarted' = restarted
  BY DEF NextStep
<1> QED
  BY <1>1, <1>2, <1>3, <1>4, <1>5, <1>6, <1>7 DEF Next, Keyword

(* An error stays one. *)
LEMMA FaultsStay ==
  ASSUME Next
  PROVE  fault' = fault \/ fault' = TRUE
<1> DEFINE Stays == fault' = fault \/ fault' = TRUE
<1>1. ASSUME NEW c \in Groups, NEW p \in Groups, GRUPTREE(c, p)
      PROVE  Stays
  BY <1>1 DEF GRUPTREE, Refuse
<1>2. ASSUME NEW w \in Wells, NEW g \in Groups, WELSPECS(w, g)
      PROVE  Stays
  BY <1>2 DEF WELSPECS, Refuse
<1>3. ASSUME NEW g \in Groups, GSATPROD(g)
      PROVE  Stays
  BY <1>3 DEF GSATPROD, Refuse
<1>4. ASSUME NEW d \in Nodes, NEW u \in Nodes, NEW table \in {0, 1, 9999},
             BRANPROP(d, u, table)
      PROVE  Stays
  BY <1>4 DEF BRANPROP, Refuse
<1>5. ASSUME NEW n \in Nodes, NEW fixed \in BOOLEAN, NEW choke \in BOOLEAN,
             NODEPROP(n, fixed, choke)
      PROVE  Stays
  BY <1>5 DEF NODEPROP, Refuse
<1>6. ASSUME NEW g \in Groups, NEW fixed \in BOOLEAN, NEW table \in {0, 1},
             GRUPNET(g, fixed, table)
      PROVE  Stays
  BY <1>6 DEF GRUPNET, Refuse
<1>7. NextStep \/ Restart => Stays
  BY DEF NextStep, Restart, Refuse
<1> HIDE DEF Stays
<1>8. Stays
  BY <1>1, <1>2, <1>3, <1>4, <1>5, <1>6, <1>7 DEF Next, Keyword
<1> QED
  BY <1>8 DEF Stays

(* The marked groups are groups. *)
Marks == /\ manifolds \subseteq Groups /\ before \subseteq Groups /\ shared \subseteq Groups
         /\ count \in Nat

(* The sets of groups keep to the groups. *)
LEMMA MarksStay ==
  ASSUME NInv, Marks, [Next]_vars
  PROVE  Marks'
<1>0. tree.groups \in SUBSET Groups
  BY DEF NInv, Sound, Trees
<1>1. ASSUME NEW c \in Groups, NEW p \in Groups, GRUPTREE(c, p) PROVE Marks'
  BY <1>1 DEF GRUPTREE, Refuse, Count, Marks
<1>2. ASSUME NEW w \in Wells, NEW g \in Groups, WELSPECS(w, g) PROVE Marks'
  BY <1>2 DEF WELSPECS, Refuse, Count, Marks
<1>3. ASSUME NEW g \in Groups, GSATPROD(g) PROVE Marks'
  BY <1>3 DEF GSATPROD, Refuse, Count, Marks
<1>4. ASSUME NEW d \in Nodes, NEW u \in Nodes, NEW table \in {0, 1, 9999}, BRANPROP(d, u, table)
      PROVE  Marks'
  BY <1>4 DEF BRANPROP, Refuse, Count, Marks
<1>5. ASSUME NEW n \in Nodes, NEW fixed \in BOOLEAN, NEW choke \in BOOLEAN,
             NODEPROP(n, fixed, choke)
      PROVE  Marks'
  BY <1>0, <1>5 DEF NODEPROP, Refuse, Count, Marks
<1>6. ASSUME NEW g \in Groups, NEW fixed \in BOOLEAN, NEW table \in {0, 1},
             GRUPNET(g, fixed, table)
      PROVE  Marks'
  BY <1>6 DEF GRUPNET, Refuse, Count, Marks
<1>7. NextStep \/ Restart \/ UNCHANGED vars => Marks'
  BY <1>0 DEF NextStep, Restart, Refuse, Count, Marks, vars
<1>8. ASSUME Next PROVE Marks'
  BY <1>8, <1>1, <1>2, <1>3, <1>4, <1>5, <1>6, <1>7 DEF Next, Keyword
<1> QED
  BY <1>7, <1>8

(* Every variable stays in its range. *)
THEOREM TypeCorrect == Spec => []TypeOK
<1>1. Init => Marks
  BY DEF Init, Marks
<1>2. NInv /\ Marks /\ [Next]_vars => Marks'
  BY MarksStay
<1> DEFINE Flags == restarted \in BOOLEAN /\ fault \in BOOLEAN
<1>3. Init => Flags
  BY Zenon DEF Init
<1>4. Flags /\ [Next]_vars => Flags'
  <2>1. Restart => restarted' = restarted \/ restarted' = TRUE
    BY DEF Restart, Refuse
  <2>2. Next => restarted' = restarted \/ restarted' = TRUE
    BY <2>1, OthersDoNotRestart
  <2>3. Next => fault' = fault \/ fault' = TRUE
    BY FaultsStay
  <2>4. UNCHANGED vars => restarted' = restarted /\ fault' = fault
    BY DEF vars
  <2> QED
    BY <2>2, <2>3, <2>4, Zenon
<1>5. NInv /\ Marks /\ Flags => TypeOK
  BY DEF NInv, Sound, NetSound, Names, Marks, TypeOK
<1> HIDE DEF Flags
<1> QED
  BY <1>1, <1>2, <1>3, <1>4, <1>5, SpecNInv, PTL DEF Spec

(* The numbered nodes of the network that is read are ends of branches. *)
EndsOf(bs, k) == {bs[i].down : i \in 1 .. k} \cup {bs[i].up : i \in 1 .. k}

LinkNamedInv(bs, k, n) ==
  /\ n = [x \in {"standard", "branches", "nodes", "names"} |-> n[x]]
  /\ n.names \in Seq(EndsOf(bs, k))

LinkingNames == INSTANCE Recursion WITH Op <- LinkOp, Inv <- LinkNamedInv

(* So it is with all that the loop has named.                             *)
LEMMA LinkedNames ==
  ASSUME NEW bs \in Seq(Branches)
  PROVE  Range(linked_network(bs).names) \subseteq EndsOf(bs, Len(bs))
<1> DEFINE K == Len(bs)
           f == LinkingNames!Chain(bs, EmptyNetwork, 0, K)
<1>1. linked_network(bs) = f[K]
  BY DEF linked_network, LinkingNames!Chain, LinkOp
<1>2. LinkNamedInv(bs, 0, EmptyNetwork)
  BY DEF EmptyNetwork, LinkNamedInv
<1>3. ASSUME NEW k \in 0 + 1 .. K, NEW n, LinkNamedInv(bs, k - 1, n)
      PROVE  LinkNamedInv(bs, k, LinkOp(bs, n, k))
  <2> DEFINE b == bs[k]
             E == EndsOf(bs, k)
             m == LinkOp(bs, n, k)
  <2>1. k \in 1 .. k /\ 1 .. k - 1 \subseteq 1 .. k
    OBVIOUS
  <2>2. b.down \in E /\ b.up \in E /\ EndsOf(bs, k - 1) \subseteq E
    BY <2>1 DEF EndsOf
  <2>3. n.names \in Seq(E)
    BY <1>3, <2>2 DEF LinkNamedInv
  <2> HIDE DEF b, E
  <2>4. \A s \in Seq(E), x \in E : Named(s, x) \in Seq(E)
    BY DEF Named
  <2>5. Named(Named(n.names, b.down), b.up) \in Seq(E)
    BY <2>2, <2>3, <2>4
  <2>6. /\ n = [x \in {"standard", "branches", "nodes", "names"} |-> n[x]]
        /\ m = add_branch(n, b)
    BY <1>3 DEF LinkNamedInv, LinkOp, b
  <2>7. /\ m = [x \in {"standard", "branches", "nodes", "names"} |-> m[x]]
        /\ m.names = Named(Named(n.names, b.down), b.up)
    BY <2>6 DEF add_branch, WithEnds
  <2> HIDE DEF m
  <2> QED
    BY <2>5, <2>7 DEF LinkNamedInv, E, m
<1>4. LinkNamedInv(bs, K, f[K])
  <2>1. K \in Int /\ 0 \in Int /\ K \in 0 .. K
    OBVIOUS
  <2>2. \A k \in 0 + 1 .. K : \A n : LinkNamedInv(bs, k - 1, n) => LinkNamedInv(bs, k, LinkOp(bs, n, k))
    BY <1>3
  <2> HIDE DEF K
  <2> QED
    BY <1>2, <2>1, <2>2, LinkingNames!ChainKeeps
<1> HIDE DEF f
<1>5. linked_network(bs).names \in Seq(EndsOf(bs, K))
  BY <1>1, <1>4 DEF LinkNamedInv
<1> QED
  BY <1>5 DEF Range

(* What is read from the restart file has the branches of the network that *)
(* was written, and of its nodes whether their pressure is fixed.          *)
LEMMA RestoredNetFaithful ==
  ASSUME NEW n, NetSound(n)
  PROVE  /\ restored_network(n).branches = n.branches
         /\ \A x \in Range(restored_network(n).names) :
              restored_network(n).nodes[x].fixed = n.nodes[x].fixed
<1>0. n \in Networks(Names) /\ n.branches \in Seq(Branches) /\ n.names \in Seq(Names)
      /\ n.nodes \in [DOMAIN n.nodes -> NodeSet]
  BY NetworkFields DEF NetSound
<1>1. CASE ~active(n)
  <2>1. restored_network(n) = EmptyNetwork
    BY <1>1 DEF restored_network
  <2>2. n.branches = << >>
    <3>1. CASE DOMAIN n.nodes = {}
      <4>1. DOMAIN n.branches = {}
        BY <3>1 DEF NetSound
      <4>2. \A s \in Seq(Branches) : DOMAIN s = {} => s = << >>
        <5> SUFFICES ASSUME NEW s \in Seq(Branches), DOMAIN s = {} PROVE s = << >>
          OBVIOUS
        <5>1. s = << >> \/ Len(s) \in Nat \ {0}
          BY EmptySeq
        <5>2. DOMAIN s = 1 .. Len(s)
          OBVIOUS
        <5> QED
          BY <5>1, <5>2
      <4> QED
        BY ONLY <4>1, <4>2, <1>0
    <3> QED
      BY <3>1, <1>1 DEF active
  <2> QED
    BY <2>1, <2>2 DEF EmptyNetwork, Range
<1>2. CASE active(n)
  <2> DEFINE m == linked_network(n.branches)
             D == DOMAIN m.nodes \cup Range(n.names)
             r == restored_network(n)
  <2>1. r.branches = n.branches
    BY <1>2, RestoredNetSound
  <2>2. NetSound(m)
    BY <1>0, LinkedSound DEF NetSound
  <2>3. m \in Networks(Names)
    BY <2>2 DEF NetSound
  <2>4. r = [m EXCEPT !.nodes = [x \in DOMAIN @ \cup Range(n.names) |->
                                   IF x \in Range(n.names) THEN [n.nodes[x] EXCEPT !.choke = FALSE]
                                   ELSE @[x]]]
    BY <1>2 DEF restored_network
  <2>5. Range(m.names) \subseteq EndsOf(n.branches, Len(n.branches))
    BY <1>0, LinkedNames
  <2>6. EndsOf(n.branches, Len(n.branches)) \subseteq Range(n.names)
    <3>1. DOMAIN n.branches = 1 .. Len(n.branches)
      BY <1>0
    <3> QED
      BY <3>1 DEF EndsOf, NetSound
  <2> HIDE DEF m, r
  <2>7. /\ r.names = m.names
        /\ r.nodes = [x \in D |-> IF x \in Range(n.names) THEN [n.nodes[x] EXCEPT !.choke = FALSE]
                                  ELSE m.nodes[x]]
    BY <2>3, <2>4 DEF Networks
  <2>8. ASSUME NEW x \in Range(n.names)
        PROVE  [n.nodes[x] EXCEPT !.choke = FALSE].fixed = n.nodes[x].fixed
    <3>1. n.nodes[x] \in NodeSet
      BY <1>0, <2>8 DEF NetSound
    <3> QED
      BY <3>1 DEF NodeSet
  <2>9. \A x \in Range(r.names) : r.nodes[x].fixed = n.nodes[x].fixed
    <3> SUFFICES ASSUME NEW x \in Range(r.names) PROVE r.nodes[x].fixed = n.nodes[x].fixed
      OBVIOUS
    <3>1. x \in Range(n.names)
      BY <2>5, <2>6, <2>7
    <3>2. r.nodes[x] = [n.nodes[x] EXCEPT !.choke = FALSE]
      BY <2>7, <3>1
    <3> QED
      BY <2>8, <3>1, <3>2
  <2> QED
    BY <2>1, <2>9 DEF r
<1> QED
  BY <1>1, <1>2

(* A restart gives tree and network back: the tree as it was, the branches *)
(* in their order, and the fixed pressures of the nodes.                   *)
THEOREM RestartGivesBack == Spec => RestartFaithful
<1> DEFINE Kept == restarted' /\ ~restarted =>
                     /\ tree' = tree
                     /\ net'.branches = net.branches
                     /\ \A n \in Range(net'.names) : net'.nodes[n].fixed = net.nodes[n].fixed
<1>1. NInv /\ Restart /\ restarted' /\ ~restarted => Kept
  <2> SUFFICES ASSUME NInv, Restart, restarted', ~restarted PROVE Kept
    OBVIOUS
  <2>1. tree' = Restored /\ net' = restored_network(net)
    BY DEF Restart, Refuse
  <2>2. tree' = tree
    BY <2>1, RestoredSame DEF NInv
  <2> QED
    BY <2>1, <2>2, RestoredNetFaithful DEF NInv
<1>2. NInv /\ [Next]_vars => [Kept]_vars
  <2>1. Next /\ ~Restart => ~(restarted' /\ ~restarted)
    <3>1. Next /\ ~Restart => restarted' = restarted
      BY OthersDoNotRestart
    <3> QED
      BY <3>1, Zenon
  <2>2. Next /\ ~(restarted' /\ ~restarted) => Kept
    OBVIOUS
  <2> HIDE DEF Kept
  <2>3. NInv /\ Next => Kept
    BY <1>1, <2>1, <2>2, Zenon
  <2> QED
    BY <2>3
<1> HIDE DEF Kept
<1>3. Spec => [][Kept]_vars
  BY <1>2, SpecNInv, PTL DEF Spec
<1> QED
  BY <1>3 DEF Kept, RestartFaithful

-----------------------------------------------------------------------------
(* The tree promised by GRUPTREE and WELSPECS: who hangs below whom, and   *)
(* the groups of the wells, as the groups and wells themselves have it.    *)
UpOf(t) == [g \in t.groups \ {FIELD} |-> t.parent[g]]
HomeOf(t) == [w \in {v \in Wells : t.home[v] # NoGroup} |-> t.home[w]]

(* It is the one that the lists of children and wells have.                *)
LEMMA ListsGiveForest ==
  ASSUME NEW t, Sound(t)
  PROVE  /\ [g \in t.groups \ {FIELD} |-> CHOOSE p \in Groups : g \in t.children[p]] = UpOf(t)
         /\ [w \in {v \in Wells : t.home[v] # NoGroup} |-> CHOOSE g \in Groups : w \in t.wells[g]]
              = HomeOf(t)
<1>1. ASSUME NEW g \in t.groups \ {FIELD}
      PROVE  (CHOOSE p \in Groups : g \in t.children[p]) = t.parent[g]
  <2>1. g \in Groups /\ t.parent[g] \in Groups
    BY DEF Sound, Trees
  <2>2. \A p \in Groups : g \in t.children[p] <=> p = t.parent[g]
    BY <2>1 DEF Sound
  <2> QED
    BY <2>1, <2>2
<1>2. ASSUME NEW w \in Wells, t.home[w] # NoGroup
      PROVE  (CHOOSE g \in Groups : w \in t.wells[g]) = t.home[w]
  <2>1. t.home[w] \in Groups
    BY <1>2 DEF Sound, Trees
  <2>2. \A g \in Groups : w \in t.wells[g] <=> g = t.home[w]
    BY <2>1 DEF Sound
  <2> QED
    BY <2>1, <2>2
<1> QED
  BY <1>1, <1>2 DEF UpOf, HomeOf

(* Entering a group leaves the others where they are. *)
LEMMA EnsuredForest ==
  ASSUME NEW t, Sound(t), NEW g \in Groups
  PROVE  /\ UpOf(Ensured(t, g)) = [x \in DOMAIN UpOf(t) \cup ({g} \ {FIELD}) |->
                                     IF x \in DOMAIN UpOf(t) THEN UpOf(t)[x] ELSE FIELD]
         /\ HomeOf(Ensured(t, g)) = HomeOf(t)
<1>1. CASE g \in t.groups
  BY <1>1 DEF Ensured, UpOf
<1>2. CASE g \notin t.groups
  <2> DEFINE r == Ensured(t, g)
  <2>1. r.groups = t.groups \cup {g} /\ r.parent = [t.parent EXCEPT ![g] = FIELD] /\ r.home = t.home
    BY <1>2 DEF Ensured, addGroup, Sound, Trees
  <2>2. g # FIELD /\ t.parent \in [Groups -> Groups \cup {NoGroup}] /\ t.groups \subseteq Groups
    BY <1>2 DEF Sound, Trees
  <2> HIDE DEF r
  <2>3. DOMAIN UpOf(r) = DOMAIN UpOf(t) \cup {g} /\ DOMAIN UpOf(t) = t.groups \ {FIELD}
    BY <2>1, <2>2 DEF UpOf
  <2>4. \A x \in DOMAIN UpOf(r) : UpOf(r)[x] = IF x \in DOMAIN UpOf(t) THEN UpOf(t)[x] ELSE FIELD
    BY <1>2, <2>1, <2>2 DEF UpOf
  <2>5. UpOf(r) = [x \in DOMAIN UpOf(r) |-> UpOf(r)[x]] /\ {g} \ {FIELD} = {g}
    BY <2>2 DEF UpOf
  <2>6. UpOf(r) = [x \in DOMAIN UpOf(t) \cup ({g} \ {FIELD}) |->
                     IF x \in DOMAIN UpOf(t) THEN UpOf(t)[x] ELSE FIELD]
    BY <2>3, <2>4, <2>5
  <2>7. HomeOf(r) = HomeOf(t)
    BY <2>1 DEF HomeOf
  <2> QED
    BY <2>6, <2>7 DEF r
<1> QED
  BY <1>1, <1>2

(* A satellite leaves the forest as it is. *)
LEMMA SatelliteForest ==
  ASSUME NEW t, Sound(t), NEW g \in Groups
  PROVE  /\ UpOf(recordSatelliteProduction(t, g)) = UpOf(t)
         /\ HomeOf(recordSatelliteProduction(t, g)) = HomeOf(t)
<1> DEFINE r == recordSatelliteProduction(t, g)
<1>1. r.groups = t.groups /\ r.parent = t.parent /\ r.home = t.home
  BY DEF recordSatelliteProduction, Sound, Trees
<1> HIDE DEF r
<1>2. UpOf(r) = UpOf(t) /\ HomeOf(r) = HomeOf(t)
  BY <1>1 DEF UpOf, HomeOf
<1> QED
  BY <1>2 DEF r

(* The lists implement the promise: every step is a step of the forest or  *)
(* leaves it alone.                                                        *)
THEOREM ListsImplementForest == Spec => ImplementsForest
<1> DEFINE F == <<UpOf(tree), HomeOf(tree)>>
<1>1. Init => Forest!Init
  <2> SUFFICES ASSUME Init PROVE Forest!Init
    OBVIOUS
  <2>1. Sound(tree)
    BY InitSound
  <2>2. UpOf(tree) = [g \in {} |-> FIELD] /\ HomeOf(tree) = [w \in {} |-> FIELD]
    <3>1. tree.groups = {FIELD} /\ tree.home = [w \in Wells |-> NoGroup]
      BY DEF Init, FieldAlone
    <3>2. tree.groups \ {FIELD} = {} /\ {v \in Wells : tree.home[v] # NoGroup} = {}
      BY <3>1
    <3> QED
      BY <3>2 DEF UpOf, HomeOf
  <2> QED
    BY <2>1, <2>2, ListsGiveForest DEF Forest!Init
<1>2. Sound(tree) /\ [Next]_vars => [Forest!Next]_(Forest!forest)
  <2> SUFFICES ASSUME Sound(tree), [Next]_vars PROVE [Forest!Next]_(Forest!forest)
    OBVIOUS
  <2>0. Sound(tree')
    BY NextSound DEF Sound
  <2> DEFINE up == [g \in tree.groups \ {FIELD} |-> CHOOSE p \in Groups : g \in tree.children[p]]
             home == [w \in {v \in Wells : tree.home[v] # NoGroup} |->
                        CHOOSE g \in Groups : w \in tree.wells[g]]
  <2>1. /\ up = UpOf(tree) /\ home = HomeOf(tree)
        /\ up' = UpOf(tree') /\ home' = HomeOf(tree')
    BY <2>0, ListsGiveForest
  <2> HIDE DEF up, home
  <2>2. UpOf(tree') = UpOf(tree) /\ HomeOf(tree') = HomeOf(tree) => UNCHANGED Forest!forest
    BY <2>1 DEF Forest!forest, up, home
  <2>3. ASSUME NEW c \in Groups, NEW p \in Groups, GRUPTREE(c, p)
        PROVE  [Forest!Next]_(Forest!forest)
    <3> DEFINE t1 == Ensured(tree, c)
               t2 == Ensured(t1, p)
    <3>1. CASE \/ EnsureRefused(tree, c) \/ EnsureRefused(t1, p)
               \/ addGroupToGroupRefused(t2, p, c)
      BY <2>2, <2>3, <3>1 DEF GRUPTREE, Refuse
    <3>2. CASE ~(\/ EnsureRefused(tree, c) \/ EnsureRefused(t1, p)
                 \/ addGroupToGroupRefused(t2, p, c))
      <4>1. Sound(t1) /\ c \in t1.groups
        BY <3>2, EnsuredSound
      <4>2. Sound(t2) /\ p \in t2.groups
        BY <3>2, <4>1, EnsuredSound
      <4>3. UpOf(t2) = [x \in DOMAIN UpOf(tree) \cup ({c, p} \ {FIELD}) |->
                          IF x \in DOMAIN UpOf(tree) THEN UpOf(tree)[x] ELSE FIELD]
            /\ HomeOf(t2) = HomeOf(tree)
        <5>1. /\ UpOf(t1) = [x \in DOMAIN UpOf(tree) \cup ({c} \ {FIELD}) |->
                               IF x \in DOMAIN UpOf(tree) THEN UpOf(tree)[x] ELSE FIELD]
              /\ HomeOf(t1) = HomeOf(tree)
          BY EnsuredForest
        <5>2. /\ UpOf(t2) = [x \in DOMAIN UpOf(t1) \cup ({p} \ {FIELD}) |->
                               IF x \in DOMAIN UpOf(t1) THEN UpOf(t1)[x] ELSE FIELD]
              /\ HomeOf(t2) = HomeOf(t1)
          BY <4>1, EnsuredForest
        <5> HIDE DEF t1, t2
        <5>3. DOMAIN UpOf(t1) = DOMAIN UpOf(tree) \cup ({c} \ {FIELD})
          BY <5>1
        <5>4. DOMAIN UpOf(t1) \cup ({p} \ {FIELD}) = DOMAIN UpOf(tree) \cup ({c, p} \ {FIELD})
          BY <5>3
        <5>5. \A x \in DOMAIN UpOf(tree) \cup ({c, p} \ {FIELD}) :
                UpOf(t2)[x] = IF x \in DOMAIN UpOf(tree) THEN UpOf(tree)[x] ELSE FIELD
          BY <5>1, <5>2, <5>4
        <5> QED
          BY <5>1, <5>2, <5>4, <5>5
      <4>4. tree' = addGroupToGroup(t2, p, c)
        BY <2>3, <3>2 DEF GRUPTREE
      <4>5. c # FIELD /\ c \in t2.groups
        <5>1. t2.parent[c] # NoGroup
          BY <3>2 DEF addGroupToGroupRefused
        <5> HIDE DEF t2
        <5> QED
          BY <4>2, <5>1 DEF Sound
      <4> HIDE DEF t1, t2
      <4>6. /\ tree'.groups = t2.groups /\ tree'.home = t2.home
            /\ \A x \in Groups : tree'.parent[x] = IF x = c THEN p ELSE t2.parent[x]
        BY <4>2, <4>4 DEF addGroupToGroup, Sound, Trees
      <4>7. UpOf(tree') = [UpOf(t2) EXCEPT ![c] = p]
        <5>1. t2.groups \subseteq Groups
          BY <4>2 DEF Sound, Trees
        <5> QED
          BY <4>5, <4>6, <5>1 DEF UpOf
      <4>8. HomeOf(tree') = HomeOf(tree)
        BY <4>3, <4>6 DEF HomeOf
      <4>9. up' = [Forest!With({c, p}) EXCEPT ![c] = p] /\ home' = home
        <5>1. Forest!With({c, p}) = UpOf(t2)
          BY <2>1, <4>3 DEF Forest!With, up
        <5> QED
          BY <2>1, <4>7, <4>8, <5>1
      <4>10. Forest!Hang(c, p)
        BY <4>5, <4>9 DEF Forest!Hang, up, home
      <4> QED
        BY <4>10 DEF Forest!Next
    <3> QED
      BY <3>1, <3>2
  <2>4. ASSUME NEW w \in Wells, NEW g \in Groups, WELSPECS(w, g)
        PROVE  [Forest!Next]_(Forest!forest)
    <3> DEFINE t == Ensured(tree, g)
    <3>1. CASE EnsureRefused(tree, g) \/ addWellToGroupRefused(t, g, w)
      BY <2>2, <2>4, <3>1 DEF WELSPECS, Refuse
    <3>2. CASE ~(EnsureRefused(tree, g) \/ addWellToGroupRefused(t, g, w))
      <4>1. Sound(t) /\ g \in t.groups
        BY <3>2, EnsuredSound
      <4>2. /\ UpOf(t) = [x \in DOMAIN UpOf(tree) \cup ({g} \ {FIELD}) |->
                            IF x \in DOMAIN UpOf(tree) THEN UpOf(tree)[x] ELSE FIELD]
            /\ HomeOf(t) = HomeOf(tree)
        BY EnsuredForest
      <4>3. tree' = addWellToGroup(t, g, w)
        BY <2>4, <3>2 DEF WELSPECS
      <4> HIDE DEF t
      <4>4. /\ tree'.groups = t.groups /\ tree'.parent = t.parent
            /\ tree'.home = [t.home EXCEPT ![w] = g]
        BY <4>1, <4>3 DEF addWellToGroup, Sound, Trees
      <4>5. UpOf(tree') = UpOf(t)
        BY <4>4 DEF UpOf
      <4>6. HomeOf(tree') = [v \in DOMAIN HomeOf(t) \cup {w} |-> IF v = w THEN g ELSE HomeOf(t)[v]]
        <5>1. t.home \in [Wells -> Groups \cup {NoGroup}]
          BY <4>1 DEF Sound, Trees
        <5>2. {v \in Wells : tree'.home[v] # NoGroup} = DOMAIN HomeOf(t) \cup {w}
          BY <4>4, <5>1, GroupAssumption DEF HomeOf
        <5> QED
          BY <4>4, <5>1, <5>2 DEF HomeOf
      <4>7. up' = Forest!With({g}) /\ home' = [v \in DOMAIN home \cup {w} |-> IF v = w THEN g ELSE home[v]]
        BY <2>1, <4>2, <4>5, <4>6 DEF Forest!With, up
      <4>8. Forest!Place(w, g)
        BY <4>7 DEF Forest!Place, up, home
      <4> QED
        BY <4>8 DEF Forest!Next
    <3> QED
      BY <3>1, <3>2
  <2>5. ASSUME NEW g \in Groups, GSATPROD(g)
        PROVE  [Forest!Next]_(Forest!forest)
    <3> DEFINE t == Ensured(tree, g)
    <3>1. CASE g = FIELD \/ EnsureRefused(tree, g)
      BY <2>2, <2>5, <3>1 DEF GSATPROD, Refuse
    <3>2. CASE ~(g = FIELD \/ EnsureRefused(tree, g))
      <4>1. Sound(t)
        BY <3>2, EnsuredSound
      <4>2. /\ UpOf(t) = [x \in DOMAIN UpOf(tree) \cup ({g} \ {FIELD}) |->
                            IF x \in DOMAIN UpOf(tree) THEN UpOf(tree)[x] ELSE FIELD]
            /\ HomeOf(t) = HomeOf(tree)
        BY EnsuredForest
      <4>3. tree' = recordSatelliteProduction(t, g)
        BY <2>5, <3>2 DEF GSATPROD
      <4> HIDE DEF t
      <4>4. UpOf(tree') = UpOf(t) /\ HomeOf(tree') = HomeOf(t)
        BY <4>1, <4>3, SatelliteForest
      <4>5. up' = Forest!With({g}) /\ home' = home
        BY <2>1, <4>2, <4>4 DEF Forest!With, up
      <4>6. Forest!Enter(g)
        BY <4>5 DEF Forest!Enter, up, home
      <4> QED
        BY <4>6 DEF Forest!Next
    <3> QED
      BY <3>1, <3>2
  <2>6. Restart => [Forest!Next]_(Forest!forest)
    BY <2>2, RestoredSame DEF Restart, Refuse
  <2>7. ASSUME NEW d \in Nodes, NEW u \in Nodes, NEW table \in {0, 1, 9999}, BRANPROP(d, u, table)
        PROVE  tree' = tree
    BY <2>7 DEF BRANPROP, Refuse
  <2>8. ASSUME NEW n \in Nodes, NEW fixed \in BOOLEAN, NEW choke \in BOOLEAN,
               NODEPROP(n, fixed, choke)
        PROVE  tree' = tree
    BY <2>8 DEF NODEPROP, Refuse
  <2>9. ASSUME NEW g \in Groups, NEW fixed \in BOOLEAN, NEW table \in {0, 1},
               GRUPNET(g, fixed, table)
        PROVE  tree' = tree
    BY <2>9 DEF GRUPNET, Refuse
  <2>10. NextStep \/ UNCHANGED vars => tree' = tree
    BY DEF NextStep, vars
  <2>11. tree' = tree => [Forest!Next]_(Forest!forest)
    BY <2>2
  <2> QED
    BY <2>3, <2>4, <2>5, <2>6, <2>7, <2>8, <2>9, <2>10, <2>11 DEF Next, Keyword
<1> QED
  BY <1>1, <1>2, SpecSound, PTL DEF Spec, ImplementsForest, Forest!Spec

-----------------------------------------------------------------------------
(* The arrays of the restart file: sequences that are put one after        *)
(* another.  Each begins where the one before it ends.                     *)
Layout(ss, st) ==
  /\ st \in [1 .. Len(ss) + 1 -> Nat \ {0}]
  /\ st[1] = 1
  /\ \A j \in 1 .. Len(ss) : st[j + 1] = st[j] + Len(ss[j])

(* What a sequence s is when the first k have been put together. *)
LaidOut(ss, st, k, s) ==
  /\ Len(s) = st[k + 1] - 1
  /\ \A j \in 1 .. k : /\ st[j + 1] - 1 <= Len(s)
                       /\ \A i \in 1 .. Len(ss[j]) : s[st[j] + i - 1] = ss[j][i]

FlattenOp(ss, s, k) == s \o ss[k]
Nothing(ss, k, s) == TRUE
Flattening == INSTANCE Recursion WITH Op <- FlattenOp, Inv <- Nothing

(* FlattenSeq goes through one value for each sequence. *)
LEMMA FlattenSteps ==
  ASSUME NEW S, NEW ss \in Seq(Seq(S)), Len(ss) # 0
  PROVE  \E F : /\ F = [k \in 1 .. Len(ss) |-> IF k = 1 THEN ss[k] ELSE F[k - 1] \o ss[k]]
                /\ FlattenSeq(ss) = F[Len(ss)]
<1> DEFINE K == Len(ss)
           c == Flattening!Chain(ss, ss[1], 1, K)
<1>1. c = [k \in 1 .. K |-> IF k = 1 THEN ss[1] ELSE FlattenOp(ss, c[k - 1], k)]
  <2>1. K \in Int /\ 1 \in Int
    OBVIOUS
  <2> HIDE DEF K
  <2> QED
    BY <2>1, Flattening!ChainSteps
<1> HIDE DEF c
<1>2. c = [k \in 1 .. K |-> IF k = 1 THEN ss[k] ELSE c[k - 1] \o ss[k]]
  BY <1>1 DEF FlattenOp
<1>3. \E F : F = [k \in 1 .. K |-> IF k = 1 THEN ss[k] ELSE F[k - 1] \o ss[k]]
  BY <1>2
<1> QED
  BY <1>3 DEF FlattenSeq

(* One sequence more at the end. *)
LEMMA LaidOutMore ==
  ASSUME NEW S, NEW ss \in Seq(Seq(S)), NEW st, Layout(ss, st), NEW k \in 2 .. Len(ss),
         NEW a \in Seq(S), LaidOut(ss, st, k - 1, a)
  PROVE  a \o ss[k] \in Seq(S) /\ LaidOut(ss, st, k, a \o ss[k])
<1> DEFINE K == Len(ss)
           b == ss[k]
           c == a \o b
<1>1. K \in Nat /\ k \in 1 .. K /\ b \in Seq(S) /\ \A j \in 1 .. K : Len(ss[j]) \in Nat
  OBVIOUS
<1>2. /\ \A j \in 1 .. K + 1 : st[j] \in Nat \ {0}
      /\ \A j \in 1 .. K : st[j + 1] = st[j] + Len(ss[j])
  BY DEF Layout
<1> HIDE DEF K, b
<1>3. k - 1 + 1 = k /\ k \in Nat
  BY <1>1
<1>4. /\ Len(a) = st[k] - 1 /\ st[k + 1] = st[k] + Len(b) /\ st[k] \in Nat
      /\ Len(a) \in Nat /\ Len(b) \in Nat
  <2>1. Len(a) = st[k - 1 + 1] - 1
    BY ONLY LaidOut(ss, st, k - 1, a) DEF LaidOut
  <2>2. Len(a) = st[k] - 1
    BY ONLY <1>3, <2>1
  <2>3. st[k + 1] = st[k] + Len(b)
    BY ONLY <1>1, <1>2 DEF b
  <2>4. k \in 1 .. K + 1
    BY ONLY <1>1
  <2>5. st[k] \in Nat \ {0}
    BY ONLY <1>2, <2>4
  <2>6. Len(a) \in Nat /\ Len(b) \in Nat
    BY <1>1
  <2> QED
    BY ONLY <2>2, <2>3, <2>5, <2>6
<1>5. /\ c \in Seq(S) /\ Len(c) = Len(a) + Len(b)
      /\ \A i \in 1 .. Len(a) : c[i] = a[i]
      /\ \A i \in 1 .. Len(b) : c[Len(a) + i] = b[i]
  BY <1>1
<1> HIDE DEF c
<1>6. ASSUME NEW j \in 1 .. k
      PROVE  /\ st[j + 1] - 1 <= Len(c)
             /\ \A i \in 1 .. Len(ss[j]) : c[st[j] + i - 1] = ss[j][i]
  <2>1. CASE j = k
    <3>1. st[j + 1] - 1 <= Len(c)
      BY ONLY <1>4, <1>5, <2>1
    <3>2. ASSUME NEW i \in 1 .. Len(b) PROVE c[st[k] + i - 1] = b[i]
      <4>1. st[k] + i - 1 = Len(a) + i
        BY <1>4
      <4> QED
        BY <1>5, <4>1
    <3> QED
      BY <3>1, <3>2, <2>1 DEF b
  <2>2. CASE j # k
    <3>1. j \in 1 .. k - 1 /\ j \in 1 .. K /\ j \in 1 .. K + 1 /\ j + 1 \in 1 .. K + 1
      BY <1>1, <2>2
    <3> DEFINE p == st[j]
               q == st[j + 1]
               e == ss[j]
    <3>2. q - 1 <= Len(a) /\ \A i \in 1 .. Len(e) : a[p + i - 1] = e[i]
      BY <3>1 DEF LaidOut
    <3>3. p \in Nat \ {0} /\ q \in Nat /\ q = p + Len(e) /\ Len(e) \in Nat
      BY <1>1, <1>2, <3>1
    <3> HIDE DEF p, q, e
    <3>4. q - 1 <= Len(a) /\ Len(c) = Len(a) + Len(b)
      BY <1>5, <3>2
    <3>6. q - 1 <= Len(c)
      <4>1. \A la, lb, lc, x \in Nat : x - 1 <= la /\ lc = la + lb => x - 1 <= lc
        OBVIOUS
      <4>2. Len(a) \in Nat /\ Len(b) \in Nat /\ Len(c) \in Nat /\ q \in Nat
        BY <1>4, <1>5, <3>3
      <4> QED
        BY ONLY <4>1, <4>2, <3>4
    <3>5. ASSUME NEW i \in 1 .. Len(e) PROVE c[p + i - 1] = e[i]
      <4>1. p + i - 1 \in 1 .. Len(a)
        <5>1. \A la, le, x, y, z \in Nat : y - 1 <= la /\ y = x + le /\ x # 0 /\ z \in 1 .. le
                                          => x + z - 1 \in 1 .. la
          OBVIOUS
        <5>2. Len(a) \in Nat /\ Len(e) \in Nat /\ p \in Nat /\ q \in Nat /\ i \in Nat
          BY <1>4, <3>3
        <5> QED
          BY ONLY <5>1, <5>2, <3>4, <3>3, i \in 1 .. Len(e)
      <4>2. c[p + i - 1] = a[p + i - 1]
        BY <1>5, <4>1
      <4> QED
        BY <3>2, <4>2
    <3> QED
      BY <3>5, <3>6 DEF p, q, e
  <2> QED
    BY <2>1, <2>2
<1>7. Len(c) = st[k + 1] - 1
  BY ONLY <1>4, <1>5
<1> QED
  BY <1>5, <1>6, <1>7 DEF LaidOut, c, b

(* Each sequence is found where it begins. *)
LEMMA FlattenLaidOut ==
  ASSUME NEW S, NEW ss \in Seq(Seq(S)), Len(ss) # 0, NEW st, Layout(ss, st)
  PROVE  FlattenSeq(ss) \in Seq(S) /\ LaidOut(ss, st, Len(ss), FlattenSeq(ss))
<1> DEFINE K == Len(ss)
           f == FlattenSeq(ss)
<1>1. PICK F : /\ F = [k \in 1 .. K |-> IF k = 1 THEN ss[k] ELSE F[k - 1] \o ss[k]]
               /\ f = F[K]
  BY FlattenSteps
<1> DEFINE Q(k) == F[k] \in Seq(S) /\ LaidOut(ss, st, k, F[k])
           T == {m \in Nat : m + 1 <= K => Q(m + 1)}
<1>2. K \in Nat \ {0}
  OBVIOUS
<1>3. 0 \in T
  <2>1. ss[1] \in Seq(S) /\ st[1] = 1 /\ st[1 + 1] = 1 + Len(ss[1])
    BY DEF Layout
  <2>2. F[1] = ss[1]
    BY <1>1, <1>2
  <2>3. LaidOut(ss, st, 1, ss[1])
    BY <2>1 DEF LaidOut
  <2> QED
    BY <2>1, <2>2, <2>3
<1>4. ASSUME NEW m \in Nat, m \in T PROVE m + 1 \in T
  <2> SUFFICES ASSUME (m + 1) + 1 <= K PROVE Q((m + 1) + 1)
    OBVIOUS
  <2> DEFINE k == (m + 1) + 1
  <2>1. k \in 2 .. K /\ k \in 1 .. K /\ k # 1 /\ k - 1 = m + 1 /\ m + 1 <= K
    BY <1>2
  <2>2. F[k - 1] \in Seq(S) /\ LaidOut(ss, st, k - 1, F[k - 1])
    BY <1>4, <2>1
  <2> HIDE DEF k, T
  <2>3. F[k] = F[k - 1] \o ss[k]
    BY <1>1, <2>1
  <2>4. F[k - 1] \o ss[k] \in Seq(S) /\ LaidOut(ss, st, k, F[k - 1] \o ss[k])
    BY <2>1, <2>2, LaidOutMore
  <2>5. Q(k)
    BY <2>3, <2>4
  <2> QED
    BY <2>5 DEF k
<1> HIDE DEF Q
<1>5. \A m \in Nat : m \in T
  <2> HIDE DEF T
  <2> QED
    BY <1>3, <1>4, Flattening!NatSetInduction
<1>6. Q(K)
  <2> HIDE DEF K
  <2>1. K - 1 \in Nat /\ (K - 1) + 1 = K /\ K <= K
    BY <1>2
  <2>2. K - 1 \in T
    BY <1>5, <2>1
  <2> QED
    BY <2>1, <2>2
<1> QED
  BY <1>1, <1>6 DEF Q

(* Every sequence has its beginning. *)
StartOp(ss, a, k) == a + Len(ss[k - 1])
StartInv(ss, k, a) == a \in Nat \ {0}
Starting == INSTANCE Recursion WITH Op <- StartOp, Inv <- StartInv

(* So the layout of any sequences can be told. *)
LEMMA StartsExist ==
  ASSUME NEW S, NEW ss \in Seq(Seq(S))
  PROVE  \E st : Layout(ss, st)
<1> DEFINE K == Len(ss)
           hi == K + 1
           st == Starting!Chain(ss, 1, 1, hi)
<1>0. K \in Nat /\ \A k \in 1 .. K : Len(ss[k]) \in Nat
  OBVIOUS
<1>1. hi \in Int /\ 1 \in Int /\ StartInv(ss, 1, 1)
  BY <1>0 DEF StartInv
<1>2. \A k \in 1 + 1 .. hi : \A a : StartInv(ss, k - 1, a) => StartInv(ss, k, StartOp(ss, a, k))
  BY <1>0 DEF StartInv, StartOp
<1> HIDE DEF hi
<1>3. \A k \in 1 .. hi : StartInv(ss, k, st[k])
  BY <1>1, <1>2, Starting!ChainKeeps
<1>4. st = [k \in 1 .. hi |-> IF k = 1 THEN 1 ELSE StartOp(ss, st[k - 1], k)]
  BY <1>1, Starting!ChainSteps
<1> HIDE DEF st
<1>5. st \in [1 .. K + 1 -> Nat \ {0}]
  BY <1>3, <1>4 DEF StartInv, hi
<1>6. st[1] = 1
  BY <1>0, <1>4 DEF hi
<1>7. ASSUME NEW j \in 1 .. K PROVE st[j + 1] = st[j] + Len(ss[j])
  <2> DEFINE k == j + 1
  <2>1. k \in 1 .. K + 1 /\ k # 1 /\ k - 1 = j
    BY <1>0
  <2> HIDE DEF k
  <2>2. st[k] = st[j] + Len(ss[j])
    BY <1>4, <2>1 DEF StartOp, hi
  <2> QED
    BY <2>2 DEF k
<1>8. Layout(ss, st)
  BY <1>5, <1>6, <1>7 DEF Layout, K
<1> QED
  BY <1>8
-----------------------------------------------------------------------------
(* INODE and INOBR. *)
EndsAt(n, x, k) == (IF n.branches[k].up = x THEN <<k>> ELSE << >>) \o
                   (IF n.branches[k].down = x THEN << -k >> ELSE << >>)

(* The branches that meet in a node are a sequence of numbers; with the    *)
(* node at its lower end the first branch is one of them, as -1.           *)
LEMMA ConnectedProps ==
  ASSUME NEW n, n.branches \in Seq(Branches), NEW x
  PROVE  /\ Connected(n, x) \in Seq(Int)
         /\ n.branches # << >> /\ n.branches[1].down = x => -1 \in Range(Connected(n, x))
<1> DEFINE ss == [k \in DOMAIN n.branches |-> EndsAt(n, x, k)]
           K == Len(n.branches)
           f == Connected(n, x)
<1>1. K \in Nat /\ DOMAIN n.branches = 1 .. K /\ (n.branches # << >> => K # 0)
  <2>1. \A s \in Seq(Branches) : /\ Len(s) \in Nat /\ DOMAIN s = 1 .. Len(s)
                                 /\ (s # << >> => Len(s) # 0)
    OBVIOUS
  <2> QED
    BY ONLY <2>1, n.branches \in Seq(Branches)
<1>2. f = FlattenSeq(ss)
  BY DEF Connected, EndsAt
<1>3. \A k \in 1 .. K : EndsAt(n, x, k) \in Seq(Int)
  BY DEF EndsAt
<1>4. ss \in Seq(Seq(Int)) /\ Len(ss) = K /\ \A k \in 1 .. K : ss[k] = EndsAt(n, x, k)
  BY <1>1, <1>3
<1> HIDE DEF ss, f
<1>5. CASE K = 0
  <2>1. ss = << >>
    BY <1>4, <1>5
  <2> QED
    BY <1>1, <1>2, <1>5, <2>1 DEF FlattenSeq, f
<1>6. CASE K # 0
  <2>1. PICK st : Layout(ss, st)
    BY <1>4, StartsExist
  <2>2. f \in Seq(Int) /\ LaidOut(ss, st, K, f)
    BY <1>2, <1>4, <1>6, <2>1, FlattenLaidOut
  <2>3. ASSUME n.branches[1].down = x PROVE -1 \in Range(f)
    <3>1. EndsAt(n, x, 1) = <<1>> \o << -1 >> \/ EndsAt(n, x, 1) = << >> \o << -1 >>
      BY <2>3 DEF EndsAt
    <3>2. PICK i \in 1 .. Len(EndsAt(n, x, 1)) : EndsAt(n, x, 1)[i] = -1
      BY <3>1
    <3>3. ss[1] = EndsAt(n, x, 1) /\ 1 \in 1 .. K
      BY <1>1, <1>4, <1>6
    <3>4. f[st[1] + i - 1] = -1 /\ st[1 + 1] - 1 <= Len(f)
      BY <2>2, <3>2, <3>3 DEF LaidOut
    <3>5. st[1] = 1 /\ st[1 + 1] = 1 + Len(EndsAt(n, x, 1))
      BY <1>4, <2>1, <3>3 DEF Layout
    <3>6. Len(EndsAt(n, x, 1)) \in Nat /\ Len(f) \in Nat /\ DOMAIN f = 1 .. Len(f)
      <4>1. EndsAt(n, x, 1) \in Seq(Int)
        BY <1>3, <3>3
      <4> QED
        BY <4>1, <2>2
    <3>7. i \in DOMAIN f /\ st[1] + i - 1 = i
      BY ONLY <3>4, <3>5, <3>6, i \in 1 .. Len(EndsAt(n, x, 1))
    <3> QED
      BY <3>4, <3>7 DEF Range
  <2> QED
    BY <2>2, <2>3 DEF f
<1> QED
  BY <1>5, <1>6

(* The number of a node is its position among the names. *)
LEMMA NumberOfNode ==
  ASSUME NEW n, n.names \in Seq(Names), \A i, j \in DOMAIN n.names : n.names[i] = n.names[j] => i = j,
         NEW k \in DOMAIN n.names
  PROVE  IndexOfName(n, n.names[k]) = k
<1> DEFINE I == {i \in 1 .. Len(n.names) : n.names[i] = n.names[k]}
<1>1. DOMAIN n.names = 1 .. Len(n.names)
  OBVIOUS
<1>2. I = {k} /\ k \in Nat
  BY <1>1
<1>3. Min(I) \in I
  BY <1>2, MinIn
<1>4. Min(I) = k
  BY <1>2, <1>3
<1> HIDE DEF I
<1>5. IndexOfName(n, n.names[k]) = IF I # {} THEN Min(I) ELSE 0
  BY DEF IndexOfName, SelectInSeq, I
<1> QED
  BY <1>2, <1>4, <1>5

(* The positions counted up to a node. *)
CountOp(n, c, m) == c + numberOfBranchesConnToNode(n, m)
CountInv(n, k, c) == c \in Nat \ {0}
Counting == INSTANCE Recursion WITH Op <- CountOp, Inv <- CountInv

Cum(n, k) == Counting!Fold(n, 1, SubSeq(n.names, 1, k - 1))

(* They are what INODE tells of the node. *)
LEMMA CumIs ==
  ASSUME NEW n, n.names \in Seq(Names), \A i, j \in DOMAIN n.names : n.names[i] = n.names[j] => i = j,
         NEW k \in DOMAIN n.names
  PROVE  cumNumberOfBranchesConnToNode(n, n.names[k]) = Cum(n, k)
<1>1. IndexOfName(n, n.names[k]) = k
  BY NumberOfNode
<1> DEFINE s == SubSeq(n.names, 1, k - 1)
<1>2. cumNumberOfBranchesConnToNode(n, n.names[k])
        = FoldLeft(LAMBDA c, m : c + numberOfBranchesConnToNode(n, m), 1, s)
  BY <1>1 DEF cumNumberOfBranchesConnToNode
<1> HIDE DEF s
<1>3. FoldLeft(LAMBDA c, m : c + numberOfBranchesConnToNode(n, m), 1, s) = Counting!Fold(n, 1, s)
  BY DEF Counting!Fold, CountOp, FoldLeft, MapThenFoldSet, Counting!MapThenFoldSet, Max, Counting!Max
<1> QED
  BY <1>2, <1>3 DEF Cum, s

(* Each node adds the branches that meet in it. *)
LEMMA CumSteps ==
  ASSUME NEW n, n.names \in Seq(Names), n.branches \in Seq(Branches)
  PROVE  /\ Cum(n, 1) = 1
         /\ \A k \in DOMAIN n.names : Cum(n, k + 1) = Cum(n, k) + Len(Connected(n, n.names[k]))
         /\ \A k \in 1 .. Len(n.names) + 1 : Cum(n, k) \in Nat \ {0}
<1> DEFINE s == n.names
<1>1. s \in Seq(Names)
  OBVIOUS
<1>2. \A x : Len(Connected(n, x)) \in Nat
  BY ConnectedProps
<1> HIDE DEF s
<1>3. Cum(n, 1) = 1
  <2>1. SubSeq(s, 1, 1 - 1) = << >>
    BY <1>1
  <2> QED
    BY <2>1, Counting!FoldNothing DEF Cum, s
<1>4. ASSUME NEW k \in DOMAIN s
      PROVE  Cum(n, k + 1) = Cum(n, k) + Len(Connected(n, s[k]))
  <2> DEFINE t == SubSeq(s, 1, k - 1)
             x == s[k]
  <2>1. /\ t \in Seq(Names) /\ x \in Names
        /\ SubSeq(s, 1, k) = Append(t, x)
        /\ (k + 1) - 1 = k
    BY <1>1
  <2> HIDE DEF t, x
  <2>2. Counting!Fold(n, 1, Append(t, x)) = CountOp(n, Counting!Fold(n, 1, t), x)
    BY <2>1, Counting!FoldAppend
  <2>3. Cum(n, k + 1) = Counting!Fold(n, 1, Append(t, x)) /\ Cum(n, k) = Counting!Fold(n, 1, t)
    BY <2>1 DEF Cum, s, t
  <2> QED
    BY <2>2, <2>3 DEF CountOp, numberOfBranchesConnToNode, x
<1>5. ASSUME NEW k \in 1 .. Len(s) + 1 PROVE Cum(n, k) \in Nat \ {0}
  <2> DEFINE t == SubSeq(s, 1, k - 1)
  <2>1. t \in Seq(Names)
    BY <1>1
  <2>2. CountInv(n, 0, 1)
    BY DEF CountInv
  <2>3. \A j \in 1 .. Len(t) : \A a : CountInv(n, j - 1, a) => CountInv(n, j, CountOp(n, a, t[j]))
    BY <1>2 DEF CountInv, CountOp, numberOfBranchesConnToNode
  <2> HIDE DEF t
  <2>4. CountInv(n, Len(t), Counting!Fold(n, 1, t))
    BY <2>1, <2>2, <2>3, Counting!FoldKeeps
  <2> QED
    BY <2>4 DEF CountInv, Cum, t, s
<1> QED
  BY <1>3, <1>4, <1>5 DEF s

(* A sequence of numbers without its first -1. *)
LEMMA WithoutFirst ==
  ASSUME NEW s \in Seq(Int), -1 \in Range(s)
  PROVE  /\ RemoveFirst(s, -1) \in Seq(Int)
         /\ Len(RemoveFirst(s, -1)) = Len(s) - 1 /\ Len(s) \in Nat \ {0}
         /\ Range(s) = {-1} \cup {RemoveFirst(s, -1)[i] : i \in 1 .. Len(s) - 1}
<1> DEFINE I == {i \in 1 .. Len(s) : s[i] = -1}
           p == Min(I)
           r == RemoveAt(s, p)
<1>1. I # {} /\ I \subseteq Nat /\ DOMAIN s = 1 .. Len(s)
  BY DEF Range
<1>2. p \in 1 .. Len(s) /\ s[p] = -1
  BY <1>1, MinIn
<1>3. RemoveFirst(s, -1) = r
  BY <1>1 DEF RemoveFirst, SelectInSeq
<1> HIDE DEF p, r, I
<1>4. /\ r \in Seq(Int) /\ DOMAIN r = 1 .. Len(s) - 1
      /\ \A k \in 1 .. Len(s) - 1 : r[k] = IF k < p THEN s[k] ELSE s[k + 1]
  BY <1>2, RemoveAtProps DEF r
<1>5. Len(s) \in Nat \ {0} /\ Len(r) = Len(s) - 1
  BY <1>2, <1>4
<1>6. ASSUME NEW k \in 1 .. Len(s), k # p
      PROVE  \E i \in 1 .. Len(s) - 1 : r[i] = s[k]
  <2>1. CASE k < p
    <3>1. k \in 1 .. Len(s) - 1
      BY <2>1, <1>2, <1>5
    <3> QED
      BY <3>1, <2>1, <1>4
  <2>2. CASE k > p
    <3>1. k - 1 \in 1 .. Len(s) - 1 /\ ~(k - 1 < p) /\ (k - 1) + 1 = k
      BY <2>2, <1>2, <1>5
    <3>2. r[k - 1] = s[k]
      BY <3>1, <1>4
    <3> QED
      BY <3>1, <3>2
  <2> QED
    BY <2>1, <2>2, <1>2, <1>6
<1>7. \A i \in 1 .. Len(s) - 1 : r[i] \in Range(s)
  <2> SUFFICES ASSUME NEW i \in 1 .. Len(s) - 1 PROVE r[i] \in Range(s)
    OBVIOUS
  <2>1. i \in 1 .. Len(s) /\ i + 1 \in 1 .. Len(s)
    BY <1>5
  <2> QED
    BY <2>1, <1>1, <1>4 DEF Range
<1>8. Range(s) = {-1} \cup {r[i] : i \in 1 .. Len(s) - 1}
  BY <1>1, <1>2, <1>6, <1>7 DEF Range
<1> QED
  BY <1>3, <1>4, <1>5, <1>8
(* What INOBR holds behind its first entry. *)
EntriesAt(n, k) == IF k = 1 THEN RemoveFirst(Connected(n, n.names[1]), -1)
                   ELSE Connected(n, n.names[k])

(* Where the entries of a node begin there. *)
EntryStart(n) == [k \in 1 .. Len(n.names) + 1 |-> IF k = 1 THEN 1 ELSE Cum(n, k) - 1]

(* INODE, which counts branches, and INOBR, which lists them, agree.       *)
LEMMA InobrLaidOut ==
  ASSUME NEW n, NetSound(n), active(n), n.branches[1].down = n.names[1],
         NEW k \in DOMAIN n.names
  PROVE  LET x == n.names[k]
             first == cumNumberOfBranchesConnToNode(n, x)
             size == numberOfBranchesConnToNode(n, x)
         IN  /\ first + size - 1 <= Len(inobrFunc(n))
             /\ {inobrFunc(n)[i] : i \in first .. first + size - 1} = Range(Connected(n, x))
<1> DEFINE K == Len(n.names)
           C(j) == Connected(n, n.names[j])
           ss == [j \in 1 .. K |-> EntriesAt(n, j)]
           st == EntryStart(n)
           F == FlattenSeq(ss)
           g == inobrFunc(n)
<1>1. /\ n.branches \in Seq(Branches) /\ n.names \in Seq(Names) /\ n.branches # << >>
      /\ \A i, j \in DOMAIN n.names : n.names[i] = n.names[j] => i = j
  BY NetworkFields DEF NetSound, active
<1>2. /\ K \in Nat \ {0} /\ DOMAIN n.names = 1 .. K /\ 1 \in 1 .. K /\ k \in 1 .. K
  <2>1. \A s \in Seq(Names) : Len(s) \in Nat /\ DOMAIN s = 1 .. Len(s)
    OBVIOUS
  <2>2. K \in Nat /\ DOMAIN n.names = 1 .. K
    BY ONLY <2>1, <1>1
  <2> QED
    BY <2>2
<1>3. \A x : Connected(n, x) \in Seq(Int)
  BY <1>1, ConnectedProps
<1>4. -1 \in Range(C(1))
  BY <1>1, ConnectedProps
<1>5. /\ RemoveFirst(C(1), -1) \in Seq(Int)
      /\ Len(RemoveFirst(C(1), -1)) = Len(C(1)) - 1 /\ Len(C(1)) \in Nat \ {0}
      /\ Range(C(1)) = {-1} \cup {RemoveFirst(C(1), -1)[i] : i \in 1 .. Len(C(1)) - 1}
  BY <1>3, <1>4, WithoutFirst
<1>6. IndexOfName(n, n.branches[1].down) = 1
  BY <1>1, <1>2, NumberOfNode
<1>7. g = << -1 >> \o F
  <2>1. K - 1 + 1 = K /\ \A j \in 1 .. K : 1 + j - 1 = j
    BY <1>2
  <2>2. [j \in 1 .. K - 1 + 1 |-> LET c == Connected(n, n.names[1 + j - 1])
                                  IN  IF 1 + j - 1 = 1 THEN RemoveFirst(c, -1) ELSE c] = ss
    BY <2>1 DEF EntriesAt
  <2> QED
    BY <1>6, <2>2 DEF inobrFunc
<1>8. ss \in Seq(Seq(Int)) /\ Len(ss) = K /\ \A j \in 1 .. K : ss[j] = EntriesAt(n, j)
  <2>1. \A j \in 1 .. K : EntriesAt(n, j) \in Seq(Int)
    BY <1>3, <1>5 DEF EntriesAt
  <2> QED
    BY <1>2, <2>1
<1> HIDE DEF ss, F, g, K
<1>9. \A j \in 1 .. K : /\ j + 1 \in 1 .. K + 1 /\ j \in 1 .. K + 1
                        /\ Cum(n, j + 1) = Cum(n, j) + Len(C(j))
                        /\ Cum(n, j + 1) \in Nat /\ Cum(n, j) \in Nat \ {0} /\ Len(C(j)) \in Nat
  <2>1. /\ \A j \in 1 .. K : Cum(n, j + 1) = Cum(n, j) + Len(Connected(n, n.names[j]))
        /\ \A j \in 1 .. K + 1 : Cum(n, j) \in Nat \ {0}
    BY <1>1, <1>2, CumSteps DEF K
  <2>2. \A j : Len(C(j)) \in Nat
    BY <1>3
  <2>3. \A j \in 1 .. K : j + 1 \in 1 .. K + 1 /\ j \in 1 .. K + 1
    BY <1>2
  <2> QED
    BY <2>1, <2>2, <2>3
<1>10. Cum(n, 1) = 1
  BY <1>1, CumSteps
<1>11. Layout(ss, st)
  <2>1. st[1] = 1 /\ DOMAIN st = 1 .. K + 1
    BY <1>2 DEF EntryStart, K
  <2>2. ASSUME NEW j \in 1 .. K
        PROVE  st[j + 1] = Cum(n, j + 1) - 1
    BY <1>2, <1>9 DEF EntryStart, K
  <2>3. ASSUME NEW j \in 1 .. K
        PROVE  st[j + 1] = st[j] + Len(ss[j])
    <3>1. CASE j = 1
      <4>1. Len(ss[1]) = Len(C(1)) - 1
        BY <1>2, <1>5, <1>8 DEF EntriesAt
      <4> QED
        BY <2>1, <2>2, <3>1, <4>1, <1>9, <1>10
    <3>2. CASE j # 1
      <4>1. ss[j] = C(j)
        BY <1>8, <3>2 DEF EntriesAt
      <4>2. st[j] = Cum(n, j) - 1
        BY <3>2, <1>9 DEF EntryStart, K
      <4> QED
        BY <2>2, <4>1, <4>2, <1>9
    <3> QED
      BY <3>1, <3>2
  <2>4. \A j \in 1 .. K : Cum(n, j + 1) > 1
    <3> DEFINE T == {m \in Nat : m + 1 <= K => Cum(n, (m + 1) + 1) > 1}
    <3>1. 0 \in T
      <4>1. Cum(n, 1 + 1) = 1 + Len(C(1))
        BY <1>2, <1>9, <1>10
      <4> QED
        BY <4>1, <1>5
    <3>2. ASSUME NEW m \in Nat, m \in T PROVE m + 1 \in T
      <4> SUFFICES ASSUME (m + 1) + 1 <= K PROVE Cum(n, ((m + 1) + 1) + 1) > 1
        OBVIOUS
      <4> DEFINE j == (m + 1) + 1
      <4>1. j \in 1 .. K /\ m + 1 <= K
        BY <1>2
      <4>2. Cum(n, j) > 1
        BY <3>2, <4>1
      <4> HIDE DEF j
      <4>3. Cum(n, j + 1) > 1
        BY <1>9, <4>1, <4>2
      <4> QED
        BY <4>3 DEF j
    <3> HIDE DEF T
    <3>3. Nat \subseteq T
      BY <3>1, <3>2, Counting!NatSetInduction
    <3> SUFFICES ASSUME NEW j \in 1 .. K PROVE Cum(n, j + 1) > 1
      OBVIOUS
    <3>4. j - 1 \in Nat /\ (j - 1) + 1 = j /\ j <= K
      BY <1>2
    <3> QED
      BY <3>3, <3>4 DEF T
  <2>5. ASSUME NEW j \in 1 .. K + 1 PROVE st[j] \in Nat \ {0}
    <3>1. CASE j = 1
      BY <2>1, <3>1
    <3>2. CASE j # 1
      <4>1. j - 1 \in 1 .. K /\ (j - 1) + 1 = j
        BY <1>2, <3>2
      <4>2. st[j] = Cum(n, j) - 1 /\ Cum(n, j) > 1 /\ Cum(n, j) \in Nat
        BY <2>2, <2>4, <1>9, <4>1
      <4> QED
        BY <4>2
    <3> QED
      BY <3>1, <3>2
  <2>6. st = [j \in 1 .. K + 1 |-> st[j]]
    BY DEF EntryStart, K
  <2> HIDE DEF st
  <2> QED
    BY <1>8, <2>1, <2>3, <2>5, <2>6 DEF Layout
<1>12. F \in Seq(Int) /\ LaidOut(ss, st, K, F)
  BY <1>2, <1>8, <1>11, FlattenLaidOut DEF F
<1>13. /\ g[1] = -1 /\ Len(g) = Len(F) + 1 /\ Len(F) \in Nat
       /\ \A i \in 1 .. Len(F) : g[i + 1] = F[i]
  BY <1>7, <1>12
<1> DEFINE x == n.names[k]
           first == cumNumberOfBranchesConnToNode(n, x)
           size == numberOfBranchesConnToNode(n, x)
<1>14. first = Cum(n, k) /\ size = Len(C(k)) /\ first \in Nat \ {0} /\ size \in Nat
  BY <1>1, <1>2, <1>9, CumIs DEF numberOfBranchesConnToNode
<1>15. st[k + 1] - 1 <= Len(F) /\ st[k + 1] = Cum(n, k + 1) - 1
       /\ \A i \in 1 .. Len(ss[k]) : F[st[k] + i - 1] = ss[k][i]
  <2>1. st[k + 1] = Cum(n, k + 1) - 1
    <3> DEFINE j == k + 1
    <3>1. j \in 1 .. K + 1 /\ j # 1
      BY <1>2
    <3> HIDE DEF j
    <3>2. st[j] = Cum(n, j) - 1
      BY <3>1 DEF EntryStart, K
    <3> QED
      BY <3>2 DEF j
  <2> QED
    BY <2>1, <1>2, <1>12 DEF LaidOut
<1> HIDE DEF st, first, size
<1>16. first + size - 1 <= Len(g)
  <2>1. Cum(n, k + 1) = first + size /\ Cum(n, k + 1) \in Nat
    BY <1>2, <1>9, <1>14
  <2>2. st[k + 1] = first + size - 1 /\ st[k + 1] - 1 <= Len(F)
    <3>1. st[k + 1] = Cum(n, k + 1) - 1 /\ st[k + 1] - 1 <= Len(F)
      BY <1>15
    <3> DEFINE c == Cum(n, k + 1)
               e == st[k + 1]
    <3>2. e = c - 1 /\ e - 1 <= Len(F) /\ c = first + size
      BY <2>1, <3>1
    <3> HIDE DEF c, e
    <3>3. e = first + size - 1 /\ e - 1 <= Len(F)
      BY <1>14, <3>2
    <3> QED
      BY <3>3 DEF e
  <2>3. Len(g) = Len(F) + 1 /\ Len(F) \in Nat
    BY <1>13
  <2> QED
    BY ONLY <2>2, <2>3, <1>14
<1>17. CASE k = 1
  <2>1. first = 1 /\ size = Len(C(1)) /\ size # 0
    BY <1>5, <1>10, <1>14, <1>17
  <2>2. ss[1] = RemoveFirst(C(1), -1) /\ st[1] = 1
    BY <1>2, <1>8, <1>11 DEF EntriesAt, Layout
  <2>3. ASSUME NEW i \in 1 .. Len(C(1)) - 1 PROVE g[i + 1] = RemoveFirst(C(1), -1)[i]
    <3>1. i \in 1 .. Len(ss[1]) /\ st[1] + i - 1 = i
      BY <1>5, <2>2
    <3>2. F[i] = RemoveFirst(C(1), -1)[i]
      BY <1>15, <1>17, <2>2, <3>1
    <3>3. i \in 1 .. Len(F)
      BY <2>1, <1>5, <1>13, <1>16
    <3> QED
      BY <1>13, <3>2, <3>3
  <2>4. {g[i] : i \in first .. first + size - 1} = {g[i] : i \in 1 .. Len(C(1))}
    <3>1. first .. first + size - 1 = 1 .. Len(C(1))
      BY <2>1, <1>5
    <3> QED
      BY <3>1
  <2>5. {g[i] : i \in 1 .. Len(C(1))} = {g[1]} \cup {g[i + 1] : i \in 1 .. Len(C(1)) - 1}
    <3>1. \A i \in 1 .. Len(C(1)) : i = 1 \/ (i - 1 \in 1 .. Len(C(1)) - 1 /\ (i - 1) + 1 = i)
      BY <1>5
    <3>2. \A i \in 1 .. Len(C(1)) - 1 : i + 1 \in 1 .. Len(C(1))
      BY <1>5
    <3>3. 1 \in 1 .. Len(C(1))
      BY <1>5
    <3> QED
      BY <3>1, <3>2, <3>3
  <2>6. {g[i + 1] : i \in 1 .. Len(C(1)) - 1} = {RemoveFirst(C(1), -1)[i] : i \in 1 .. Len(C(1)) - 1}
    BY <2>3
  <2> QED
    BY <2>4, <2>5, <2>6, <1>5, <1>13, <1>16, <1>17 DEF first, size, g
<1>18. CASE k # 1
  <2>1. ss[k] = C(k) /\ st[k] = first - 1 /\ k \in 1 .. K + 1
    BY <1>2, <1>8, <1>9, <1>14, <1>18 DEF EntriesAt, EntryStart, st, K
  <2>2. st[k] \in Nat \ {0}
    BY <2>1, <1>8, <1>11 DEF Layout
  <2>3. ASSUME NEW i \in 1 .. size PROVE g[first + i - 1] = C(k)[i]
    <3> DEFINE y == st[k] + i - 1
    <3>1. F[y] = C(k)[i]
      BY <2>1, <1>14, <1>15
    <3>2. y \in 1 .. Len(F) /\ y + 1 = first + i - 1
      <4>1. Len(g) = Len(F) + 1 /\ Len(F) \in Nat /\ st[k] = first - 1
            /\ first \in Nat \ {0} /\ size \in Nat
        BY <1>13, <1>14, <2>1
      <4>2. st[k] # 0
        BY <2>2
      <4> QED
        BY ONLY <4>1, <4>2, <1>16, i \in 1 .. size
    <3> HIDE DEF y
    <3>3. g[y + 1] = F[y]
      BY <1>13, <3>2
    <3> QED
      BY <3>1, <3>2, <3>3
  <2>4. Range(C(k)) = {C(k)[i] : i \in 1 .. size}
    <3>1. DOMAIN C(k) = 1 .. size
      BY <1>3, <1>14
    <3> QED
      BY <3>1 DEF Range
  <2>5. {g[i] : i \in first .. first + size - 1} = {g[first + i - 1] : i \in 1 .. size}
    <3>1. \A i \in first .. first + size - 1 :
            i - first + 1 \in 1 .. size /\ first + (i - first + 1) - 1 = i
      BY <1>14
    <3>2. \A i \in 1 .. size : first + i - 1 \in first .. first + size - 1
      BY <1>14
    <3> QED
      BY <3>1, <3>2
  <2>6. {g[first + i - 1] : i \in 1 .. size} = {C(k)[i] : i \in 1 .. size}
    BY <2>3
  <2> QED
    BY <2>4, <2>5, <2>6, <1>16 DEF first, size, g
<1> QED
  BY <1>17, <1>18

(* INODE and INOBR, computed apart, agree in all behaviours as long as the *)
(* first branch has the first node at its lower end.                       *)
THEOREM InobrStaysIndexed == Spec => []InobrIndexed
<1>1. NInv => InobrIndexed
  <2> SUFFICES ASSUME NetSound(net) PROVE InobrIndexed
    BY DEF NInv
  <2> QED
    BY InobrLaidOut DEF InobrIndexed
<1> QED
  BY <1>1, SpecNInv, PTL
=============================================================================
