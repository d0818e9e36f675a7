------------------------- MODULE WListManagerProofs -------------------------
(***************************************************************************)
(* Proofs about the well lists, for all sets of lists and wells.           *)
(***************************************************************************)
EXTENDS WListManager, FiniteSetTheorems, TLAPS

Inv == TypeOK /\ CountsBacked /\ MirrorExact

-----------------------------------------------------------------------------
(***************************************************************************)
(* Names and number of one well                                            *)
(***************************************************************************)
Backed(names, n) ==
  /\ n \in Nat
  /\ n = 0 <=> names = {}
  /\ n <= Cardinality(names)

(* Adding a name, and the number with it if the name is new.               *)
LEMMA NameAdded ==
  ASSUME NEW names, IsFiniteSet(names), NEW n, Backed(names, n), NEW l
  PROVE  Backed(names \cup {l}, IF l \notin names THEN n + 1 ELSE n)
<1>1. Cardinality(names \cup {l}) = IF l \in names THEN Cardinality(names) ELSE Cardinality(names) + 1
  BY FS_AddElement
<1>2. Cardinality(names) \in Nat
  BY FS_CardinalityType
<1>3. CASE l \in names
  <2>1. names \cup {l} = names
    BY <1>3
  <2> QED
    BY <1>3, <2>1 DEF Backed
<1>4. CASE l \notin names
  BY <1>1, <1>2, <1>4 DEF Backed
<1> QED
  BY <1>3, <1>4

(* Reducing the number, and clearing the names with the last.              *)
LEMMA NameDeleted ==
  ASSUME NEW names, NEW n, Backed(names, n), Cardinality(names) \in Nat, NEW l \in names
  PROVE  Backed(IF n = 1 THEN {} ELSE names, n - 1)
<1>1. n # 0
  BY DEF Backed
<1>2. CASE n = 1
  BY <1>2, FS_EmptySet DEF Backed
<1>3. CASE n # 1
  BY <1>1, <1>3 DEF Backed
<1> QED
  BY <1>2, <1>3

(* A single name.                                                          *)
LEMMA SingleName ==
  ASSUME NEW l
  PROVE  Cardinality({l}) = 1 /\ Backed({l}, 1)
<1>1. Cardinality({l}) = 1
  BY FS_Singleton
<1> QED
  BY <1>1 DEF Backed

(* The names of a well are finite in number.                               *)
LEMMA NamesFinite ==
  ASSUME TypeOK, NEW w \in Wells
  PROVE  /\ IsFiniteSet(DOMAIN wlists)
         /\ IsFiniteSet(well_wlist_names[w])
         /\ Cardinality(well_wlist_names[w]) \in Nat
         /\ IsFiniteSet(ListsOf(w))
         /\ well_wlist_names[w] \subseteq DOMAIN wlists
<1>1. IsFiniteSet(DOMAIN wlists)
  BY FS_Subset, WListConstants DEF TypeOK
<1>2. well_wlist_names[w] \subseteq DOMAIN wlists
  BY DEF TypeOK
<1>3. ListsOf(w) \subseteq DOMAIN wlists
  BY DEF ListsOf
<1>4. IsFiniteSet(well_wlist_names[w]) /\ IsFiniteSet(ListsOf(w))
  BY <1>1, <1>2, <1>3, FS_Subset
<1> QED
  BY <1>1, <1>2, <1>4, FS_CardinalityType

(* CountsBacked, well by well.                                             *)
LEMMA CountsBackedByWell ==
  ASSUME TypeOK
  PROVE  CountsBacked <=> \A w \in Wells : Backed(well_wlist_names[w], no_wlists_well[w])
BY DEF TypeOK, CountsBacked, Backed

(* What addWListWell does to names and number.                             *)
LEMMA AddBacked ==
  ASSUME TypeOK, CountsBacked, NEW ws \in SUBSET Wells, NEW l, NEW w \in Wells
  PROVE  Backed(AddNames(ws, l)[w], AddCounts(ws, l)[w])
<1>1. Backed(well_wlist_names[w], no_wlists_well[w])
  BY CountsBackedByWell
<1>2. CASE w \in ws
  <2>1. AddNames(ws, l)[w] = well_wlist_names[w] \cup {l}
    BY <1>2 DEF AddNames
  <2>2. AddCounts(ws, l)[w] = IF l \notin well_wlist_names[w] THEN no_wlists_well[w] + 1 ELSE no_wlists_well[w]
    BY <1>2 DEF AddCounts
  <2> QED
    BY <1>1, <2>1, <2>2, NamesFinite, NameAdded
<1>3. CASE w \notin ws
  BY <1>1, <1>3 DEF AddNames, AddCounts
<1> QED
  BY <1>2, <1>3

(* What delWListWell does to them.                                         *)
LEMMA DelBacked ==
  ASSUME TypeOK, CountsBacked, NEW ws \in SUBSET Wells, NEW l, NEW w \in Wells
  PROVE  /\ Backed(DelNames(ws, l)[w], DelCounts(ws, l)[w])
         /\ DelNames(ws, l)[w] \subseteq well_wlist_names[w]
<1>1. Backed(well_wlist_names[w], no_wlists_well[w])
  BY CountsBackedByWell
<1>2. CASE w \in Listed(ws, l)
  <2>1. DelNames(ws, l)[w] = IF no_wlists_well[w] = 1 THEN {} ELSE well_wlist_names[w]
    BY <1>2 DEF DelNames
  <2>2. DelCounts(ws, l)[w] = no_wlists_well[w] - 1
    BY <1>2 DEF DelCounts
  <2>3. l \in well_wlist_names[w]
    BY <1>2 DEF Listed
  <2>4. Backed(IF no_wlists_well[w] = 1 THEN {} ELSE well_wlist_names[w], no_wlists_well[w] - 1)
    BY <1>1, <2>3, NamesFinite, NameDeleted
  <2> QED
    BY <2>1, <2>2, <2>4
<1>3. CASE w \notin Listed(ws, l)
  BY <1>1, <1>3 DEF DelNames, DelCounts
<1> QED
  BY <1>2, <1>3

-----------------------------------------------------------------------------
(***************************************************************************)
(* The operations                                                          *)
(***************************************************************************)
(* A move leaves a well on one list, with one name and the number one.     *)
LEMMA MoveEffect ==
  ASSUME TypeOK, CountsBacked, NEW l \in Lists, NEW ws \in SUBSET Wells, move(l, ws), NEW w \in Wells
  PROVE  /\ well_wlist_names'[w] = IF w \in ws THEN {l} ELSE well_wlist_names[w]
         /\ no_wlists_well'[w] = IF w \in ws THEN 1 ELSE no_wlists_well[w]
<1> DEFINE found == Cardinality(well_wlist_names[w] \cap DOMAIN wlists)
<1>1. well_wlist_names[w] \cap DOMAIN wlists = well_wlist_names[w]
  BY NamesFinite
<1>2. found \in Nat /\ found >= no_wlists_well[w] /\ no_wlists_well[w] \in Nat
  BY <1>1, NamesFinite DEF CountsBacked, TypeOK
<1>3. well_wlist_names'[w] = IF w \in ws
        THEN (IF found >= no_wlists_well[w] THEN {} ELSE well_wlist_names[w] \ DOMAIN wlists) \cup {l}
        ELSE well_wlist_names[w]
  BY DEF move
<1>4. no_wlists_well'[w] = IF w \in ws
        THEN (IF found >= no_wlists_well[w] THEN 0 ELSE no_wlists_well[w] - found) + 1
        ELSE no_wlists_well[w]
  BY DEF move
<1>5. found >= no_wlists_well[w]
  BY <1>2
<1>6. (IF found >= no_wlists_well[w] THEN {} ELSE well_wlist_names[w] \ DOMAIN wlists) \cup {l} = {l}
  BY <1>5
<1>7. (IF found >= no_wlists_well[w] THEN 0 ELSE no_wlists_well[w] - found) + 1 = 1
  BY <1>5
<1> QED
  BY <1>3, <1>4, <1>6, <1>7

(* A new list has no names yet.                                            *)
LEMMA CreateInv ==
  ASSUME Inv, NEW l \in Lists, NEW ws \in SUBSET Wells, newListCreate(l, ws)
  PROVE  Inv'
<1>1. \A w \in Wells : Backed(well_wlist_names'[w], no_wlists_well'[w])
  BY AddBacked DEF Inv, newListCreate
<1>2. DOMAIN wlists' = DOMAIN wlists \cup {l}
  BY DEF newListCreate, With
<1>3. TypeOK'
  <2>1. well_wlist_names' \in [Wells -> SUBSET DOMAIN wlists']
    BY <1>2 DEF Inv, TypeOK, newListCreate, AddNames
  <2>2. no_wlists_well' \in [Wells -> Nat]
    BY <1>1 DEF Backed, newListCreate, AddCounts
  <2>3. \A k \in DOMAIN wlists' : wlists'[k] \subseteq Wells
    BY <1>2 DEF Inv, TypeOK, newListCreate, With
  <2> QED
    BY <1>2, <2>1, <2>2, <2>3 DEF Inv, TypeOK, newListCreate
<1>4. CountsBacked'
  BY <1>1 DEF CountsBacked, Backed
<1>5. MirrorExact'
  <2> SUFFICES ASSUME NEW w \in Wells, w \notin leftOne'
               PROVE  well_wlist_names'[w] = ListsOf(w)' /\ no_wlists_well'[w] = Cardinality(ListsOf(w)')
    BY DEF MirrorExact
  <2>1. well_wlist_names[w] = ListsOf(w) /\ no_wlists_well[w] = Cardinality(ListsOf(w))
    BY DEF Inv, MirrorExact, newListCreate
  <2>2. ListsOf(w)' = IF w \in ws THEN ListsOf(w) \cup {l} ELSE ListsOf(w)
    BY <1>2 DEF ListsOf, newListCreate, With
  <2>3. l \notin ListsOf(w)
    BY DEF ListsOf, newListCreate
  <2>4. IsFiniteSet(ListsOf(w))
    BY NamesFinite DEF Inv
  <2>5. Cardinality(ListsOf(w) \cup {l}) = Cardinality(ListsOf(w)) + 1
    BY <2>3, <2>4, FS_AddElement
  <2>6. /\ well_wlist_names'[w] = IF w \in ws THEN well_wlist_names[w] \cup {l} ELSE well_wlist_names[w]
        /\ no_wlists_well'[w] = IF w \in ws /\ l \notin well_wlist_names[w] THEN no_wlists_well[w] + 1
                                ELSE no_wlists_well[w]
    BY DEF newListCreate, AddNames, AddCounts
  <2> QED
    BY <2>1, <2>2, <2>3, <2>5, <2>6
<1> QED
  BY <1>3, <1>4, <1>5 DEF Inv

(* NEW of a list that exists.                                              *)
LEMMA ResetInv ==
  ASSUME Inv, NEW l \in Lists, NEW ws \in SUBSET Wells, newListReset(l, ws)
  PROVE  Inv'
<1> DEFINE gone == wlists[l] \ ws
<1>1. l \in DOMAIN wlists /\ gone \in SUBSET Wells
  BY DEF Inv, TypeOK, newListReset
<1>2. /\ DOMAIN wlists' = DOMAIN wlists
      /\ wlists' = [wlists EXCEPT ![l] = ws]
      /\ leftOne' = leftOne \cup LeftOneOf(gone, l)
      /\ well_lists_changed' \in BOOLEAN
  BY DEF newListReset
<1>3. \A w \in Wells :
        /\ well_wlist_names'[w] = IF w \in gone THEN DelNames(gone, l)[w] ELSE AddNames(ws, l)[w]
        /\ no_wlists_well'[w] = IF w \in gone THEN DelCounts(gone, l)[w] ELSE AddCounts(ws, l)[w]
  BY DEF newListReset
<1>4. DOMAIN well_wlist_names' = Wells /\ DOMAIN no_wlists_well' = Wells
  BY DEF newListReset
<1>5. \A w \in Wells : Backed(well_wlist_names'[w], no_wlists_well'[w])
  BY <1>1, <1>3, AddBacked, DelBacked DEF Inv
<1>6. TypeOK'
  <2>1. well_wlist_names' \in [Wells -> SUBSET DOMAIN wlists']
    <3>1. \A w \in Wells : well_wlist_names'[w] \subseteq DOMAIN wlists
      <4> SUFFICES ASSUME NEW w \in Wells PROVE well_wlist_names'[w] \subseteq DOMAIN wlists
        OBVIOUS
      <4>1. DelNames(gone, l)[w] \subseteq DOMAIN wlists
        BY <1>1, DelBacked DEF Inv, TypeOK
      <4>2. AddNames(ws, l)[w] \subseteq DOMAIN wlists
        BY <1>1 DEF AddNames, Inv, TypeOK
      <4> QED
        BY <1>3, <4>1, <4>2
    <3>2. well_wlist_names' = [w \in Wells |-> well_wlist_names'[w]]
      BY DEF newListReset
    <3> QED
      BY <1>2, <3>1, <3>2
  <2>2. no_wlists_well' \in [Wells -> Nat]
    <3>1. no_wlists_well' = [w \in Wells |-> no_wlists_well'[w]]
      BY DEF newListReset
    <3> QED
      BY <1>5, <3>1 DEF Backed
  <2>3. \A k \in DOMAIN wlists' : wlists'[k] \subseteq Wells
    BY <1>2 DEF Inv, TypeOK
  <2>4. leftOne' \subseteq Wells
    BY <1>1, <1>2 DEF LeftOneOf, Inv, TypeOK
  <2> QED
    BY <1>2, <2>1, <2>2, <2>3, <2>4 DEF Inv, TypeOK
<1>7. CountsBacked'
  BY <1>5 DEF CountsBacked, Backed
<1>8. MirrorExact'
  <2> SUFFICES ASSUME NEW w \in Wells, w \notin leftOne'
               PROVE  well_wlist_names'[w] = ListsOf(w)' /\ no_wlists_well'[w] = Cardinality(ListsOf(w)')
    BY DEF MirrorExact
  <2>1. well_wlist_names[w] = ListsOf(w) /\ no_wlists_well[w] = Cardinality(ListsOf(w))
    BY <1>2 DEF Inv, MirrorExact
  <2>2. ListsOf(w)' = IF w \in ws THEN ListsOf(w) \cup {l} ELSE ListsOf(w) \ {l}
    BY <1>1, <1>2 DEF ListsOf, Inv, TypeOK
  <2>3. CASE w \in gone
    <3>1. ListsOf(w) = {l}
      BY <1>1, <1>2, <2>3 DEF LeftOneOf
    <3>2. well_wlist_names[w] = {l} /\ no_wlists_well[w] = 1
      BY <2>1, <3>1, SingleName
    <3>3. w \in Listed(gone, l)
      BY <2>3, <3>2 DEF Listed
    <3>4. well_wlist_names'[w] = {} /\ no_wlists_well'[w] = 0
      BY <1>3, <2>3, <3>2, <3>3 DEF DelNames, DelCounts
    <3>5. ListsOf(w)' = {}
      BY <2>2, <2>3, <3>1
    <3> QED
      BY <3>4, <3>5, FS_EmptySet
  <2>4. CASE w \notin gone
    <3>1. /\ well_wlist_names'[w] = IF w \in ws THEN well_wlist_names[w] \cup {l} ELSE well_wlist_names[w]
          /\ no_wlists_well'[w] = IF w \in ws /\ l \notin well_wlist_names[w] THEN no_wlists_well[w] + 1
                                  ELSE no_wlists_well[w]
      BY <1>3, <2>4 DEF AddNames, AddCounts
    <3>2. IsFiniteSet(ListsOf(w))
      BY NamesFinite DEF Inv
    <3>3. Cardinality(ListsOf(w) \cup {l}) =
            IF l \in ListsOf(w) THEN Cardinality(ListsOf(w)) ELSE Cardinality(ListsOf(w)) + 1
      BY <3>2, FS_AddElement
    <3>4. w \notin ws => l \notin ListsOf(w)
      BY <2>4 DEF ListsOf
    <3>5. w \notin ws => ListsOf(w)' = ListsOf(w)
      BY <2>2, <3>4
    <3> QED
      BY <2>1, <2>2, <3>1, <3>3, <3>5
  <2> QED
    BY <2>3, <2>4
<1> QED
  BY <1>6, <1>7, <1>8 DEF Inv

(* ADD, for lists that exist and lists that do not.                        *)
LEMMA AddInv ==
  ASSUME Inv, NEW l \in Lists, NEW ws \in SUBSET Wells, addOrCreateWellList(l, ws)
  PROVE  Inv'
<1>1. \A w \in Wells : Backed(well_wlist_names'[w], no_wlists_well'[w])
  BY AddBacked DEF Inv, addOrCreateWellList
<1>2. DOMAIN wlists' = DOMAIN wlists \cup {l}
  BY DEF addOrCreateWellList, With
<1>3. \A k \in DOMAIN wlists' :
        wlists'[k] = IF k # l THEN wlists[k]
                     ELSE IF l \in DOMAIN wlists THEN wlists[l] \cup ws ELSE ws
  BY <1>2 DEF addOrCreateWellList, With
<1>4. TypeOK'
  <2>1. well_wlist_names' \in [Wells -> SUBSET DOMAIN wlists']
    BY <1>2 DEF Inv, TypeOK, addOrCreateWellList, AddNames
  <2>2. no_wlists_well' \in [Wells -> Nat]
    BY <1>1 DEF Backed, addOrCreateWellList, AddCounts
  <2>3. \A k \in DOMAIN wlists' : wlists'[k] \subseteq Wells
    BY <1>2, <1>3 DEF Inv, TypeOK
  <2> QED
    BY <1>2, <2>1, <2>2, <2>3 DEF Inv, TypeOK, addOrCreateWellList
<1>5. CountsBacked'
  BY <1>1 DEF CountsBacked, Backed
<1>6. MirrorExact'
  <2> SUFFICES ASSUME NEW w \in Wells, w \notin leftOne'
               PROVE  well_wlist_names'[w] = ListsOf(w)' /\ no_wlists_well'[w] = Cardinality(ListsOf(w)')
    BY DEF MirrorExact
  <2>1. well_wlist_names[w] = ListsOf(w) /\ no_wlists_well[w] = Cardinality(ListsOf(w))
    BY DEF Inv, MirrorExact, addOrCreateWellList
  <2>2. ListsOf(w)' = IF w \in ws THEN ListsOf(w) \cup {l} ELSE ListsOf(w)
    BY <1>2, <1>3 DEF ListsOf
  <2>3. IsFiniteSet(ListsOf(w))
    BY NamesFinite DEF Inv
  <2>4. Cardinality(ListsOf(w) \cup {l}) =
          IF l \in ListsOf(w) THEN Cardinality(ListsOf(w)) ELSE Cardinality(ListsOf(w)) + 1
    BY <2>3, FS_AddElement
  <2>5. /\ well_wlist_names'[w] = IF w \in ws THEN well_wlist_names[w] \cup {l} ELSE well_wlist_names[w]
        /\ no_wlists_well'[w] = IF w \in ws /\ l \notin well_wlist_names[w] THEN no_wlists_well[w] + 1
                                ELSE no_wlists_well[w]
    BY DEF addOrCreateWellList, AddNames, AddCounts
  <2> QED
    BY <2>1, <2>2, <2>4, <2>5
<1> QED
  BY <1>4, <1>5, <1>6 DEF Inv

(* MOV.                                                                    *)
LEMMA MoveInv ==
  ASSUME Inv, NEW l \in Lists, NEW ws \in SUBSET Wells, move(l, ws)
  PROVE  Inv'
<1>1. \A w \in Wells : /\ well_wlist_names'[w] = IF w \in ws THEN {l} ELSE well_wlist_names[w]
                       /\ no_wlists_well'[w] = IF w \in ws THEN 1 ELSE no_wlists_well[w]
  BY MoveEffect DEF Inv
<1>2. DOMAIN wlists' = DOMAIN wlists \cup {l}
  BY DEF move
<1>3. \A k \in DOMAIN wlists' :
        wlists'[k] = IF k \notin DOMAIN wlists THEN ws
                     ELSE IF k = l THEN wlists[k] \cup ws ELSE wlists[k] \ ws
  BY <1>2 DEF move
<1>4. \A w \in Wells : Backed(well_wlist_names'[w], no_wlists_well'[w])
  <2> TAKE w \in Wells
  <2>1. Backed(well_wlist_names[w], no_wlists_well[w])
    BY CountsBackedByWell DEF Inv
  <2> QED
    BY <1>1, <2>1, SingleName
<1>5. TypeOK'
  <2>1. /\ well_wlist_names' = [w \in Wells |-> well_wlist_names'[w]]
        /\ no_wlists_well' = [w \in Wells |-> no_wlists_well'[w]]
    BY DEF move
  <2>2. \A w \in Wells : well_wlist_names'[w] \subseteq DOMAIN wlists'
    BY <1>1, <1>2 DEF Inv, TypeOK
  <2>3. well_wlist_names' \in [Wells -> SUBSET DOMAIN wlists']
    BY <2>1, <2>2
  <2>4. no_wlists_well' \in [Wells -> Nat]
    BY <1>4, <2>1 DEF Backed
  <2>5. \A k \in DOMAIN wlists' : wlists'[k] \subseteq Wells
    BY <1>2, <1>3 DEF Inv, TypeOK
  <2>6. leftOne' \subseteq Wells /\ well_lists_changed' \in BOOLEAN
    BY DEF move, Inv, TypeOK
  <2> QED
    BY <1>2, <2>3, <2>4, <2>5, <2>6 DEF Inv, TypeOK
<1>6. CountsBacked'
  BY <1>4 DEF CountsBacked, Backed
<1>7. MirrorExact'
  <2> SUFFICES ASSUME NEW w \in Wells, w \notin leftOne'
               PROVE  well_wlist_names'[w] = ListsOf(w)' /\ no_wlists_well'[w] = Cardinality(ListsOf(w)')
    BY DEF MirrorExact
  <2>1. ListsOf(w)' = IF w \in ws THEN {l} ELSE ListsOf(w)
    BY <1>2, <1>3 DEF ListsOf
  <2>2. w \notin ws => well_wlist_names[w] = ListsOf(w) /\ no_wlists_well[w] = Cardinality(ListsOf(w))
    BY DEF Inv, MirrorExact, move
  <2> QED
    BY <1>1, <2>1, <2>2, SingleName
<1> QED
  BY <1>5, <1>6, <1>7 DEF Inv

(* DEL.                                                                    *)
LEMMA DelInv ==
  ASSUME Inv, NEW l \in Lists, NEW ws \in SUBSET Wells, del(l, ws)
  PROVE  Inv'
<1>1. \A w \in Wells : /\ Backed(well_wlist_names'[w], no_wlists_well'[w])
                       /\ well_wlist_names'[w] \subseteq well_wlist_names[w]
  BY DelBacked DEF Inv, del
<1>2. /\ l \in DOMAIN wlists
      /\ wlists' = [wlists EXCEPT ![l] = @ \ ws]
      /\ leftOne' = leftOne \cup LeftOneOf(ws, l)
  BY DEF del
<1>3. TypeOK'
  <2>1. /\ well_wlist_names' = [w \in Wells |-> well_wlist_names'[w]]
        /\ no_wlists_well' = [w \in Wells |-> no_wlists_well'[w]]
    BY DEF del, DelNames, DelCounts
  <2>2. \A w \in Wells : well_wlist_names'[w] \subseteq DOMAIN wlists'
    BY <1>1, <1>2 DEF Inv, TypeOK
  <2>3. well_wlist_names' \in [Wells -> SUBSET DOMAIN wlists']
    BY <2>1, <2>2
  <2>4. no_wlists_well' \in [Wells -> Nat]
    BY <1>1, <2>1 DEF Backed
  <2>5. DOMAIN wlists' \subseteq Lists /\ \A k \in DOMAIN wlists' : wlists'[k] \subseteq Wells
    BY <1>2 DEF Inv, TypeOK
  <2>6. leftOne' \subseteq Wells /\ well_lists_changed' \in BOOLEAN
    BY DEF del, LeftOneOf, Inv, TypeOK
  <2> QED
    BY <2>3, <2>4, <2>5, <2>6 DEF TypeOK
<1>4. CountsBacked'
  BY <1>1 DEF CountsBacked, Backed
<1>5. MirrorExact'
  <2> SUFFICES ASSUME NEW w \in Wells, w \notin leftOne'
               PROVE  well_wlist_names'[w] = ListsOf(w)' /\ no_wlists_well'[w] = Cardinality(ListsOf(w)')
    BY DEF MirrorExact
  <2>1. well_wlist_names[w] = ListsOf(w) /\ no_wlists_well[w] = Cardinality(ListsOf(w))
    BY <1>2 DEF Inv, MirrorExact
  <2>2. ListsOf(w)' = IF w \in ws THEN ListsOf(w) \ {l} ELSE ListsOf(w)
    BY <1>2 DEF ListsOf, Inv, TypeOK
  <2>3. /\ well_wlist_names'[w] = DelNames(ws, l)[w]
        /\ no_wlists_well'[w] = DelCounts(ws, l)[w]
    BY DEF del
  <2>4. CASE w \in Listed(ws, l)
    <3>1. w \in ws /\ w \in wlists[l]
      BY <2>1, <2>4 DEF Listed, ListsOf
    <3>2. ListsOf(w) = {l}
      BY <1>2, <3>1 DEF LeftOneOf
    <3>3. no_wlists_well[w] = 1
      BY <2>1, <3>2, SingleName
    <3>4. well_wlist_names'[w] = {} /\ no_wlists_well'[w] = 0
      BY <2>3, <2>4, <3>3 DEF DelNames, DelCounts
    <3>5. ListsOf(w)' = {}
      BY <2>2, <3>1, <3>2
    <3> QED
      BY <3>4, <3>5, FS_EmptySet
  <2>5. CASE w \notin Listed(ws, l)
    <3>1. ListsOf(w)' = ListsOf(w)
      BY <2>1, <2>2, <2>5 DEF Listed
    <3>2. well_wlist_names'[w] = well_wlist_names[w] /\ no_wlists_well'[w] = no_wlists_well[w]
      BY <2>3, <2>5 DEF DelNames, DelCounts
    <3> QED
      BY <2>1, <3>1, <3>2
  <2> QED
    BY <2>4, <2>5
<1> QED
  BY <1>3, <1>4, <1>5 DEF Inv

(* Continuing from a restart file sets everything anew.                    *)
LEMMA RestartInv ==
  ASSUME Inv, restart
  PROVE  Inv'
<1>1. DOMAIN wlists' = {k \in DOMAIN wlists : Saved(k) # {}}
  BY DEF restart
<1>2. \A k \in DOMAIN wlists' : wlists'[k] = Saved(k)
  BY <1>1 DEF restart
<1>3. \A w \in Wells : ListsOf(w)' = {k \in DOMAIN wlists : w \in Saved(k)}
  BY <1>1, <1>2 DEF ListsOf
<1>4. \A w \in Wells : /\ well_wlist_names'[w] = ListsOf(w)'
                       /\ no_wlists_well'[w] = Cardinality(ListsOf(w)')
                       /\ IsFiniteSet(ListsOf(w)')
  <2> TAKE w \in Wells
  <2>1. /\ well_wlist_names'[w] = {k \in DOMAIN wlists : w \in Saved(k)}
        /\ no_wlists_well'[w] = Cardinality({k \in DOMAIN wlists : w \in Saved(k)})
    BY DEF restart
  <2>2. IsFiniteSet({k \in DOMAIN wlists : w \in Saved(k)})
    BY NamesFinite, FS_Subset DEF Inv
  <2> QED
    BY <1>3, <2>1, <2>2
<1>5. \A w \in Wells : Backed(well_wlist_names'[w], no_wlists_well'[w])
  BY <1>4, FS_EmptySet, FS_CardinalityType DEF Backed
<1>6. TypeOK'
  <2>1. /\ well_wlist_names' = [w \in Wells |-> well_wlist_names'[w]]
        /\ no_wlists_well' = [w \in Wells |-> no_wlists_well'[w]]
    BY DEF restart
  <2>2. \A w \in Wells : well_wlist_names'[w] \subseteq DOMAIN wlists'
    BY <1>4 DEF ListsOf
  <2>3. well_wlist_names' \in [Wells -> SUBSET DOMAIN wlists']
    BY <2>1, <2>2
  <2>4. no_wlists_well' \in [Wells -> Nat]
    BY <1>5, <2>1 DEF Backed
  <2>5. DOMAIN wlists' \subseteq Lists /\ \A k \in DOMAIN wlists' : wlists'[k] \subseteq Wells
    BY <1>1, <1>2 DEF Inv, TypeOK, Saved
  <2> QED
    BY <2>3, <2>4, <2>5 DEF TypeOK, restart
<1>7. CountsBacked'
  BY <1>5 DEF CountsBacked, Backed
<1>8. MirrorExact'
  BY <1>4 DEF MirrorExact
<1> QED
  BY <1>6, <1>7, <1>8 DEF Inv

-----------------------------------------------------------------------------
(***************************************************************************)
(* The specification                                                       *)
(***************************************************************************)
LEMMA InitInv ==
  ASSUME Init
  PROVE  Inv
<1>1. TypeOK
  BY DEF Init, TypeOK
<1>2. CountsBacked
  BY FS_EmptySet DEF Init, CountsBacked
<1>3. MirrorExact
  <2>1. \A w \in Wells : ListsOf(w) = {}
    BY DEF Init, ListsOf
  <2> QED
    BY <2>1, FS_EmptySet DEF Init, MirrorExact
<1> QED
  BY <1>1, <1>2, <1>3 DEF Inv

(* Every step keeps the invariant. *)
LEMMA NextInv ==
  ASSUME Inv, [Next]_vars
  PROVE  Inv'
<1>1. CASE UNCHANGED vars
  BY <1>1 DEF vars, Inv, TypeOK, CountsBacked, MirrorExact, ListsOf
<1>2. CASE restart
  BY <1>2, RestartInv
<1>3. CASE \E l \in Lists, ws \in SUBSET Wells :
             \/ newListCreate(l, ws)
             \/ newListReset(l, ws)
             \/ addOrCreateWellList(l, ws)
             \/ move(l, ws)
             \/ del(l, ws)
  BY <1>3, CreateInv, ResetInv, AddInv, MoveInv, DelInv
<1> QED
  BY <1>1, <1>2, <1>3 DEF Next

(* The invariant of the specification.                                     *)
THEOREM InvHolds == Spec => []Inv
<1>1. Init => Inv
  BY InitInv
<1>2. Inv /\ [Next]_vars => Inv'
  BY NextInv
<1> QED
  BY <1>1, <1>2, PTL DEF Spec

(* The names of a well are those of existing lists, whatever the sequence  *)
(* of WLIST operations and restarts: writing the restart file does not     *)
(* find the name of a list that is gone.                                   *)
THEOREM TypeCorrect == Spec => []TypeOK
<1>1. Inv => TypeOK
  BY DEF Inv
<1> QED
  BY <1>1, InvHolds, PTL

(* The number of lists of a well never falls below zero: delWListWell and  *)
(* delWell only reduce a number that is at least one.                      *)
THEOREM CountsStayBacked == Spec => []CountsBacked
<1>1. Inv => CountsBacked
  BY DEF Inv
<1> QED
  BY <1>1, InvHolds, PTL

(* Names and number of a well agree with the lists unless the well left    *)
(* one of several lists by DEL or NEW.                                     *)
THEOREM MirrorStaysExact == Spec => []MirrorExact
<1>1. Inv => MirrorExact
  BY DEF Inv
<1> QED
  BY <1>1, InvHolds, PTL

-----------------------------------------------------------------------------
(***************************************************************************)
(* What the keywords read                                                  *)
(***************************************************************************)
(* As long as no well has left one of several lists, the file carries      *)
(* every list.                                                             *)
LEMMA AllSaved ==
  ASSUME Inv, leftOne = {}, NEW l \in DOMAIN wlists
  PROVE  Saved(l) = wlists[l]
<1>1. \A w \in wlists[l] : w \in Wells /\ well_wlist_names[w] = ListsOf(w) /\ l \in ListsOf(w)
  BY DEF Inv, TypeOK, MirrorExact, ListsOf
<1> QED
  BY <1>1 DEF Saved

(* A restart then loses empty lists only.                                  *)
LEMMA RestartKeepsLists ==
  ASSUME Inv, leftOne = {}, restart
  PROVE  /\ DOMAIN wlists' = {k \in DOMAIN wlists : wlists[k] # {}}
         /\ \A k \in DOMAIN wlists' : wlists'[k] = wlists[k]
<1>1. DOMAIN wlists' = {k \in DOMAIN wlists : Saved(k) # {}}
  BY DEF restart
<1>2. \A k \in DOMAIN wlists' : wlists'[k] = Saved(k)
  BY <1>1 DEF restart
<1> QED
  BY <1>1, <1>2, AllSaved

(* A list that gains or loses a well is reported as changed, by every      *)
(* operation and for all wells, if none has left one of several lists.     *)
THEOREM ChangesAreReported == Spec => ChangesReported
<1>1. ASSUME Inv, [Next]_vars, leftOne = {}, ~well_lists_changed', NEW w \in Wells
      PROVE  ListsOf(w)' = ListsOf(w)
  <2>1. CASE UNCHANGED vars
    BY <2>1 DEF vars, ListsOf
  <2>2. CASE restart
    BY <1>1, <2>2, RestartKeepsLists DEF ListsOf
  <2>3. ASSUME NEW l \in Lists, NEW ws \in SUBSET Wells, del(l, ws)
        PROVE  ListsOf(w)' = ListsOf(w)
    <3>1. Listed(ws, l) = {}
      BY <1>1, <2>3 DEF del
    <3>2. \A v \in ws : v \notin wlists[l]
      BY <1>1, <2>3, <3>1 DEF Listed, Inv, MirrorExact, ListsOf, del
    <3>3. DOMAIN wlists' = DOMAIN wlists
      BY <2>3 DEF del
    <3>4. \A k \in DOMAIN wlists : wlists'[k] = wlists[k]
      <4>1. wlists[l] \ ws = wlists[l]
        BY <3>2
      <4>2. \A k \in DOMAIN wlists : wlists'[k] = IF k = l THEN wlists[l] \ ws ELSE wlists[k]
        BY <2>3 DEF del
      <4> QED
        BY <4>1, <4>2
    <3> QED
      BY <3>3, <3>4 DEF ListsOf
  <2>4. ASSUME NEW l \in Lists, NEW ws \in SUBSET Wells,
               \/ newListCreate(l, ws)
               \/ newListReset(l, ws)
               \/ addOrCreateWellList(l, ws)
               \/ move(l, ws)
        PROVE  FALSE
    BY <1>1, <2>4 DEF newListCreate, newListReset, addOrCreateWellList, move
  <2> QED
    BY <1>1, <2>1, <2>2, <2>3, <2>4 DEF Next
<1>2. Inv /\ [Next]_vars
        => [leftOne = {} /\ ~well_lists_changed' => \A w \in Wells : ListsOf(w)' = ListsOf(w)]_vars
  BY <1>1
<1> QED
  BY <1>2, InvHolds, PTL DEF Spec, ChangesReported

-----------------------------------------------------------------------------
(***************************************************************************)
(* The lists are the sets that WLIST promises                              *)
(***************************************************************************)
members == [l \in Lists |-> IF l \in DOMAIN wlists THEN wlists[l] ELSE {}]

(* Each operation is the one of the promise, and a restart changes nothing *)
(* when it is taken in a state in which the file carries every list.       *)
THEOREM ImplementsLists ==
  ASSUME ~RestartAnytime
  PROVE  Spec => ImplementsPromise
<1>1. Init => Promise!Init
  BY DEF Init, Promise!Init
<1>2. ASSUME Inv, [Next]_vars
      PROVE  [Promise!Next]_members
  <2>1. CASE UNCHANGED vars
    BY <2>1 DEF vars, members
  <2>2. CASE restart
    <3>1. leftOne = {}
      BY <2>2 DEF restart
    <3>2. members' = members
      BY <1>2, <2>2, <3>1, RestartKeepsLists DEF members
    <3> QED
      BY <3>2
  <2>3. ASSUME NEW l \in Lists, NEW ws \in SUBSET Wells, newListCreate(l, ws)
        PROVE  Promise!New(l, ws)
    BY <2>3 DEF newListCreate, With, Promise!New
  <2>4. ASSUME NEW l \in Lists, NEW ws \in SUBSET Wells, newListReset(l, ws)
        PROVE  Promise!New(l, ws)
    BY <2>4 DEF newListReset, Promise!New
  <2>5. ASSUME NEW l \in Lists, NEW ws \in SUBSET Wells, addOrCreateWellList(l, ws)
        PROVE  Promise!Add(l, ws)
    BY <2>5 DEF addOrCreateWellList, With, Promise!Add
  <2>6. ASSUME NEW l \in Lists, NEW ws \in SUBSET Wells, move(l, ws)
        PROVE  Promise!Mov(l, ws)
    BY <2>6 DEF move, Promise!Mov
  <2>7. ASSUME NEW l \in Lists, NEW ws \in SUBSET Wells, del(l, ws)
        PROVE  Promise!Del(l, ws)
    BY <2>7 DEF del, Promise!Del
  <2> QED
    BY <1>2, <2>1, <2>2, <2>3, <2>4, <2>5, <2>6, <2>7 DEF Next, Promise!Next
<1>3. Inv /\ [Next]_vars => [Promise!Next]_members
  BY <1>2
<1> QED
  BY <1>1, <1>3, InvHolds, PTL DEF Spec, ImplementsPromise, Promise!Spec, members

=============================================================================
