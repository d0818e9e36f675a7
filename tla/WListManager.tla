--------------------------- MODULE WListManager ---------------------------
(***************************************************************************)
(* The well lists of a run.  A membership is stored twice: with the list,  *)
(* which is what the keywords read, and with the well, as the names and    *)
(* the number of its lists, which is what the restart file is written      *)
(* from.  delWListWell reduces the number but leaves the name, until the   *)
(* number is zero and all names of the well are cleared; the operations    *)
(* therefore keep the two in step only for some histories.                 *)
(*                                                                         *)
(* The order of the wells on a list is not modelled, nor the blank name    *)
(* that a restart leaves in the place of a well that is missing from the   *)
(* file.                                                                   *)
(***************************************************************************)
EXTENDS Naturals, FiniteSets

CONSTANTS
  Lists, Wells,
  RestartAnytime    \* may the run be restarted while names and lists differ?

ASSUME WListConstants == IsFiniteSet(Lists) /\ RestartAnytime \in BOOLEAN

VARIABLES
  wlists,            \* the wells of every existing list
  well_wlist_names,  \* the names of the lists of every well
  no_wlists_well,    \* the number of lists of every well
  well_lists_changed,\* what the last keyword reported
  leftOne            \* history: wells taken off one list while they stayed on another

vars == <<wlists, well_wlist_names, no_wlists_well, well_lists_changed, leftOne>>

TypeOK ==
  /\ DOMAIN wlists \subseteq Lists
  /\ \A l \in DOMAIN wlists : wlists[l] \subseteq Wells
  /\ well_wlist_names \in [Wells -> SUBSET DOMAIN wlists]
  /\ no_wlists_well \in [Wells -> Nat]
  /\ well_lists_changed \in BOOLEAN
  /\ leftOne \subseteq Wells

Init ==
  /\ wlists = [l \in {} |-> {}]
  /\ well_wlist_names = [w \in Wells |-> {}]
  /\ no_wlists_well = [w \in Wells |-> 0]
  /\ well_lists_changed = FALSE
  /\ leftOne = {}

ListsOf(w) == {l \in DOMAIN wlists : w \in wlists[l]}

-----------------------------------------------------------------------------
(***************************************************************************)
(* The mirror by well, for the wells handed to an operation.               *)
(***************************************************************************)
(* addWListWell *)
AddNames(ws, l) ==
  [w \in Wells |-> IF w \in ws THEN well_wlist_names[w] \cup {l} ELSE well_wlist_names[w]]

AddCounts(ws, l) ==
  [w \in Wells |-> IF w \in ws /\ l \notin well_wlist_names[w]
                   THEN no_wlists_well[w] + 1 ELSE no_wlists_well[w]]

(* delWListWell *)
(* Variant with a fault: wells that are also on another list go unnoticed. *)
ListedOnce(ws, l) == {w \in ws : well_wlist_names[w] = {l}}

Listed(ws, l) == {w \in ws : l \in well_wlist_names[w]}

(* Variants with a fault: the names are not cleared, and they are cleared  *)
(* with one list to go.                                                    *)
DelNamesKept(ws, l) == well_wlist_names

DelNamesEarly(ws, l) ==
  [w \in Wells |-> IF w \in Listed(ws, l) /\ no_wlists_well[w] <= 2 THEN {} ELSE well_wlist_names[w]]

DelNames(ws, l) ==
  [w \in Wells |-> IF w \in Listed(ws, l) /\ no_wlists_well[w] = 1 THEN {} ELSE well_wlist_names[w]]

DelCounts(ws, l) ==
  [w \in Wells |-> IF w \in Listed(ws, l) THEN no_wlists_well[w] - 1 ELSE no_wlists_well[w]]

LeftOneOf(ws, l) == {w \in ws : w \in wlists[l] /\ ListsOf(w) # {l}}

With(f, x, value) == [y \in DOMAIN f \cup {x} |-> IF y = x THEN value ELSE f[y]]

-----------------------------------------------------------------------------
(***************************************************************************)
(* The operations of WLIST                                                 *)
(***************************************************************************)
(* A list that does not exist yet: createNewWList. *)
newListCreate(l, ws) ==
  /\ l \notin DOMAIN wlists
  /\ wlists' = With(wlists, l, ws)
  /\ well_wlist_names' = AddNames(ws, l)
  /\ no_wlists_well' = AddCounts(ws, l)
  /\ well_lists_changed' = TRUE
  /\ UNCHANGED leftOne

(* A list that does: resetExistingWList, clearExistingWList.  The wells    *)
(* that go are deleted from it, those that come or stay are added.         *)
newListReset(l, ws) ==
  /\ l \in DOMAIN wlists
  /\ LET gone == wlists[l] \ ws
     IN /\ well_wlist_names' = [w \in Wells |-> IF w \in gone THEN DelNames(gone, l)[w] ELSE AddNames(ws, l)[w]]
        /\ no_wlists_well' = [w \in Wells |-> IF w \in gone THEN DelCounts(gone, l)[w] ELSE AddCounts(ws, l)[w]]
        /\ leftOne' = leftOne \cup LeftOneOf(gone, l)
  /\ wlists' = [wlists EXCEPT ![l] = ws]
  /\ well_lists_changed' = TRUE

addOrCreateWellList(l, ws) ==
  /\ wlists' = With(wlists, l, IF l \in DOMAIN wlists THEN wlists[l] \cup ws ELSE ws)
  /\ well_wlist_names' = AddNames(ws, l)
  /\ no_wlists_well' = AddCounts(ws, l)
  /\ well_lists_changed' = TRUE
  /\ UNCHANGED leftOne

(* Variant with a fault: a well is taken off the lists of its names only.  *)
moveNamed(l, ws) ==
  /\ wlists' = [k \in DOMAIN wlists \cup {l} |->
                  IF k \notin DOMAIN wlists THEN ws
                  ELSE IF k = l THEN wlists[k] \cup ws
                  ELSE {w \in wlists[k] : w \notin ws \/ k \notin well_wlist_names[w]}]
  /\ well_wlist_names' = [w \in Wells |-> IF w \in ws THEN {l} ELSE well_wlist_names[w]]
  /\ no_wlists_well' = [w \in Wells |-> IF w \in ws THEN 1 ELSE no_wlists_well[w]]
  /\ well_lists_changed' = TRUE
  /\ leftOne' = leftOne \ ws

(* MOV: delWell takes the wells off all lists; it erases a name for every  *)
(* list it finds and clears the names when the number is zero.             *)
move(l, ws) ==
  LET found(w) == Cardinality(well_wlist_names[w] \cap DOMAIN wlists)
      cleared(w) == found(w) >= no_wlists_well[w]
      names(w) == IF cleared(w) THEN {} ELSE well_wlist_names[w] \ DOMAIN wlists
      count(w) == IF cleared(w) THEN 0 ELSE no_wlists_well[w] - found(w)
  IN /\ wlists' = [k \in DOMAIN wlists \cup {l} |->
                     IF k \notin DOMAIN wlists THEN ws
                     ELSE IF k = l THEN wlists[k] \cup ws ELSE wlists[k] \ ws]
     /\ well_wlist_names' =
          [w \in Wells |-> IF w \in ws THEN names(w) \cup {l} ELSE well_wlist_names[w]]
     /\ no_wlists_well' =
          [w \in Wells |-> IF w \in ws THEN count(w) + 1 ELSE no_wlists_well[w]]
     /\ well_lists_changed' = TRUE
     /\ leftOne' = leftOne \ ws

del(l, ws) ==
  /\ l \in DOMAIN wlists
  /\ wlists' = [wlists EXCEPT ![l] = @ \ ws]
  /\ well_wlist_names' = DelNames(ws, l)
  /\ no_wlists_well' = DelCounts(ws, l)
  /\ well_lists_changed' = (Listed(ws, l) # {})
  /\ leftOne' = leftOne \cup LeftOneOf(ws, l)

(***************************************************************************)
(* Writing ZWLS and IWLS and continuing from them: for every name of every *)
(* well its position on that list, if it is there; every list that has a   *)
(* well in the file is created anew.                                       *)
(***************************************************************************)
Saved(l) == {w \in wlists[l] : l \in well_wlist_names[w]}

restart ==
  /\ RestartAnytime \/ leftOne = {}
  /\ wlists' = [l \in {k \in DOMAIN wlists : Saved(k) # {}} |-> Saved(l)]
  /\ well_wlist_names' = [w \in Wells |-> {l \in DOMAIN wlists : w \in Saved(l)}]
  /\ no_wlists_well' = [w \in Wells |-> Cardinality({l \in DOMAIN wlists : w \in Saved(l)})]
  /\ well_lists_changed' = FALSE
  /\ leftOne' = {}

Next ==
  \/ \E l \in Lists, ws \in SUBSET Wells :
       \/ newListCreate(l, ws)
       \/ newListReset(l, ws)
       \/ addOrCreateWellList(l, ws)
       \/ move(l, ws)
       \/ del(l, ws)
  \/ restart

Spec == Init /\ [][Next]_vars

-----------------------------------------------------------------------------
(***************************************************************************)
(* Properties                                                              *)
(***************************************************************************)
(* The number of lists of a well never falls below zero, which for a       *)
(* size_t is a very large number: it is zero exactly when all names have   *)
(* been cleared, and never more than there are names.                      *)
CountsBacked ==
  \A w \in Wells : /\ no_wlists_well[w] = 0 <=> well_wlist_names[w] = {}
                   /\ no_wlists_well[w] <= Cardinality(well_wlist_names[w])

(* Names and number of a well say what the lists say, as long as the well  *)
(* has not been taken off one list by DEL or NEW while it stayed on        *)
(* another, and again after MOV has put it on one list only.               *)
MirrorExact ==
  \A w \in Wells \ leftOne : /\ well_wlist_names[w] = ListsOf(w)
                             /\ no_wlists_well[w] = Cardinality(ListsOf(w))

(* A list does not lose or gain a well without being reported as changed,  *)
(* which is how the conditions that name the list come to be evaluated     *)
(* anew: for wells that never left one of several lists.                   *)
ChangesReported ==
  [][leftOne = {} /\ ~well_lists_changed' => \A w \in Wells : ListsOf(w)' = ListsOf(w)]_vars

(* The stored lists are the sets that WLIST promises, restarts included.   *)
Promise == INSTANCE WellLists WITH
  members <- [l \in Lists |-> IF l \in DOMAIN wlists THEN wlists[l] ELSE {}]

ImplementsPromise == Promise!Spec

(* The restart file carries every list.                                    *)
SurviveRestart ==
  \A l \in DOMAIN wlists : Saved(l) = wlists[l]
=============================================================================
