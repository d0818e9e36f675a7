--------------------------- MODULE WellConnections ---------------------------
(***************************************************************************)
(* Class WellConnections and its part of class Well: the connections of    *)
(* one well as a sequence, and what the keywords, the scaling to a well    *)
(* productivity index (WELPI) and a growing fracture do to it.             *)
(*                                                                         *)
(* A cell is named by its depth.  Connection factors and multipliers are   *)
(* powers of two and represented by their exponents: a multiplication is   *)
(* an addition.                                                            *)
(***************************************************************************)
EXTENDS Integers, Sequences, FiniteSets, SequencesExt, FiniteSetsExt

CONSTANT Cells

ASSUME CellsAssumption == Cells \subseteq Nat

Orderings == {"INPUT", "DEPTH"}
States    == {"OPEN", "SHUT"}

Connection == [cell : Cells, complnum : Nat \ {0}, state : States, CF : Int,
               subject_to_welpi : BOOLEAN]

NewConnection(cell, complnum, state, CF) ==
  [cell |-> cell, complnum |-> complnum, state |-> state, CF |-> CF, subject_to_welpi |-> FALSE]

(* In the place of connection i. *)
Replaced(conns, i, c) == SubSeq(conns, 1, i - 1) \o <<c>> \o SubSeq(conns, i + 1, Len(conns))

(* Where the connection to a cell is, 0 if there is none. *)
Position(conns, cell) == SelectInSeq(conns, LAMBDA c : c.cell = cell)

(* By depth: a connection comes after those that lie above it. *)
rank(conns, i) == Cardinality({j \in DOMAIN conns : conns[j].cell <= conns[i].cell})

order(conns, ordering) ==
  IF ordering = "DEPTH"
  THEN [k \in DOMAIN conns |-> conns[CHOOSE i \in DOMAIN conns : rank(conns, i) = k]]
  ELSE conns

allConnectionsShut(conns) ==
  conns # << >> /\ \A i \in DOMAIN conns : conns[i].state = "SHUT"

addConnection(conns, cell, state, CF) ==
  Append(conns, NewConnection(cell, Len(conns) + 1, state, CF))

-----------------------------------------------------------------------------
(* Variant with a fault: existing connections are not looked for. *)
loadCOMPDATAppended(conns, rec) == addConnection(conns, rec.cell, rec.state, rec.CF)

(* COMPDAT: an existing connection keeps its completion number and its     *)
(* place, and is otherwise a new one.                                      *)
loadCOMPDAT(conns, rec) ==
  LET i == Position(conns, rec.cell)
  IN IF i = 0 THEN addConnection(conns, rec.cell, rec.state, rec.CF)
     ELSE Replaced(conns, i, NewConnection(rec.cell, conns[i].complnum, rec.state, rec.CF))

(* The completion numbers reported for a COMPDAT record. *)
existingComplnums(conns, rec) ==
  {conns[i].complnum : i \in {j \in DOMAIN conns : conns[j].cell = rec.cell}}

-----------------------------------------------------------------------------
(* Keywords that select connections by cell and completion number.         *)
Matching(conns, rec) ==
  {i \in DOMAIN conns : conns[i].cell \in rec.cells /\ conns[i].complnum \in rec.complnums}

handleWELOPENConnections(conns, rec) ==
  [i \in DOMAIN conns |-> IF i \in Matching(conns, rec)
                          THEN [conns[i] EXCEPT !.state = rec.state] ELSE conns[i]]

matchingComplnums(conns, rec) == {conns[i].complnum : i \in Matching(conns, rec)}

handleCOMPLUMP(conns, rec) ==
  [i \in DOMAIN conns |-> IF conns[i].cell \in rec.cells
                          THEN [conns[i] EXCEPT !.complnum = rec.N] ELSE conns[i]]

handleWPIMULT(conns, rec) ==
  [i \in DOMAIN conns |-> IF i \in Matching(conns, rec)
                          THEN [conns[i] EXCEPT !.CF = @ + rec.WELLPI] ELSE conns[i]]

applyGlobalWPIMULT(conns, factor) == [i \in DOMAIN conns |-> [conns[i] EXCEPT !.CF = @ + factor]]

-----------------------------------------------------------------------------
(* WELPI: connections are made subject to scaling when the keyword is      *)
(* handled and scaled when the simulator has found the well's productivity *)
(* index.  The connection sets of later report steps are scaled with the   *)
(* same array, which exempts the positions found not subject before.       *)
allSubject(conns) == \A i \in DOMAIN conns : conns[i].subject_to_welpi

prepareWellPIScaling(conns) ==
  [i \in DOMAIN conns |-> [conns[i] EXCEPT !.subject_to_welpi = TRUE]]

scaledPositions(conns, scalingApplicable) ==
  {i \in DOMAIN conns : /\ i \in DOMAIN scalingApplicable => scalingApplicable[i]
                        /\ conns[i].subject_to_welpi}

applyWellPIScaling(conns, factor, scalingApplicable) ==
  [i \in DOMAIN conns |-> IF i \in scaledPositions(conns, scalingApplicable)
                          THEN [conns[i] EXCEPT !.CF = @ + factor] ELSE conns[i]]

(* Variant with a fault: the array is not handed on. *)
applicableAfterAnew(conns, scalingApplicable) == << >>

applicableAfter(conns, scalingApplicable) ==
  [i \in 1 .. Max({Len(conns), Len(scalingApplicable)}) |->
     IF i \in DOMAIN conns THEN i \in scaledPositions(conns, scalingApplicable)
                           ELSE scalingApplicable[i]]

-----------------------------------------------------------------------------
(* A fracture: the factor of an existing connection is raised, never       *)
(* lowered; connections to new cells go last, and are not put in order.    *)
withFracture(conns, new) ==
  LET i == Position(conns, new.cell)
  IN IF i = 0 THEN addConnection(conns, new.cell, "OPEN", new.CF)
     ELSE Replaced(conns, i, [conns[i] EXCEPT !.CF = Max({@, new.CF})])
=============================================================================
