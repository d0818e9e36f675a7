------------------------ MODULE MCScheduleConnections ------------------------
(***************************************************************************)
(* Three cells; four report steps with one keyword each, or two at one of  *)
(* them, the first with the first COMPDAT; actions that add keywords; a    *)
(* fracture.                                                               *)
(***************************************************************************)
EXTENDS ScheduleConnections

Compdat(records)   == [name |-> "COMPDAT", records |-> records]
Rec(cell, state)   == [cell |-> cell, state |-> state, CF |-> 0]
Welopen(cells, st) == [name |-> "WELOPEN", cells |-> cells, complnums |-> 1 .. 9, state |-> st]
Status(st)         == [name |-> "WELOPENWell", status |-> st]
Complump(cells, n) == [name |-> "COMPLUMP", cells |-> cells, N |-> n]
Wpimult(n)         == [name |-> "WPIMULT", cells |-> Cells, complnums |-> n .. n, WELLPI |-> 1]
WpimultAll         == [name |-> "WPIMULTWell", WELLPI |-> 1]
Welpi              == [name |-> "WELPI"]
WelpiAtOnce        == [name |-> "WELPIRuntime", factor |-> 1]

First      == {<<Compdat(<<Rec(2, "OPEN")>>)>>, <<Compdat(<<Rec(3, "SHUT"), Rec(3, "OPEN")>>)>>}
Completing == First \cup {<<Compdat(<<Rec(1, "SHUT")>>)>>}

Changing ==
  {<<Welopen(Cells, "SHUT")>>, <<Welopen({2}, "OPEN")>>, <<Status("OPEN")>>,
   <<Complump({2, 3}, 2)>>, <<Wpimult(1)>>, <<Welpi>>}

Paired ==
  {<<Welopen({2}, "SHUT"), Welopen({2}, "OPEN")>>,
   <<Compdat(<<Rec(2, "OPEN")>>), Welpi>>, <<Welpi, Compdat(<<Rec(2, "OPEN")>>)>>}

OneKeyword == {d \in [0 .. LastStep -> Completing \cup Changing] : d[0] \in First}

(* Two keywords at one of the later steps. *)
TwoKeywords == {[d EXCEPT ![s] = pair] : d \in OneKeyword, s \in 1 .. LastStep, pair \in Paired}

MCDecks == OneKeyword \cup TwoKeywords

MCActions ==
  {<<Compdat(<<Rec(2, "SHUT"), Rec(1, "OPEN")>>), WpimultAll>>,
   <<Welopen({2}, "SHUT")>>, <<WelpiAtOnce>>, <<Complump({2}, 1)>>}

MCFractures == {<<[cell |-> 2, CF |-> 2], [cell |-> 1, CF |-> 1]>>}
=============================================================================
