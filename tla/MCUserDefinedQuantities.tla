---------------------- MODULE MCUserDefinedQuantities ----------------------
(***************************************************************************)
(* UserDefinedQuantities with two wells, two or three quantities and three *)
(* report steps: definitions that read quantities introduced before and    *)
(* after them, UPDATE NEXT, a quantity that is ASSIGNed, DEFINEd and       *)
(* ASSIGNed again, and units.                                              *)
(***************************************************************************)
EXTENDS UserDefinedQuantities, TLC

CONSTANTS A, B, P, Q

(* B reads A; A is frozen, evaluated once more, and then assigned. *)
UpdateDeck ==
  (0 :> <<Define(A, Rate), Define(B, A), Units(A, "SM3/DAY")>>) @@
  (1 :> <<Update(A, "OFF"), Update(B, "NEXT")>>) @@
  [k \in 2 .. N - 1 |-> << >>]

(* B is introduced first and reads A. *)
AssignDeck ==
  (0 :> <<Define(B, A), Assign(A, Wells, 1)>>) @@
  (1 :> << >>) @@
  [k \in 2 .. N - 1 |-> <<Update(B, "NEXT")>>]

(* A is assigned, then defined. *)
SwitchDeck ==
  (0 :> <<Assign(A, {P}, 2), Assign(A, {Q}, 1)>>) @@
  (1 :> <<Define(A, Rate)>>) @@
  [k \in 2 .. N - 1 |-> <<Assign(A, {Q}, 3), Units(A, "SM3/DAY")>>]

MCDecks == {UpdateDeck, AssignDeck, SwitchDeck}

MCActionBlocks ==
  { <<AssignMatched(A, 3)>>, <<Define(A, Rate)>>,
    <<Assign(A, {P}, 2), Update(B, "NEXT")>>, <<Update(A, "NEXT")>>, <<Units(A, "M3")>> }
=============================================================================
