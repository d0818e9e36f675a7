----------------------------- MODULE UDQActive -----------------------------
(***************************************************************************)
(* The book of the user defined arguments of one snapshot: which target of *)
(* which well, given by which item of which keyword (the control), takes   *)
(* its value from which quantity.  The restart file gets it as two arrays: *)
(* IUAD has a record for each use of a quantity by a control, with the     *)
(* number of wells, and IUAP the wells of all records, one after another.  *)
(***************************************************************************)
EXTENDS Naturals, Sequences, SequencesExt, Functions

Number == "number"          \* a target that is given as a number

InputRecord(index, q, w, control) ==
  [input_index |-> index, udq |-> q, wgname |-> w, control |-> control]

SameUse(r, s) == r.udq = s.udq /\ r.control = s.control

-----------------------------------------------------------------------------
(* The position of the record of a well and a control, 0 if there is none. *)
Found(input_data, w, control) ==
  LET at == {i \in DOMAIN input_data : input_data[i].wgname = w /\ input_data[i].control = control}
  IN  IF at = {} THEN 0 ELSE CHOOSE i \in at : \A j \in at : i <= j

(* A number takes the record of the well and the control away, another     *)
(* quantity puts a new record at the end, the same quantity changes        *)
(* nothing.                                                                *)
update(input_data, index, uda, w, control) ==
  LET i == Found(input_data, w, control)
      rest == IF i = 0 THEN input_data ELSE RemoveAt(input_data, i)
  IN  IF uda = Number THEN rest
      ELSE IF i # 0 /\ input_data[i].udq = uda THEN input_data
      ELSE Append(rest, InputRecord(index, uda, w, control))

(* IUAD, one record after the other: a use that is there already is        *)
(* counted, another one is added.                                          *)
constructOutputRecords(input_data) ==
  FoldLeft(LAMBDA out, r :
             IF \E i \in DOMAIN out : SameUse(out[i], r)
             THEN [i \in DOMAIN out |->
                     IF SameUse(out[i], r) THEN [out[i] EXCEPT !.use_count = @ + 1] ELSE out[i]]
             ELSE Append(out, [udq |-> r.udq, input_index |-> r.input_index,
                               control |-> r.control, use_count |-> 1]),
           << >>, input_data)

(* The records of the same use, in their order. *)
UsesLike(input_data, r) ==
  FoldLeft(LAMBDA uses, s : IF SameUse(s, r) THEN Append(uses, s) ELSE uses, << >>, input_data)

(* IUAP: the first record that is left, and all others of the same use. *)
iuap(input_data) ==
  FoldLeft(LAMBDA out, r : IF \E i \in DOMAIN out : SameUse(out[i], r) THEN out
                           ELSE out \o UsesLike(input_data, r),
           << >>, input_data)

(* Variant with a fault: counts records, not wells. *)
OffsetOfRecord(iuad, i) == i - 1

(* Where the wells of an IUAD record start in IUAP. *)
Offset(iuad, i) == FoldLeft(LAMBDA n, r : n + r.use_count, 0, SubSeq(iuad, 1, i - 1))

(* The arguments read back: for each IUAD record, the wells at its offset. *)
load_rst(iuad, wells, quantities) ==
  FlattenSeq([i \in DOMAIN iuad |->
    [k \in 1 .. iuad[i].use_count |->
       [control |-> iuad[i].control, udq |-> quantities[iuad[i].input_index],
        wgname |-> wells[Offset(iuad, i) + k]]]])
=============================================================================
