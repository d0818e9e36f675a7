----------------------------- MODULE UDQConfig -----------------------------
(***************************************************************************)
(* The user defined quantities of one snapshot of the schedule: which      *)
(* exist and in which order they were introduced (index), whether each is  *)
(* currently ASSIGNed or DEFINEd (action), its definition with its update  *)
(* status (def), every ASSIGN record it was given (asg), the ASSIGNs that  *)
(* are still to be applied (pending) and the units.  Names, expressions    *)
(* and values are atoms; all quantities are of well type, a field quantity *)
(* being one with a single well.                                           *)
(***************************************************************************)
EXTENDS Naturals, Sequences, SequencesExt, Functions

CONSTANTS
  Wells,        \* the wells a quantity has a value for
  Rate,         \* the expression that reads a summary vector, not a quantity
  Undefined     \* stands for no value

EmptyFunction == [q \in {} |-> {}]

EmptyConfig == [index |-> << >>, action |-> EmptyFunction, def |-> EmptyFunction,
                asg |-> EmptyFunction, pending |-> {}, units |-> EmptyFunction]

Known(c) == DOMAIN c.action

(* Insertion or assignment in a map. *)
Put(f, q, a) == [x \in DOMAIN f \cup {q} |-> IF x = q THEN a ELSE f[x]]

(* The records of the UDQ keyword.  A dynamic ASSIGN has the selector '?': *)
(* the wells that matched the condition of the ACTIONX it stands in.       *)
Assign(q, S, v) == [kind |-> "ASSIGN", q |-> q, dynamic |-> FALSE, wells |-> S, val |-> v]
AssignMatched(q, v) == [kind |-> "ASSIGN", q |-> q, dynamic |-> TRUE, wells |-> {}, val |-> v]
Define(q, e) == [kind |-> "DEFINE", q |-> q, expr |-> e]
Update(q, s) == [kind |-> "UPDATE", q |-> q, status |-> s]
Units(q, u) == [kind |-> "UNITS", q |-> q, unit |-> u]

-----------------------------------------------------------------------------
(* Reading the keyword.                                                    *)

add_node(c, q, a) ==
  [c EXCEPT !.index = IF q \in Range(@) THEN @ ELSE Append(@, q),
            !.action = Put(@, q, a)]

(* The ASSIGN record is kept behind the earlier ones of the quantity. *)
add_assign_impl(c, q, S, v) ==
  [c EXCEPT !.asg = Put(@, q, Append(IF q \in DOMAIN @ THEN @[q] ELSE << >>,
                                     [wells |-> S, val |-> v]))]

(* A dynamic ASSIGN that no well matches has made the quantity an ASSIGN   *)
(* by the time it finds out, and leaves no record.                         *)
add_assign(c, r, matches) ==
  LET S == IF r.dynamic THEN matches ELSE r.wells
      n == add_node(c, r.q, "ASSIGN")
      a == IF S = {} THEN n ELSE add_assign_impl(n, r.q, S, r.val)
  IN  [a EXCEPT !.pending = IF r.q \in DOMAIN a.asg THEN @ \cup {r.q} ELSE @]

add_define(c, q, e, s) ==
  [add_node(c, q, "DEFINE") EXCEPT !.def = Put(@, q, [expr |-> e, status |-> s])]

(* UPDATE of a quantity that was only ever ASSIGNed has no effect. *)
add_update(c, q, s) ==
  IF q \in DOMAIN c.def THEN [c EXCEPT !.def[q].status = s] ELSE c

add_unit(c, q, u) == [c EXCEPT !.units = Put(@, q, u)]

(* The statements that raise an error. *)
refused(c, r, inAction) ==
  CASE r.kind = "ASSIGN" -> r.dynamic /\ ~inAction
    [] r.kind = "UPDATE" -> r.q \notin DOMAIN c.def \cup DOMAIN c.asg
    [] r.kind = "UNITS"  -> r.q \in DOMAIN c.units /\ c.units[r.q] # r.unit
    [] OTHER -> FALSE

add_record(c, r, matches) ==
  CASE r.kind = "ASSIGN" -> add_assign(c, r, matches)
    [] r.kind = "DEFINE" -> add_define(c, r.q, r.expr, "ON")
    [] r.kind = "UPDATE" -> add_update(c, r.q, r.status)
    [] OTHER -> add_unit(c, r.q, r.unit)

(* The handler works on a copy, and puts it back when every record of the  *)
(* keyword went well.                                                      *)
handleUDQ(c, records, matches, inAction) ==
  FoldLeft(LAMBDA done, r :
             IF ~done.ok \/ refused(done.config, r, inAction)
             THEN [ok |-> FALSE, config |-> c]
             ELSE [ok |-> TRUE, config |-> add_record(done.config, r, matches)],
           [ok |-> TRUE, config |-> c], records)

-----------------------------------------------------------------------------
(* A snapshot starts as a copy of the one before it, without the ASSIGNs   *)
(* and the UPDATE NEXTs of the step before.                                *)

(* NEXT holds for one evaluation. *)
AfterNext(d) == IF d.status = "NEXT" THEN [d EXCEPT !.status = "OFF"] ELSE d

clear_pending_assignments(c) == [c EXCEPT !.pending = {}]

clear_update_next(c) ==
  [c EXCEPT !.def = [q \in DOMAIN @ |-> AfterNext(@[q])]]

(* Variant with a fault: UPDATE NEXT is carried along. *)
NewReportStepKeepNext(c) == clear_pending_assignments(c)

NewReportStep(c) == clear_update_next(clear_pending_assignments(c))

(* Nothing to clear: the two snapshots go on sharing one object. *)
Inert(c) == c.pending = {} /\ \A q \in DOMAIN c.def : c.def[q].status # "NEXT"

-----------------------------------------------------------------------------
(* Evaluation.  The values are a function from quantities to functions     *)
(* from wells to values.                                                   *)

NoValue == [w \in Wells |-> Undefined]
ValueOf(values, q) == IF q \in DOMAIN values THEN values[q] ELSE NoValue

(* Every record the quantity was ever given is applied again, in order. *)
Replayed(records) ==
  FoldLeft(LAMBDA v, r : [w \in Wells |-> IF w \in r.wells THEN r.val ELSE v[w]],
           NoValue, records)

Assignable(c) == c.pending \cap DOMAIN c.asg

eval_assign(c, values) ==
  [q \in Assignable(c) \cup DOMAIN values |->
     IF q \in Assignable(c) THEN Replayed(c.asg[q]) ELSE values[q]]

Defining(c, q) == c.action[q] = "DEFINE" /\ c.def[q].status \in {"ON", "NEXT"}

(* The definitions are evaluated in the order the quantities were          *)
(* introduced in; an expression sees what was evaluated before it.         *)
eval_define(c, values, rate) ==
  FoldLeft(LAMBDA v, q :
             IF ~Defining(c, q) THEN v
             ELSE Put(v, q, IF c.def[q].expr = Rate THEN [w \in Wells |-> rate]
                            ELSE ValueOf(v, c.def[q].expr)),
           values, c.index)

(* Variant with a fault: the definitions do not see the new ASSIGNs. *)
evalDefinesFirst(c, values, rate) == eval_assign(c, eval_define(c, values, rate))

eval(c, values, rate) == eval_define(c, eval_assign(c, values), rate)

(* What an evaluation does to the object it runs on. *)
(* Variant with a fault: UPDATE NEXT stays until the next report step. *)
evaluatedKeepNext(c) == [c EXCEPT !.pending = {}]

evaluated(c) ==
  [c EXCEPT !.pending = {},
            !.def = [q \in DOMAIN @ |->
                       IF q \in Known(c) /\ Defining(c, q)
                       THEN AfterNext(@[q]) ELSE @[q]]]

-----------------------------------------------------------------------------
(* The restart file.                                                       *)

(* The quantities that can be written: those whose object the index says   *)
(* there is.                                                               *)
input(c) ==
  LET HasObject(q) == q \in IF c.action[q] = "DEFINE" THEN DOMAIN c.def ELSE DOMAIN c.asg
  IN  FoldLeft(LAMBDA out, q : IF HasObject(q) THEN Append(out, q) ELSE out, << >>, c.index)

(* Of the update status the file says no more than whether it is ON. *)
(* Variant with a fault: a definition comes back as ON. *)
WrittenStatusOn(s) == "ON"

WrittenStatus(s) == IF s = "ON" THEN "ON" ELSE "OFF"

(* An ASSIGN comes back as one record for each well that has a value. *)
rst_records(v) ==
  SetToSeq({[wells |-> {w}, val |-> v[w]] : w \in {x \in Wells : v[x] # Undefined}})

rst_quantity(c, values, n, q) ==
  IF c.action[q] = "DEFINE"
  THEN add_define(n, q, c.def[q].expr, WrittenStatus(c.def[q].status))
  ELSE [add_node(n, q, "ASSIGN") EXCEPT !.asg = Put(@, q, rst_records(ValueOf(values, q)))]

restored(c, values) ==
  FoldLeft(LAMBDA n, q : LET m == rst_quantity(c, values, n, q)
                         IN  IF q \in DOMAIN c.units THEN add_unit(m, q, c.units[q]) ELSE m,
           EmptyConfig, c.index)
=============================================================================
