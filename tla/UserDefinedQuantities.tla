----------------------- MODULE UserDefinedQuantities -----------------------
(***************************************************************************)
(* User defined quantities in a running simulation: the configurations of  *)
(* all report steps are built beforehand from the deck, each a copy of the *)
(* one before, which may share its object; the simulator evaluates the one *)
(* of its report step after every time step, which changes it; actions add *)
(* statements to it and have the later ones rebuilt; targets of wells are  *)
(* given by quantities; and the run is restarted from the file written at  *)
(* the end of a report step.                                               *)
(*                                                                         *)
(* The history variable `base' is the run as if it were never restarted    *)
(* and its configurations were built one step at a time.                   *)
(***************************************************************************)
EXTENDS UDQConfig, UDQActive, FiniteSets, SequencesExt

CONSTANTS
  Quantities,   \* the names of the quantities
  N,            \* the number of report steps
  Decks,        \* what the deck may hold: the records of UDQ for each step
  ActionBlocks, \* the UDQ records an action or a script may apply
  MatchSets,    \* the sets of wells a condition may match
  Rates,        \* the values of the summary vector
  MaxCalls,     \* bound: the actions and the well keywords of a run
  Fields        \* the targets of a well

Steps == 0 .. N - 1

(* The records of a keyword as the parser delivers them. *)
LegalRecord(r) ==
  /\ r.q \in Quantities
  /\ \/ r.kind = "ASSIGN" /\ r.dynamic \in BOOLEAN
     \/ r.kind \in {"DEFINE", "UNITS"}
     \/ r.kind = "UPDATE" /\ r.status \in {"ON", "OFF", "NEXT"}

Legal(records) == records \in Seq(Range(records)) /\ \A r \in Range(records) : LegalRecord(r)

ASSUME UDQAssumption ==
  /\ N \in Nat \ {0}
  /\ Rate \notin Quantities /\ Number \notin Quantities
  /\ IsFiniteSet(Wells) /\ IsFiniteSet(Fields)
  /\ \A d \in Decks : \A k \in Steps : Legal(d[k])
  /\ \A block \in ActionBlocks : Legal(block)

VARIABLES
  deck,     \* the UDQ records of each step
  configs,  \* the configuration of each snapshot
  owner,    \* the snapshot whose object a snapshot shares
  step,     \* the report step that is simulated
  fresh,    \* the configuration of the step was evaluated since it last changed
  values,   \* UDQState
  active,   \* UDQActive: the input records
  output,   \* UDQActive: the IUAD records that were computed last, or none
  target,   \* the targets of the wells
  fault,    \* an error was raised
  base,     \* the configuration and the values of the uninterrupted run, and
            \* whether it goes on without an error
  served,   \* how often the last statement of a quantity was evaluated
  once,     \* the quantities whose last statement counts for one evaluation
  lost,     \* restarts so far that dropped the ASSIGNs of a DEFINEd quantity
  calls     \* the actions and well keywords so far

vars == <<deck, configs, owner, step, fresh, values, active, output, target,
          fault, base, served, once, lost, calls>>

runVars == <<configs, owner, step, fresh, values, active, output, target>>
ghostVars == <<base, served, once, lost>>

Keywords == {"WCONPROD", "WELTARG"}

-----------------------------------------------------------------------------
(* Building snapshots.                                                     *)

Block(c, k) == handleUDQ(NewReportStep(c), deck[k], {}, FALSE)

(* The snapshots after k, each from the one before.  The objects they own. *)
Rebuilt(k, c) ==
  LET f[j \in k .. N - 1] ==
        IF j = k THEN [ok |-> TRUE, config |-> c]
        ELSE LET b == Block(f[j - 1].config, j)
             IN  [ok |-> f[j - 1].ok /\ b.ok, config |-> b.config]
  IN  f

Owners(k, own, f) ==
  LET g[j \in k .. N - 1] ==
        IF j = k THEN own
        ELSE IF deck[j] = << >> /\ Inert(f[j - 1].config) THEN g[j - 1] ELSE j
  IN  g

(* The snapshots from k on become c and what the deck makes of it. *)
Install(k, c, own) ==
  LET f == Rebuilt(k, c)
      g == Owners(k, own, f)
  IN  /\ configs' = [j \in Steps |-> IF j < k THEN configs[j] ELSE f[j].config]
      /\ owner' = [j \in Steps |-> IF j < k THEN owner[j] ELSE g[j]]
      /\ fault' = ~f[N - 1].ok

-----------------------------------------------------------------------------
(* The history variables: which statements count for one evaluation.       *)

(* The statements about a quantity in a block; UPDATE says nothing of one  *)
(* that is ASSIGNed.                                                       *)
Stated(c, records, q) ==
  {i \in DOMAIN records : /\ records[i].q = q
                          /\ \/ records[i].kind \in {"ASSIGN", "DEFINE"}
                             \/ records[i].kind = "UPDATE" /\ c.action[q] = "DEFINE"}

Served(c, records, srv) ==
  [q \in Quantities |-> IF Stated(c, records, q) # {} THEN 0 ELSE srv[q]]

Once(c, records, one) ==
  LET Counts(q) == LET at == Stated(c, records, q)
                       r == records[CHOOSE i \in at : \A j \in at : j <= i]
                   IN  IF c.action[q] = "ASSIGN" THEN q \in DOMAIN c.asg
                       ELSE r.kind = "UPDATE" /\ r.status = "NEXT"
  IN  {q \in Quantities : IF Stated(c, records, q) = {} THEN q \in one ELSE Counts(q)}

(* The uninterrupted run goes on with what it made of a keyword. *)
Continue(done) == base' = [base EXCEPT !.config = done.config, !.ok = @ /\ done.ok]

-----------------------------------------------------------------------------
Init ==
  /\ deck \in Decks
  /\ LET first == handleUDQ(EmptyConfig, deck[0], {}, FALSE)
         f == Rebuilt(0, first.config)
     IN  /\ configs = [j \in Steps |-> f[j].config]
         /\ owner = Owners(0, 0, f)
         /\ fault = ~(first.ok /\ f[N - 1].ok)
         /\ base = [config |-> first.config, values |-> EmptyFunction, ok |-> first.ok]
         /\ once = Once(first.config, deck[0], {})
  /\ step = 0
  /\ fresh = FALSE
  /\ values = EmptyFunction
  /\ active = << >>
  /\ output = << >>
  /\ target = [w \in Wells |-> [f \in Fields |-> Number]]
  /\ served = [q \in Quantities |-> 0]
  /\ lost = FALSE
  /\ calls = 0

(* A time step ends: the configuration of the report step is evaluated,    *)
(* and every snapshot that shares its object changes with it.              *)
Evaluate ==
  /\ ~fault
  /\ \E rate \in Rates :
       LET c == configs[step]
           v == eval(c, values, rate)
       IN  /\ values' = v
           /\ configs' = [j \in Steps |-> IF owner[j] = owner[step] THEN evaluated(c)
                                          ELSE configs[j]]
           /\ served' = [q \in Quantities |->
                IF q \in Assignable(c) \/ (q \in Known(c) /\ Defining(c, q))
                THEN IF served[q] < 2 THEN served[q] + 1 ELSE 2 ELSE served[q]]
           /\ base' = [base EXCEPT !.config = evaluated(@),
                                   !.values = eval(base.config, @, rate)]
  /\ fresh' = TRUE
  /\ UNCHANGED <<deck, owner, step, active, output, target, fault, once, lost, calls>>

(* An action or a script adds UDQ records to the snapshot of the step.     *)
(* Another time step of the report step follows.                           *)
ApplyAction ==
  /\ ~fault
  /\ calls < MaxCalls
  /\ \E records \in ActionBlocks, matches \in MatchSets :
       LET done == handleUDQ(configs[step], records, matches, TRUE)
       IN  IF done.ok
           THEN /\ Install(step, done.config, step)
                /\ Continue(handleUDQ(base.config, records, matches, TRUE))
                /\ served' = Served(done.config, records, served)
                /\ once' = Once(done.config, records, once)
                /\ fresh' = FALSE
           ELSE /\ fault' = TRUE
                /\ UNCHANGED <<configs, owner, base, served, once, fresh>>
  /\ calls' = calls + 1
  /\ UNCHANGED <<deck, step, values, active, output, target, lost>>

(* The next report step begins. *)
NextStep ==
  /\ ~fault /\ fresh
  /\ step < N - 1
  /\ step' = step + 1
  /\ fresh' = FALSE
  /\ Continue(Block(base.config, step + 1))
  /\ served' = Served(configs[step + 1], deck[step + 1], served)
  /\ once' = Once(configs[step + 1], deck[step + 1], once)
  /\ UNCHANGED <<deck, configs, owner, values, active, output, target, fault, lost,
                 calls>>

-----------------------------------------------------------------------------
(* Targets.                                                                *)

IndexOf(c, q) == CHOOSE i \in DOMAIN c.index : c.index[i] = q
HasKeyword(c, q) == q \in DOMAIN c.asg \cup DOMAIN c.def

(* The IUAD records are computed anew once the input records have changed. *)
(* Variant with a fault: only once their number has changed. *)
keptOutputLonger(new) == IF Len(new) = Len(active) THEN output ELSE << >>

keptOutput(new) == IF new = active THEN output ELSE << >>

(* WCONPROD gives every target of the well, WELTARG one of them; both      *)
(* write the same target and register it under a control of their own.     *)
(* A quantity that does not exist is an error.                             *)
SetTargets(w, kw, given) ==
  LET c == configs[step]
      Register(book, f) == update(book, IF given[f] = Number THEN 0 ELSE IndexOf(c, given[f]),
                                  given[f], w, <<kw, f>>)
      new == FoldLeft(Register, active, SetToSeq(DOMAIN given))
  IN  IF \E f \in DOMAIN given : given[f] # Number /\ ~HasKeyword(c, given[f])
      THEN /\ fault' = TRUE
           /\ UNCHANGED <<active, output, target>>
      ELSE /\ target' = [target EXCEPT ![w] =
                         [f \in Fields |-> IF f \in DOMAIN given THEN given[f] ELSE @[f]]]
           /\ active' = new
           /\ output' = keptOutput(new)
           /\ UNCHANGED fault

WCONPROD(w) ==
  \E given \in [Fields -> Quantities \cup {Number}] : SetTargets(w, "WCONPROD", given)

WELTARG(w) ==
  \E f \in Fields, x \in Quantities \cup {Number} : SetTargets(w, "WELTARG", [g \in {f} |-> x])

SetTarget ==
  /\ ~fault
  /\ calls < MaxCalls
  /\ \E w \in Wells : WCONPROD(w) \/ WELTARG(w)
  /\ calls' = calls + 1
  /\ UNCHANGED <<deck, configs, owner, step, fresh, values, ghostVars>>

iuad == IF output = << >> THEN constructOutputRecords(active) ELSE output

(* The restart file is written: the IUAD records are computed, and kept.   *)
(* A quantity without an object cannot be written.                         *)
Write ==
  /\ ~fault /\ fresh
  /\ fault' = (Len(input(configs[step])) # Len(configs[step].index))
  /\ output' = iuad
  /\ UNCHANGED <<deck, configs, owner, step, fresh, values, active, target, ghostVars,
                 calls>>

(* The run starts again from a file written now, at the next report step.  *)
(* The quantities and their values are read, then the arguments, each of   *)
(* which gives its target; the snapshots before the step hold nothing.     *)
Restored == restored(configs[step], values)

RstArguments ==
  LET book == iuap(active)
  IN  load_rst(iuad, [i \in DOMAIN book |-> book[i].wgname], Restored.index)

Restart ==
  /\ ~fault /\ fresh
  /\ step < N - 1
  /\ Len(input(configs[step])) = Len(configs[step].index)
  /\ LET first == handleUDQ(Restored, deck[step + 1], {}, FALSE)
         f == Rebuilt(step + 1, first.config)
         g == Owners(step + 1, step + 1, f)
         Targets(t, r) == [t EXCEPT ![r.wgname][r.control[2]] = r.udq]
     IN  /\ configs' = [j \in Steps |-> IF j <= step THEN EmptyConfig ELSE f[j].config]
         /\ owner' = [j \in Steps |-> IF j <= step THEN 0 ELSE g[j]]
         /\ fault' = ~(first.ok /\ f[N - 1].ok)
         /\ once' = Once(first.config, deck[step + 1], once)
         /\ served' = Served(first.config, deck[step + 1], served)
         /\ active' = FoldLeft(LAMBDA book, r :
                                 update(book, IndexOf(Restored, r.udq), r.udq, r.wgname, r.control),
                               << >>, RstArguments)
         /\ target' = FoldLeft(Targets, [w \in Wells |-> [f2 \in Fields |-> Number]], RstArguments)
  /\ output' = << >>
  /\ values' = Restrict(values, Range(Restored.index) \cap DOMAIN values)
  /\ lost' = (lost \/ \E q \in Known(configs[step]) :
                         configs[step].action[q] = "DEFINE" /\ q \in DOMAIN configs[step].asg)
  /\ step' = step + 1
  /\ fresh' = FALSE
  /\ Continue(Block(base.config, step + 1))
  /\ UNCHANGED <<deck, calls>>

Next == Evaluate \/ ApplyAction \/ NextStep \/ SetTarget \/ Write \/ Restart

Spec == Init /\ [][Next]_vars

-----------------------------------------------------------------------------
(* Every variable stays in its range: the index lists each known quantity  *)
(* once, and a snapshot shares the object of itself or an earlier one.     *)
ConfigOK(c) ==
  /\ Range(c.index) = Known(c) /\ Len(c.index) = Cardinality(Known(c))
  /\ Known(c) \subseteq Quantities
  /\ c.pending \subseteq DOMAIN c.asg
  /\ \A q \in Known(c) : c.action[q] = "DEFINE" => q \in DOMAIN c.def

TypeOK ==
  /\ \A k \in Steps : ConfigOK(configs[k]) /\ owner[k] \in 0 .. k
  /\ step \in Steps /\ fresh \in BOOLEAN /\ fault \in BOOLEAN /\ lost \in BOOLEAN
  /\ \A q \in DOMAIN values : q \in Quantities /\ DOMAIN values[q] = Wells
  /\ \A i \in DOMAIN active : active[i].udq \in Quantities /\ active[i].wgname \in Wells
  /\ target \in [Wells -> [Fields -> Quantities \cup {Number}]]
  /\ served \in [Quantities -> 0 .. 2] /\ once \subseteq Quantities

(* What was built beforehand is what would be built now: evaluating the    *)
(* snapshot of the report step, whose object later ones may share, and     *)
(* replaying an action never leave a later snapshot other than the deck    *)
(* makes it from the one before.                                           *)
Coherent ==
  ~fault => \A k \in step + 1 .. N - 1 : configs[k] = Block(configs[k - 1], k).config

(* An ASSIGN and an UPDATE NEXT take effect in exactly one evaluation: the *)
(* first one after the statement, however many time steps the report step  *)
(* has, whatever shares the object, and also when an action repeats it.    *)
EvaluatedOnce ==
  ~fault => \A q \in once : served[q] <= 1 /\ (fresh => served[q] = 1)

(* After an evaluation a definition that is ON agrees with the quantity it *)
(* reads, when that one was introduced before it or is not being defined.  *)
DefinesSettled ==
  (fresh /\ ~fault) =>
    LET c == configs[step]
    IN  \A q \in Known(c) :
          c.action[q] = "DEFINE" /\ c.def[q].status = "ON" /\ c.def[q].expr # Rate =>
            LET x == c.def[q].expr
            IN  x \in Known(c) /\ (c.action[x] = "ASSIGN" \/ IndexOf(c, x) < IndexOf(c, q))
                  => ValueOf(values, q) = ValueOf(values, x)

(* A restarted run computes what the uninterrupted one computes, as long   *)
(* as that one has no error (a restart drops the UNITS of a quantity that  *)
(* does not exist, so that it may miss the error of a second UNITS), and   *)
(* no quantity that was ASSIGNed before it was DEFINEd had its ASSIGN      *)
(* records dropped.                                                        *)
RestartTransparent ==
  ~fault /\ ~lost /\ base.ok =>
    \A q \in Quantities : ValueOf(values, q) = ValueOf(base.values, q)

(* Every registered argument names its quantity by that number. *)
ArgumentsIndexed ==
  ~fault => \A i \in DOMAIN active : /\ active[i].input_index \in DOMAIN configs[step].index
                                     /\ configs[step].index[active[i].input_index] = active[i].udq

(* IUAP holds, at the offset of each IUAD record, the wells of that use,   *)
(* although the two arrays are computed apart and IUAD is kept: also after *)
(* records were replaced and taken away.                                   *)
OffsetsMatch ==
  LET book == iuap(active)
  IN  /\ Len(book) = Offset(iuad, Len(iuad) + 1)
      /\ \A i \in DOMAIN iuad :
           {book[Offset(iuad, i) + k] : k \in 1 .. iuad[i].use_count}
             = {active[j] : j \in {x \in DOMAIN active : SameUse(active[x], iuad[i])}}

(* What the restart file says of the arguments can be followed from IUAD   *)
(* to the quantity and to the wells, after any sequence of uses.           *)
UsesAddressed == ArgumentsIndexed /\ OffsetsMatch

(* A restart keeps the argument of every target that was given by one      *)
(* keyword only: a target that has a record under WCONPROD and another     *)
(* under WELTARG gets the one that is read last.                           *)
Controls(w, f) == {kw \in Keywords : Found(active, w, <<kw, f>>) # 0}

ArgumentsRestored ==
  [][configs[step] # EmptyConfig /\ configs'[step] = EmptyConfig =>
       \A w \in Wells, f \in Fields :
         target[w][f] # Number /\ Cardinality(Controls(w, f)) = 1
           => target'[w][f] = target[w][f]]_vars

(* UDQConfig.hpp says that size(), the number of active DEFINEs and        *)
(* ASSIGNs, is the length of the vector input() returns.                   *)
InputAnswered == ~fault => Len(input(configs[step])) = Len(configs[step].index)
=============================================================================
