----------------------- MODULE WriteRestartFileEvents -----------------------
(***************************************************************************)
(* The restart files of a run as a growing vector of 64-bit words, one bit *)
(* for each report step.  A word is the set of the positions of its bits   *)
(* that are one: shifting, masking and testing are what they do to that    *)
(* set, including the bits lost at the top.                                *)
(***************************************************************************)
EXTENDS Integers, Sequences, FiniteSetsExt

CONSTANT ReportSteps    \* the report steps the operations are called with

ASSUME ReportStepsAssumption == ReportSteps \subseteq Nat

VARIABLE write_restart_file_

nbits == 64
Positions == 0 .. nbits - 1
zero == {}
None == -1

EventsTypeOK == write_restart_file_ \in Seq(SUBSET Positions)

Word(i) == i \div nbits       \* array_location, first
Bit(i)  == i % nbits          \* array_location, second

ShiftLeft(bits, n) == {b + n : b \in {a \in bits : a + n < nbits}}
Below(n)           == {b \in Positions : b < n}       \* (1 << n) - 1
clear_bits(start, bits) == bits \cap Below(start)

(***************************************************************************)
(* count_leading_zeros: a binary search that shifts the top half out when  *)
(* it is empty.  A pair is the count so far and the remaining bits.        *)
(***************************************************************************)
(* Variant with a fault: the comparison accepts one bit too many. *)
HalveInclusive(c, n) ==
  IF \A b \in c.bits : b <= nbits - n
  THEN [count |-> c.count + n, bits |-> ShiftLeft(c.bits, n)]
  ELSE c

Halve(c, n) ==
  IF \A b \in c.bits : b < nbits - n
  THEN [count |-> c.count + n, bits |-> ShiftLeft(c.bits, n)]
  ELSE c

count_leading_zeros(bits) ==
  IF bits = zero THEN nbits
  ELSE LET start == [count |-> 0, bits |-> bits]
           c == Halve(Halve(Halve(Halve(Halve(start, 32), 16), 8), 4), 2)
       IN IF nbits - 1 \notin c.bits THEN c.count + 1 ELSE c.count

-----------------------------------------------------------------------------
(* Variant with a fault: growing starts from a new vector of zeros. *)
resizedAnew(v, numReportSteps) ==
  IF Word(numReportSteps) < Len(v) THEN v
  ELSE [k \in 1 .. Word(numReportSteps) + 1 |-> zero]

resized(v, numReportSteps) ==
  IF Word(numReportSteps) < Len(v) THEN v
  ELSE [k \in 1 .. Word(numReportSteps) + 1 |-> IF k <= Len(v) THEN v[k] ELSE zero]

resize(numReportSteps) ==
  write_restart_file_' = resized(write_restart_file_, numReportSteps)

clearRemainingEvents(start) ==
  LET v == write_restart_file_
      w == Word(start) + 1
  IN write_restart_file_' =
       [k \in DOMAIN v |-> IF k < w THEN v[k]
                           ELSE IF k = w THEN clear_bits(Bit(start), v[k])
                           ELSE zero]

addRestartOutput(reportStep) ==
  LET v == resized(write_restart_file_, reportStep + 1)
  IN write_restart_file_' =
       [v EXCEPT ![Word(reportStep) + 1] = @ \cup {Bit(reportStep)}]

writeRestartFile(reportStep) ==
  /\ Word(reportStep) < Len(write_restart_file_)
  /\ Bit(reportStep) \in write_restart_file_[Word(reportStep) + 1]

(***************************************************************************)
(* First the bits below reportStep in its own word, then the words before  *)
(* it from the last to the first, until one is not zero.                   *)
(***************************************************************************)
lastRestartEventBefore(reportStep) ==
  LET v     == write_restart_file_
      w     == Word(reportStep)
      prev  == IF w < Len(v) THEN v[w + 1] \cap Below(Bit(reportStep)) ELSE zero
      bins  == {k \in 1 .. (IF w < Len(v) THEN w ELSE Len(v)) : count_leading_zeros(v[k]) < nbits}
      at(bin, bits) == nbits * bin + nbits - count_leading_zeros(bits) - 1
  IN IF count_leading_zeros(prev) < nbits THEN at(w, prev)
     ELSE IF bins = {} THEN None
     ELSE at(Max(bins) - 1, v[Max(bins)])

-----------------------------------------------------------------------------
EventsInit == write_restart_file_ = << >>

EventsNext ==
  \E i \in ReportSteps : resize(i) \/ clearRemainingEvents(i) \/ addRestartOutput(i)

EventsSpec == EventsInit /\ [][EventsNext]_write_restart_file_

(***************************************************************************)
(* The steps whose bit is set: the abstract value of the vector.           *)
(***************************************************************************)
StoredEvents ==
  {i \in 0 .. nbits * Len(write_restart_file_) - 1 : Bit(i) \in write_restart_file_[Word(i) + 1]}

Abstract == INSTANCE RestartFileEvents WITH events <- StoredEvents

(* The vector behaves as the set of steps: adding a step that lies beyond  *)
(* the last word grows it without disturbing the events before it, and     *)
(* clearing from a step keeps exactly the earlier ones.                    *)
ImplementsEvents == Abstract!Spec

(* Each operation has on the set of steps exactly the effect it is called  *)
(* for, and growing the vector has none.                                   *)
OperationsExact ==
  [][\A i \in ReportSteps : /\ clearRemainingEvents(i) => Abstract!Clear(i)
                            /\ addRestartOutput(i) => Abstract!Add(i)
                            /\ resize(i) => UNCHANGED StoredEvents]_write_restart_file_

(* writeRestartFile answers membership, also beyond the last word.         *)
MembershipAnswered == \A i \in ReportSteps : writeRestartFile(i) <=> i \in StoredEvents

(* The search over bits and words finds the latest earlier event, on and   *)
(* across word boundaries, or says that there is none.                     *)
LastEventFound ==
  \A i \in ReportSteps : Abstract!IsLastBefore(lastRestartEventBefore(i), i)

(* Both queries are answered exactly, for steps in the words and beyond.   *)
QueriesExact == MembershipAnswered /\ LastEventFound
=============================================================================
