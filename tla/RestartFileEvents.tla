------------------------- MODULE RestartFileEvents -------------------------
(***************************************************************************)
(* What class WriteRestartFileEvents promises: the set of report steps at  *)
(* which a restart file is written, and its greatest element below a step. *)
(***************************************************************************)
EXTENDS Integers

CONSTANT ReportSteps    \* the report steps of the operations

VARIABLE events

None == -1

Init == events = {}

Add(i)   == events' = events \cup {i}
Clear(i) == events' = {e \in events : e < i}

Next == \E i \in ReportSteps : Add(i) \/ Clear(i)

Spec == Init /\ [][Next]_events

(* The answer of lastRestartEventBefore(i).                                *)
IsLastBefore(e, i) ==
  \/ e \in events /\ e < i /\ \A f \in events : f < i => f <= e
  \/ e = None /\ \A f \in events : f >= i
=============================================================================
