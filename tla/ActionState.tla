---------------------------- MODULE ActionState ----------------------------
(***************************************************************************)
(* Which ACTIONX and PYACTION may run.  Action::Actions holds the current  *)
(* definitions, Action::State how often and when each has run; readiness   *)
(* is decided from both.  At the end of a report step the pending actions  *)
(* are collected first and then run one by one, the ACTIONX before the     *)
(* scripts.  A definition may be replaced at a later report step, and the  *)
(* run may be continued from a restart file.                               *)
(***************************************************************************)
EXTENDS Integers, Sequences, SequencesExt, Functions

CONSTANTS
  ActionNames,     \* names of the ACTIONX
  MaxRuns,         \* values of item NUM in the deck
  MinWaits,        \* values of item MIN_WAIT
  Scripts,         \* names of the PYACTION
  RunCount,        \* RunCount[p]: the second item of PYACTION p
  Wells,
  RecordsRuns,     \* does the simulator call add_run for an ACTIONX? (msim does not)
  EndTime,         \* bound: the last report step
  MaxId,           \* bound: redefinitions of an action
  MaxRestarts      \* bound: restarts in a behaviour

ASSUME ActionConstants ==
  /\ MaxRuns \subseteq Nat /\ MinWaits \subseteq Nat
  /\ RunCount \in [Scripts -> {"single", "unlimited", "first_true"}]
  /\ RecordsRuns \in BOOLEAN
  /\ EndTime \in Nat /\ MaxId \in Nat /\ MaxRestarts \in Nat

VARIABLES
  actions_,         \* the definition of every ACTIONX known by now
  pyactions_,       \* the scripts known by now
  run_state,        \* run_state[<<name, id>>]: run_count and last_run
  last_result,      \* the wells matched, by action name
  m_python_result,  \* the last result of every script
  sim_time,         \* the current report step
  phase,            \* what the simulator is doing at this report step
  pending,          \* the actions, then the scripts, still to be evaluated
  restarts,         \* history: number of restarts
  history,          \* history[n]: run times of the current definition of n
  py_history        \* history: the results of every script since it was defined

vars == <<actions_, pyactions_, run_state, last_result, m_python_result, sim_time,
          phase, pending, restarts, history, py_history>>

Times == 0 .. EndTime
Empty == [x \in {} |-> 0]
With(f, x, value) == [y \in DOMAIN f \cup {x} |-> IF y = x THEN value ELSE f[y]]

TypeOK ==
  /\ DOMAIN actions_ \subseteq ActionNames
  /\ \A n \in DOMAIN actions_ :
       actions_[n] \in [id : 0 .. MaxId, max_run : MaxRuns, min_wait : MinWaits, start_time : Times]
  /\ pyactions_ \subseteq Scripts
  /\ DOMAIN run_state \subseteq ActionNames \X (0 .. MaxId)
  /\ \A k \in DOMAIN run_state : run_state[k] \in [run_count : Nat \ {0}, last_run : Times]
  /\ DOMAIN last_result \subseteq ActionNames
  /\ \A n \in DOMAIN last_result : last_result[n] \in SUBSET Wells
  /\ DOMAIN m_python_result \subseteq Scripts
  /\ \A p \in DOMAIN m_python_result : m_python_result[p] \in BOOLEAN
  /\ sim_time \in Times
  /\ phase \in {"start", "output", "input", "actions", "scripts", "done"}
  /\ pending \in SUBSET (ActionNames \cup Scripts)
  /\ restarts \in 0 .. MaxRestarts
  /\ history \in [ActionNames -> Seq(Times)]

-----------------------------------------------------------------------------
(***************************************************************************)
(* Readiness                                                               *)
(***************************************************************************)
makeID(n) == <<n, actions_[n].id>>

run_count(n) == IF makeID(n) \in DOMAIN run_state THEN run_state[makeID(n)].run_count ELSE 0

run_time(n) == run_state[makeID(n)].last_run

(* Variant with a fault: one run too many. *)
readyOnceMore(n) ==
  /\ run_count(n) <= actions_[n].max_run
  /\ sim_time >= actions_[n].start_time
  /\ \/ run_count(n) = 0
     \/ actions_[n].min_wait <= 0
     \/ sim_time - run_time(n) >= actions_[n].min_wait

ready(n) ==
  /\ run_count(n) < actions_[n].max_run
  /\ sim_time >= actions_[n].start_time
  /\ \/ run_count(n) = 0
     \/ actions_[n].min_wait <= 0
     \/ sim_time - run_time(n) >= actions_[n].min_wait

(* Variant with a fault: every script is asked until it returns true. *)
pyReadyUntilTrue(p) ==
  \/ RunCount[p] = "unlimited"
  \/ p \notin DOMAIN m_python_result
  \/ ~m_python_result[p]

pyReady(p) ==
  \/ RunCount[p] = "unlimited"
  \/ p \notin DOMAIN m_python_result
  \/ RunCount[p] = "first_true" /\ ~m_python_result[p]

-----------------------------------------------------------------------------
Init ==
  /\ actions_ = Empty
  /\ pyactions_ = {}
  /\ run_state = Empty
  /\ last_result = Empty
  /\ m_python_result = Empty
  /\ sim_time = 0
  /\ phase = "start"
  /\ pending = {}
  /\ restarts = 0
  /\ history = [n \in ActionNames |-> << >>]
  /\ py_history = [p \in Scripts |-> << >>]

(***************************************************************************)
(* Actions::add while a report step's keywords are processed: a new        *)
(* definition of a known action gets the next id.                          *)
(***************************************************************************)
(* Variant with a fault: the definition replaces the old one and its id. *)
addSameId(n, max_run, min_wait) ==
  /\ phase \in {"start", "input"}
  /\ actions_' = With(actions_, n,
       [id |-> 0, max_run |-> max_run, min_wait |-> min_wait, start_time |-> sim_time])
  /\ history' = [history EXCEPT ![n] = << >>]
  /\ UNCHANGED <<pyactions_, run_state, last_result, m_python_result, sim_time, phase,
                 pending, restarts, py_history>>

add(n, max_run, min_wait) ==
  /\ phase \in {"start", "input"}
  /\ n \in DOMAIN actions_ => actions_[n].id < MaxId
  /\ actions_' = With(actions_, n,
       [id         |-> IF n \in DOMAIN actions_ THEN actions_[n].id + 1 ELSE 0,
        max_run    |-> max_run,
        min_wait   |-> min_wait,
        start_time |-> sim_time])
  /\ history' = [history EXCEPT ![n] = << >>]
  /\ UNCHANGED <<pyactions_, run_state, last_result, m_python_result, sim_time, phase,
                 pending, restarts, py_history>>

(* A script defined again replaces the first one of its name; the result   *)
(* is kept by name and stays.                                              *)
addPy(p) ==
  /\ phase \in {"start", "input"}
  /\ pyactions_' = pyactions_ \cup {p}
  /\ UNCHANGED <<actions_, run_state, last_result, m_python_result, sim_time, phase,
                 pending, restarts, history, py_history>>

(***************************************************************************)
(* The end of a report step (msim::post_step): the pending actions are     *)
(* those ready before the first of them runs.                              *)
(***************************************************************************)
collectActions ==
  /\ phase = "input"
  /\ phase' = "actions"
  /\ pending' = {n \in DOMAIN actions_ : ready(n)}
  /\ UNCHANGED <<actions_, pyactions_, run_state, last_result, m_python_result, sim_time,
                 restarts, history, py_history>>

(* Variant with a fault: a run is recorded with the time of the first one. *)
recordedFirstTime(n) ==
  With(run_state, makeID(n),
       [run_count |-> run_count(n) + 1,
        last_run  |-> IF run_count(n) = 0 THEN sim_time ELSE run_time(n)])

recorded(n) == With(run_state, makeID(n), [run_count |-> run_count(n) + 1, last_run |-> sim_time])

(* The condition of the action holds, for these wells: it is applied, and  *)
(* the simulator records the run with State::add_run.                      *)
add_run(n, wells) ==
  /\ phase = "actions"
  /\ n \in pending
  /\ pending' = pending \ {n}
  /\ run_state' = IF RecordsRuns THEN recorded(n) ELSE run_state
  /\ last_result' = IF RecordsRuns /\ wells # {} THEN With(last_result, n, wells) ELSE last_result
  /\ history' = [history EXCEPT ![n] = Append(@, sim_time)]
  /\ UNCHANGED <<actions_, pyactions_, m_python_result, sim_time, phase, restarts, py_history>>

conditionFails(n) ==
  /\ phase = "actions"
  /\ n \in pending
  /\ pending' = pending \ {n}
  /\ UNCHANGED <<actions_, pyactions_, run_state, last_result, m_python_result, sim_time,
                 phase, restarts, history, py_history>>

collectScripts ==
  /\ phase = "actions"
  /\ pending = {}
  /\ phase' = "scripts"
  /\ pending' = {p \in pyactions_ : pyReady(p)}
  /\ UNCHANGED <<actions_, pyactions_, run_state, last_result, m_python_result, sim_time,
                 restarts, history, py_history>>

runPyAction(p, result) ==
  /\ phase = "scripts"
  /\ p \in pending
  /\ pending' = pending \ {p}
  /\ m_python_result' = With(m_python_result, p, result)
  /\ py_history' = [py_history EXCEPT ![p] = Append(@, result)]
  /\ UNCHANGED <<actions_, pyactions_, run_state, last_result, sim_time, phase,
                 restarts, history>>

postStepDone ==
  /\ phase = "scripts"
  /\ pending = {}
  /\ phase' = "done"
  /\ UNCHANGED <<actions_, pyactions_, run_state, last_result, m_python_result, sim_time,
                 pending, restarts, history, py_history>>

nextReportStep ==
  /\ phase \in {"start", "done"}
  /\ sim_time < EndTime
  /\ sim_time' = sim_time + 1
  /\ phase' = "output"
  /\ UNCHANGED <<actions_, pyactions_, run_state, last_result, m_python_result,
                 pending, restarts, history, py_history>>

(***************************************************************************)
(* The restart file of a report step is written before the keywords and    *)
(* the actions of that step (msim::run_step, sim_step = report_step - 1).  *)
(***************************************************************************)
written ==
  /\ phase = "output"
  /\ phase' = "input"
  /\ UNCHANGED <<actions_, pyactions_, run_state, last_result, m_python_result, sim_time,
                 pending, restarts, history, py_history>>

(***************************************************************************)
(* A run continued from that file.  It holds a run count and a last run    *)
(* time for every ACTIONX; loading it creates the actions anew and adds    *)
(* one run for each that has run.  Scripts and matched wells are not in    *)
(* the file, and the PYACTIONs before the restart step are skipped.        *)
(***************************************************************************)
restart ==
  /\ phase = "output"
  /\ restarts < MaxRestarts
  /\ restarts' = restarts + 1
  /\ phase' = "start"
  /\ actions_' = [n \in DOMAIN actions_ |->
                    [actions_[n] EXCEPT !.id = 0, !.start_time = sim_time]]
  /\ run_state' = [k \in {<<n, 0>> : n \in {m \in DOMAIN actions_ : run_count(m) > 0}} |->
                     [run_count |-> 1, last_run |-> run_time(k[1])]]
  /\ last_result' = Empty
  /\ pyactions_' = {}
  /\ m_python_result' = Empty
  /\ py_history' = [p \in Scripts |-> << >>]
  /\ UNCHANGED <<sim_time, pending, history>>

Next ==
  \/ \E n \in ActionNames, m \in MaxRuns, w \in MinWaits : add(n, m, w)
  \/ \E p \in Scripts : addPy(p)
  \/ collectActions
  \/ \E n \in ActionNames, wells \in SUBSET Wells : add_run(n, wells)
  \/ \E n \in ActionNames : conditionFails(n)
  \/ collectScripts
  \/ \E p \in Scripts, result \in BOOLEAN : runPyAction(p, result)
  \/ postStepDone
  \/ nextReportStep
  \/ written
  \/ restart

Spec == Init /\ [][Next]_vars

-----------------------------------------------------------------------------
(***************************************************************************)
(* Properties                                                              *)
(***************************************************************************)
(* Without a restart no definition of an action runs more often than its   *)
(* item NUM allows, whatever definitions of the same name came before it   *)
(* and however many actions are pending at the end of a report step.       *)
RunsWithinLimit ==
  restarts = 0 => \A n \in DOMAIN actions_ : Len(history[n]) <= actions_[n].max_run

(* Two runs of a definition are at least MIN_WAIT apart, also when the run *)
(* was restarted between them.                                             *)
MinWaitRespected ==
  \A n \in DOMAIN actions_ : \A i \in 1 .. Len(history[n]) - 1 :
    history[n][i + 1] - history[n][i] >= actions_[n].min_wait

(* What is recorded under the name and id of a definition are its own      *)
(* runs and never those of an earlier definition of the name: all of them, *)
(* after a restart whether there were any, and always when the last was.   *)
OwnRunsCounted ==
  \A n \in DOMAIN actions_ :
    /\ run_count(n) = 0 <=> history[n] = << >>
    /\ run_count(n) <= Len(history[n])
    /\ restarts = 0 => run_count(n) = Len(history[n])
    /\ history[n] # << >> => run_time(n) = Last(history[n])

(* A SINGLE script runs once, a FIRST_TRUE script until it first returns   *)
(* true and not again.                                                     *)
ScriptsStop ==
  \A p \in Scripts :
    /\ RunCount[p] = "single" => Len(py_history[p]) <= 1
    /\ RunCount[p] = "first_true" =>
         \A i \in DOMAIN py_history[p] : py_history[p][i] => i = Len(py_history[p])

(* The first wait counts from the start time of the definition, the later  *)
(* ones from the last run.                                                 *)
FirstWaitKept ==
  \A n \in DOMAIN actions_ :
    restarts = 0 /\ history[n] # << >> =>
      history[n][1] - actions_[n].start_time >= actions_[n].min_wait

(* Zero runs in the item NUM mean no limit: such an action is ready again  *)
(* whenever its wait, from its start or its last run, is over.             *)
ZeroIsUnlimited ==
  \A n \in DOMAIN actions_ :
    LET since == IF history[n] = << >> THEN actions_[n].start_time ELSE Last(history[n])
    IN actions_[n].max_run = 0 /\ sim_time - since >= actions_[n].min_wait => ready(n)

(* The item NUM limits an action over the whole simulation: the restart    *)
(* file carries the run count.                                             *)
LimitAcrossRestart ==
  \A n \in DOMAIN actions_ : Len(history[n]) <= actions_[n].max_run
=============================================================================
