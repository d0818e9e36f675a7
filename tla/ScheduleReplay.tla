--------------------------- MODULE ScheduleReplay ---------------------------
(***************************************************************************)
(* Class Schedule: the sequence of snapshots built from the SCHEDULE       *)
(* section, and its partial rebuilding ("replay") whenever an ACTIONX, a   *)
(* PYACTION script or a direct call changes the input at some report step  *)
(* while the simulation is under way.                                      *)
(*                                                                         *)
(* Every operation truncates the snapshots after the step it changes,      *)
(* appends the new keywords to the block of that step in m_sched_deck and  *)
(* processes all later blocks again, one report step per iteration.        *)
(* Status calls made from a script are batched: they leave the snapshots   *)
(* truncated, and the replay is done once, when the script has ended       *)
(* (SimulatorUpdate::DelayedIteration).                                    *)
(***************************************************************************)
EXTENDS ScheduleState

CONSTANTS
  N,                  \* number of report steps in the deck
  Decks,              \* the decks considered: functions from step to keywords
  KeepKeywords,       \* constructor argument keepKeywords
  OutputInterval,     \* constructor argument output_interval, 0: none
  SolutionOutput,     \* write_rst_file of the SOLUTION section
  RestartStep,        \* report step of the restart file, 0: no restart
  ScriptKeywords,     \* lists of keywords that insert_keywords is called with
  MaxCalls,           \* bound: operations that add keywords in a run
  MixedScripts,       \* may a script mix batched status calls with other calls?
  FutureStatusCalls,  \* may a batched status call name a later report step?
  LateDirectCalls     \* may calls be made outside a script once the run is under way?

Steps == 0 .. N - 1

ASSUME ConstantsAssumption ==
  /\ N \in Nat \ {0}
  /\ RestartStep \in Steps
  /\ \A d \in Decks : DOMAIN d = Steps /\ \A k \in Steps : LegalBlock(d[k])
  /\ \A kws \in ScriptKeywords : Listed(kws, pyaction_allowed_list)
  /\ {MixedScripts, FutureStatusCalls, LateDirectCalls, KeepKeywords, SolutionOutput} \subseteq BOOLEAN
  /\ OutputInterval \in Nat
  /\ MaxCalls \in Nat

VARIABLES
  m_sched_deck,          \* the keywords of every report step
  snapshots,             \* the ScheduleStates built so far; snapshots[i + 1] is step i
  restart_output,        \* report steps with a restart file
  exit_status,           \* has an EXIT keyword been handled?
  current_report_step,   \* set when a PYACTION is run
  delayed_iteration,     \* of simUpdateFromPython
  report_step, load_end, \* the loop of iterateScheduleSection
  mode,                  \* who is in control
  sim,                   \* the report step the simulator has reached
  input,                 \* history: every keyword ever given for each step
  edited,                \* history: steps changed after they had been built
  calls                  \* history: number of operations that added keywords

vars == <<m_sched_deck, snapshots, restart_output, exit_status, current_report_step,
          delayed_iteration, report_step, load_end, mode, sim, input, edited, calls>>

Modes   == {"construct", "driver", "script", "failed", "crashed"}
Delayed == {"Off", "Possible", "On"}

Iterating == report_step < load_end
HasKeyword(name) == \E i \in Steps : \E k \in DOMAIN input[i] : input[i][k].name = name
(* Variant with a fault: the constructor argument is taken as it is. *)
keepKeywordsAsAsked == KeepKeywords

keepKeywords == KeepKeywords \/ HasKeyword("ACTIONX") \/ HasKeyword("PYACTION")
HasExit(kws) == EXIT \in ToSet(kws)

TypeOK ==
  /\ DOMAIN m_sched_deck = Steps
  /\ DOMAIN input = Steps
  /\ snapshots \in Seq(Range(snapshots))
  /\ restart_output \subseteq Steps
  /\ exit_status \in BOOLEAN
  /\ current_report_step \in Steps
  /\ delayed_iteration \in Delayed
  /\ report_step \in 0 .. N
  /\ load_end \in 0 .. N
  /\ mode \in Modes
  /\ sim \in Steps
  /\ edited \subseteq Steps
  /\ calls \in 0 .. MaxCalls

Init ==
  /\ m_sched_deck \in Decks
  /\ input = m_sched_deck
  /\ snapshots = << >>
  /\ restart_output = {}
  /\ exit_status = FALSE
  /\ current_report_step = 0
  /\ delayed_iteration = "Off"
  /\ report_step = 0
  /\ load_end = IF RestartStep = 0 THEN N ELSE RestartStep
  /\ mode = "construct"
  /\ sim = 0
  /\ edited = {}
  /\ calls = 0

-----------------------------------------------------------------------------
(***************************************************************************)
(* iterateScheduleSection                                                  *)
(***************************************************************************)
previous_restart_output_step(out, step) ==
  LET before == {i \in out : i < step} IN IF before = {} THEN 0 ELSE Max(before)

must_write_rst_file(snaps, out, step) ==
  CASE OutputInterval > 0 /\ step > 0 -> step % OutputInterval = 0
    [] step = 0 -> SolutionOutput
    [] OTHER -> rst_file(snaps[step + 1], snaps[step].rst_config,
                         snaps[previous_restart_output_step(out, step) + 1].month)

(* Handlers work on snapshots[report_step]; ACTIONX and WELSPECS add to    *)
(* snapshots.back().  The two differ when the snapshots are not aligned    *)
(* with the report steps.                                                  *)
AddsToBack(kw) == kw.name \in {"ACTIONX", "WELSPECS"}
AddsToStep(kw) == ~AddsToBack(kw)

processStep(snaps, step, kws) ==
  IF Len(snaps) = step
  THEN Append(snaps, processBlock(create(snaps, step), kws))
  ELSE LET old == processBlock(snaps[step + 1], SelectSeq(kws, AddsToStep))
           new == handleKeywords(create(snaps, step), SelectSeq(kws, AddsToBack), {})
       IN Append([snaps EXCEPT ![step + 1] = old], IF IsFailed(old) THEN FAILED ELSE new)

(* An exception leaves the loop; it ends the run. *)
IterationFails ==
  /\ Iterating
  /\ mode \in {"construct", "driver", "script"}
  /\ IsFailed(Last(processStep(snapshots, report_step, m_sched_deck[report_step])))
  /\ mode' = "failed"
  /\ UNCHANGED <<m_sched_deck, snapshots, restart_output, exit_status, current_report_step,
                 delayed_iteration, report_step, load_end, sim, input, edited, calls>>

iterateScheduleSection ==
  /\ Iterating
  /\ mode \in {"construct", "driver", "script"}
  /\ LET kws == m_sched_deck[report_step]
         new == processStep(snapshots, report_step, kws)
     IN /\ ~IsFailed(Last(new))
        /\ snapshots' = new
        /\ exit_status' = (exit_status \/ HasExit(kws))
        /\ restart_output' = IF must_write_rst_file(new, restart_output, report_step)
                             THEN restart_output \cup {report_step} ELSE restart_output
  /\ m_sched_deck' = IF mode = "construct" /\ ~keepKeywords
                     THEN [m_sched_deck EXCEPT ![report_step] = << >>] ELSE m_sched_deck
  /\ report_step' = report_step + 1
  /\ UNCHANGED <<current_report_step, delayed_iteration, load_end, mode, sim, input, edited, calls>>

-----------------------------------------------------------------------------
(***************************************************************************)
(* The constructor: from the deck alone, or with the wells of a restart    *)
(* file loaded into the last snapshot before the restart step.             *)
(***************************************************************************)
load_rst ==
  /\ RestartStep > 0
  /\ mode = "construct"
  /\ ~Iterating
  /\ load_end < N
  /\ snapshots' = [snapshots EXCEPT ![Len(snapshots)] = addRstWells(@)]
  /\ restart_output' = restart_output \cup {RestartStep}
  /\ load_end' = N
  /\ edited' = {RestartStep - 1, RestartStep}
  /\ UNCHANGED <<m_sched_deck, exit_status, current_report_step, delayed_iteration,
                 report_step, mode, sim, input, calls>>

(* Variant with a fault: the restart step does not get the events. *)
constructedUnmerged ==
  /\ mode = "construct"
  /\ ~Iterating
  /\ load_end = N
  /\ mode' = "driver"
  /\ sim' = RestartStep
  /\ UNCHANGED <<m_sched_deck, snapshots, restart_output, exit_status, current_report_step,
                 delayed_iteration, report_step, load_end, input, edited, calls>>

constructed ==
  /\ mode = "construct"
  /\ ~Iterating
  /\ load_end = N
  /\ mode' = "driver"
  /\ snapshots' = IF RestartStep = 0 THEN snapshots
                  ELSE [snapshots EXCEPT ![RestartStep + 1] = mergeEvents(@, snapshots[RestartStep])]
  /\ sim' = RestartStep
  /\ UNCHANGED <<m_sched_deck, restart_output, exit_status, current_report_step,
                 delayed_iteration, report_step, load_end, input, edited, calls>>

-----------------------------------------------------------------------------
(***************************************************************************)
(* New keywords at a report step: the truncation, the new keywords and the *)
(* start of the replay shared by applyAction and applyKeywords.  Growing   *)
(* the snapshots leaves default constructed elements, whose members are    *)
(* null pointers that end_report dereferences.                             *)
(***************************************************************************)
addKeywords(step, kws, matches, is_action, iterate) ==
  LET s   == snapshots[step + 1]
      new == amended(s, kws, matches, is_action)
  IN /\ ~Iterating
     /\ calls < MaxCalls
     /\ calls' = calls + 1
     /\ IF step >= Len(snapshots) \/ IsFailed(new)
        THEN /\ mode' = IF step >= Len(snapshots) THEN "crashed" ELSE "failed"
             /\ UNCHANGED <<m_sched_deck, snapshots, exit_status, report_step, input, edited>>
        ELSE /\ snapshots' = Append(SubSeq(snapshots, 1, step), new)
             /\ m_sched_deck' = [m_sched_deck EXCEPT ![step] = @ \o kws]
             /\ input' = [input EXCEPT ![step] = @ \o kws]
             /\ edited' = {i \in edited : i < step} \cup {step}
             /\ exit_status' = (exit_status \/ HasExit(kws))
             /\ report_step' = IF iterate /\ step < N - 1 THEN step + 1 ELSE N
             /\ mode' = mode
     /\ UNCHANGED <<restart_output, current_report_step, load_end, sim>>

(***************************************************************************)
(* The simulator.                                                          *)
(***************************************************************************)
Advance ==
  /\ mode = "driver"
  /\ ~Iterating
  /\ ~exit_status
  /\ sim < N - 1
  /\ sim' = sim + 1
  /\ UNCHANGED <<m_sched_deck, snapshots, restart_output, exit_status, current_report_step,
                 delayed_iteration, report_step, load_end, mode, input, edited, calls>>

PostStep == mode = "driver" /\ ~Iterating /\ sim > 0 /\ sim < Len(snapshots)

applyAction(act, matches) ==
  /\ PostStep
  /\ act \in DOMAIN snapshots[sim + 1].actions
  /\ matches \subseteq DOMAIN snapshots[sim + 1].wells
  /\ addKeywords(sim, snapshots[sim + 1].actions[act], matches, TRUE, TRUE)
  /\ UNCHANGED delayed_iteration

runPyAction ==
  /\ PostStep
  /\ snapshots[sim + 1].pyaction
  /\ mode' = "script"
  /\ delayed_iteration' = "Possible"
  /\ current_report_step' = sim
  /\ UNCHANGED <<m_sched_deck, snapshots, restart_output, exit_status,
                 report_step, load_end, sim, input, edited, calls>>

(* Variant with a fault: the replay put off by the script is forgotten. *)
pyActionDoneForgetful ==
  /\ mode = "script"
  /\ ~Iterating
  /\ mode' = "driver"
  /\ UNCHANGED <<m_sched_deck, snapshots, restart_output, exit_status, current_report_step,
                 delayed_iteration, report_step, load_end, sim, input, edited, calls>>

pyActionDone ==
  /\ mode = "script"
  /\ ~Iterating
  /\ mode' = "driver"
  /\ report_step' = IF delayed_iteration = "On" /\ sim < N - 1 THEN sim + 1 ELSE N
  /\ UNCHANGED <<m_sched_deck, snapshots, restart_output, exit_status, current_report_step,
                 delayed_iteration, load_end, sim, input, edited, calls>>

(***************************************************************************)
(* Calls from Python: from a script run by runPyAction, or directly on the *)
(* schedule.  The constants state which calls are made.                    *)
(***************************************************************************)
Calling(step) ==
  \/ mode = "script"
  \/ mode = "driver" /\ LateDirectCalls
  \/ mode = "driver" /\ sim = RestartStep /\ step >= sim /\ delayed_iteration = "Off"

(* open_well, stop_well and shut_well: internalWELLSTATUSACTIONXFromPYACTION *)
changeWellStatus(w, status, step) ==
  /\ Calling(step)
  /\ step >= current_report_step
  /\ FutureStatusCalls \/ step = current_report_step \/ delayed_iteration = "Off"
  /\ addKeywords(step, <<WELOPEN(w, status)>>, {}, TRUE, delayed_iteration = "Off")
  /\ delayed_iteration' = IF delayed_iteration # "Off" THEN "On" ELSE "Off"

(* Variants with a fault: no replay, and no check against the past.        *)
insert_keywordsNoReplay(kws, step) ==
  /\ Calling(step)
  /\ step >= current_report_step
  /\ addKeywords(step, kws, {}, FALSE, FALSE)
  /\ UNCHANGED delayed_iteration

insert_keywordsAnyStep(kws, step) ==
  /\ Calling(step)
  /\ MixedScripts \/ step = current_report_step \/ delayed_iteration # "On"
  /\ addKeywords(step, kws, {}, FALSE, TRUE)
  /\ delayed_iteration' = IF step < N - 1 THEN "Off" ELSE delayed_iteration

insert_keywords(kws, step) ==
  /\ Calling(step)
  /\ step >= current_report_step
  /\ MixedScripts \/ step = current_report_step \/ delayed_iteration # "On"
  /\ addKeywords(step, kws, {}, FALSE, TRUE)
  /\ delayed_iteration' = IF step < N - 1 THEN "Off" ELSE delayed_iteration

actionx_callback(act, names) ==
  /\ mode = "script"
  /\ MixedScripts \/ delayed_iteration # "On"
  /\ sim < Len(snapshots)
  /\ act \in DOMAIN snapshots[sim + 1].actions
  /\ addKeywords(sim, snapshots[sim + 1].actions[act],
                 names \cap DOMAIN snapshots[sim + 1].wells, TRUE, TRUE)
  /\ UNCHANGED delayed_iteration

ActionNames == UNION {DOMAIN s.actions : s \in Range(snapshots)}

Next ==
  \/ iterateScheduleSection
  \/ IterationFails
  \/ load_rst
  \/ constructed
  \/ Advance
  \/ \E act \in ActionNames, m \in SUBSET Wells : applyAction(act, m)
  \/ runPyAction
  \/ pyActionDone
  \/ \E w \in Wells, st \in WellStatus, i \in Steps : changeWellStatus(w, st, i)
  \/ \E kws \in ScriptKeywords, i \in Steps : insert_keywords(kws, i)
  \/ \E act \in ActionNames, m \in SUBSET Wells : actionx_callback(act, m)

Spec == Init /\ [][Next]_vars

(* The loop of iterateScheduleSection is sequential code that is not       *)
(* interrupted, and a script comes to an end.                              *)
FairSpec ==
  /\ Spec
  /\ WF_vars(iterateScheduleSection \/ IterationFails)
  /\ WF_vars(load_rst \/ constructed)
  /\ WF_vars(pyActionDone)

-----------------------------------------------------------------------------
(***************************************************************************)
(* Properties                                                              *)
(***************************************************************************)

(* No operation makes the snapshots grow with default constructed states:  *)
(* vector::resize(reportStep + 1) in applyAction and applyKeywords is only *)
(* ever a truncation.                                                      *)
NeverBlank == mode # "crashed"

(* A blank state comes from a batched call only: the snapshots grow when   *)
(* the call before has left them truncated, its replay still being due.    *)
(* Whatever calls are made, also mixed in a script and directly on the     *)
(* schedule, the flag or a script begun over such a call says so.          *)
Batched == delayed_iteration = "On" \/ (LateDirectCalls /\ delayed_iteration = "Possible")
BlankNeedsBatch == [][mode # "crashed" /\ mode' = "crashed" => Batched]_vars

(* Whenever the simulator is in control the schedule has one snapshot for  *)
(* every report step: each truncation is followed by the replay it needs,  *)
(* also when the replay is put off to the end of a script.                 *)
SnapshotsComplete == mode = "driver" /\ ~Iterating => Len(snapshots) = N

(* A truncated schedule is always made whole again, or the run fails: the  *)
(* replay that a script puts off is not forgotten on any way out of it.    *)
ReplayFollows == Len(snapshots) < N ~> (Len(snapshots) = N \/ mode \in {"failed", "crashed"})

(* Nothing given for a report step is forgotten and nothing is handled     *)
(* twice: every snapshot that was not itself edited is its predecessor     *)
(* taken through all the keywords ever given for its step, whichever       *)
(* replays, batched calls and insertions led to it.                        *)
Coherent ==
  \A i \in DOMAIN snapshots :
    i - 1 \notin edited =>
      snapshots[i] = processBlock(IF i = 1 THEN create_first
                                           ELSE create_next(snapshots[i - 1], i - 1),
                                  input[i - 1])

(* A replay never rewrites the past: once the simulator has reached a      *)
(* report step, the snapshots of the steps before it keep their value.     *)
HistoryFixed ==
  [][sim > 0 => \A i \in 1 .. sim : /\ i \in DOMAIN snapshots'
                                    /\ snapshots'[i] = snapshots[i]]_vars

(* What the check against the past refuses stays as it is: whatever calls  *)
(* are made, and wherever the replays they start or put off begin, no step *)
(* before that of the latest PYACTION changes or is lost.                  *)
RefusedStepsFixed ==
  [][\A i \in 1 .. current_report_step : /\ i \in DOMAIN snapshots'
                                         /\ snapshots'[i] = snapshots[i]]_vars

(* A replay asks for the same restart files again: after construction the  *)
(* set of report steps with restart output no longer changes, although     *)
(* iterateScheduleSection evaluates it anew for every step it replays.     *)
RestartOutputStable == [][mode # "construct" => restart_output' = restart_output]_vars

(* The wells of the restart file are entered in the last snapshot before   *)
(* the restart step only, not in the deck: no replay may start so early    *)
(* that it loses them.                                                     *)
RestartWellsKept ==
  load_end = N /\ RestartStep > 0 =>
    \A i \in DOMAIN snapshots : i >= RestartStep => DOMAIN RstWells \subseteq DOMAIN snapshots[i].wells
=============================================================================
