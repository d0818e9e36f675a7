--------------------------- MODULE WellTestState ---------------------------
(***************************************************************************)
(* Periodic testing of closed wells.  The keyword WTEST says per well for  *)
(* which reasons of closing it is to be tested, at which interval and how  *)
(* often (0: without limit); WellTestState remembers why and when each     *)
(* well was closed and counts the tests.  The count belongs to a           *)
(* configuration, told from a later one by the report step at which that   *)
(* begins, and survives the opening and closing of the well.  WTEST is     *)
(* given in the input or, from the actions of ACTIONX, during the report   *)
(* step under way: two configurations may then begin with the same step.   *)
(* Both are written to the restart file and read back from it.             *)
(*                                                                         *)
(* The simulator, which is not part of the repository, closes and opens    *)
(* wells and completions at any time and asks test_wells which wells to    *)
(* test.  Time is counted in whole units from the start of the run; the    *)
(* startup time and the times of the completions are not modelled.         *)
(***************************************************************************)
EXTENDS Integers, FiniteSets

CONSTANTS
  Wells,
  Complnums,      \* numbers of completions
  WTests,         \* sets of reasons given by a WTEST
  Intervals,
  NumTests,
  EndTime,        \* bound: the length of the run
  EndStep,        \* bound: the last report step
  MaxRestarts     \* bound: restarts in a behaviour

ConfigReasons == {"PHYSICAL", "ECONOMIC", "GROUP", "THP_DESIGN", "COMPLETION"}
Reasons == {"NONE", "PHYSICAL", "ECONOMIC", "GROUP", "THP_DESIGN"}

ASSUME WTestConstants ==
  /\ WTests \subseteq SUBSET ConfigReasons
  /\ Intervals \subseteq Nat /\ NumTests \subseteq Nat
  /\ EndTime \in Nat /\ EndStep \in Nat /\ MaxRestarts \in Nat

VARIABLES
  wtest_config,  \* the configuration of every well that has one
  wells,         \* what is remembered of every well that has been closed
  completions,   \* the closed completions of every well that has some
  report_step,
  sim_time,
  phase,         \* output of a report step, its keywords, or simulation
  restarts,      \* history: number of restarts
  limit,         \* history: TEST_NUM of the last WTEST of a well
  used,          \* history: tests of a well since its last WTEST or since clear()
  began,         \* history: the report step of the last WTEST of a well
  carried,       \* history: its tests under earlier WTESTs of that report step
  last_event,    \* history: when a well was last closed or tested
  waited,        \* history: how long it had waited at its last test, and had to
  freed          \* history: wells restarted with no test left

vars == <<wtest_config, wells, completions, report_step, sim_time, phase,
          restarts, limit, used, began, carried, last_event, waited, freed>>

NotSet == -1
Empty == [x \in {} |-> 0]
With(f, x, value) == [y \in DOMAIN f \cup {x} |-> IF y = x THEN value ELSE f[y]]
Without(f, S) == [y \in DOMAIN f \ S |-> f[y]]

Times == 0 .. EndTime

TypeOK ==
  /\ DOMAIN wtest_config \subseteq Wells
  /\ \A w \in DOMAIN wtest_config :
       wtest_config[w] \in [reasons : SUBSET ConfigReasons, test_interval : Nat,
                            num_test : Int, begin_report_step : 0 .. EndStep]
  /\ DOMAIN wells \subseteq Wells
  /\ \A w \in DOMAIN wells :
       wells[w] \in [reason : Reasons, last_test : -EndTime .. EndTime, num_attempt : Nat,
                     closed : BOOLEAN, wtest_report_step : NotSet .. EndStep]
  /\ DOMAIN completions \subseteq Wells
  /\ \A w \in DOMAIN completions : completions[w] \in (SUBSET Complnums) \ {{}}
  /\ report_step \in 0 .. EndStep
  /\ sim_time \in Times
  /\ phase \in {"output", "input", "simulate"}
  /\ restarts \in 0 .. MaxRestarts
  /\ limit \in [Wells -> Nat]
  /\ used \in [Wells -> Nat]
  /\ began \in [Wells -> NotSet .. EndStep]
  /\ carried \in [Wells -> Nat]
  /\ last_event \in [Wells -> Times]
  /\ waited \in [Wells -> [after : Nat, interval : Nat]]
  /\ freed \subseteq Wells

Init ==
  /\ wtest_config = Empty
  /\ wells = Empty
  /\ completions = Empty
  /\ report_step = 0
  /\ sim_time = 0
  /\ phase = "input"
  /\ restarts = 0
  /\ limit = [w \in Wells |-> 0]
  /\ used = [w \in Wells |-> 0]
  /\ began = [w \in Wells |-> NotSet]
  /\ carried = [w \in Wells |-> 0]
  /\ last_event = [w \in Wells |-> 0]
  /\ waited = [w \in Wells |-> [after |-> 0, interval |-> 0]]
  /\ freed = {}

-----------------------------------------------------------------------------
(***************************************************************************)
(* The keyword WTEST, in the input of a report step or from an action      *)
(* while the step is simulated                                             *)
(***************************************************************************)
add_well(w, reasons, interval, num_test) ==
  /\ phase \in {"input", "simulate"}
  /\ wtest_config' = With(wtest_config, w,
       [reasons           |-> reasons,
        test_interval     |-> interval,
        num_test          |-> num_test,
        begin_report_step |-> report_step])
  /\ limit' = [limit EXCEPT ![w] = num_test]
  /\ used' = [used EXCEPT ![w] = 0]
  /\ began' = [began EXCEPT ![w] = report_step]
  /\ carried' = [carried EXCEPT ![w] = IF began[w] = report_step THEN @ + used[w] ELSE 0]
  /\ freed' = freed \ {w}
  /\ UNCHANGED <<wells, completions, report_step, sim_time, phase, restarts, last_event, waited>>

(* WTEST without reasons ends the testing. *)
drop_well(w) ==
  /\ phase \in {"input", "simulate"}
  /\ wtest_config' = Without(wtest_config, {w})
  /\ UNCHANGED <<wells, completions, report_step, sim_time, phase, restarts, limit, used,
                 began, carried, last_event, waited, freed>>

simulate ==
  /\ phase = "input"
  /\ phase' = "simulate"
  /\ UNCHANGED <<wtest_config, wells, completions, report_step, sim_time, restarts, limit, used,
                 began, carried, last_event, waited, freed>>

-----------------------------------------------------------------------------
(***************************************************************************)
(* Calls of the simulator                                                  *)
(***************************************************************************)
WTestWell(reason, time) ==
  [reason |-> reason, last_test |-> time, num_attempt |-> 0,
   closed |-> TRUE, wtest_report_step |-> NotSet]

(* Variant with a fault: a closed well is always a new entry. *)
close_wellAnew(w, reason) ==
  /\ phase = "simulate"
  /\ wells' = With(wells, w, WTestWell(reason, sim_time))
  /\ last_event' = [last_event EXCEPT ![w] = sim_time]
  /\ UNCHANGED <<wtest_config, completions, report_step, sim_time, phase, restarts, limit, used,
                 began, carried, waited, freed>>

close_well(w, reason) ==
  /\ phase = "simulate"
  /\ wells' = With(wells, w,
       IF w \in DOMAIN wells
       THEN [wells[w] EXCEPT !.closed = TRUE, !.last_test = sim_time, !.reason = reason]
       ELSE WTestWell(reason, sim_time))
  /\ last_event' = [last_event EXCEPT ![w] = sim_time]
  /\ UNCHANGED <<wtest_config, completions, report_step, sim_time, phase, restarts, limit, used,
                 began, carried, waited, freed>>

Opened(S) == [w \in DOMAIN wells |-> IF w \in S THEN [wells[w] EXCEPT !.closed = FALSE] ELSE wells[w]]

open_well(w) ==
  /\ phase = "simulate"
  /\ w \in DOMAIN wells
  /\ wells' = Opened({w})
  /\ UNCHANGED <<wtest_config, completions, report_step, sim_time, phase, restarts, limit, used,
                 began, carried, last_event, waited, freed>>

filter_wells(existing) ==
  /\ phase = "simulate"
  /\ wells' = Opened(Wells \ existing)
  /\ UNCHANGED <<wtest_config, completions, report_step, sim_time, phase, restarts, limit, used,
                 began, carried, last_event, waited, freed>>

has(w, reason) == w \in DOMAIN wtest_config /\ reason \in wtest_config[w].reasons

test_well(config, num_attempt, elapsed) ==
  /\ num_attempt < config.num_test \/ config.num_test = 0
  /\ elapsed >= config.test_interval

(* The wells whose entries test_wells looks at. *)
Considered == {w \in DOMAIN wells : wells[w].closed /\ has(w, wells[w].reason)}

(* Does the count belong to an earlier configuration?                      *)
(* Variant with a fault: a later configuration goes unnoticed. *)
OutdatedNever(w) == FALSE

Outdated(w) ==
  /\ wells[w].wtest_report_step # NotSet
  /\ wtest_config[w].begin_report_step > wells[w].wtest_report_step

Attempts(w) == IF Outdated(w) THEN 0 ELSE wells[w].num_attempt

Due == {w \in Considered : test_well(wtest_config[w], Attempts(w), sim_time - wells[w].last_test)}

(* Variant with a fault: the time of the test is not kept. *)
testedUntimed(w) ==
  [wells[w] EXCEPT
     !.wtest_report_step = IF @ = NotSet \/ Outdated(w) THEN wtest_config[w].begin_report_step ELSE @,
     !.num_attempt = Attempts(w) + (IF w \in Due THEN 1 ELSE 0)]

tested(w) ==
  [wells[w] EXCEPT
     !.wtest_report_step = IF @ = NotSet \/ Outdated(w) THEN wtest_config[w].begin_report_step ELSE @,
     !.num_attempt = Attempts(w) + (IF w \in Due THEN 1 ELSE 0),
     !.last_test = IF w \in Due THEN sim_time ELSE @]

test_wells ==
  /\ phase = "simulate"
  /\ wells' = [w \in DOMAIN wells |-> IF w \in Considered THEN tested(w) ELSE wells[w]]
  /\ used' = [w \in Wells |-> IF w \in Due THEN used[w] + 1 ELSE used[w]]
  /\ last_event' = [w \in Wells |-> IF w \in Due THEN sim_time ELSE last_event[w]]
  /\ waited' = [w \in Wells |-> IF w \in Due
                                THEN [after    |-> sim_time - last_event[w],
                                      interval |-> wtest_config[w].test_interval]
                                ELSE waited[w]]
  /\ UNCHANGED <<wtest_config, completions, report_step, sim_time, phase, restarts, limit,
                 began, carried, freed>>

(* The counts are forgotten with the wells. *)
clear ==
  /\ phase = "simulate"
  /\ wells' = Empty
  /\ completions' = Empty
  /\ used' = [w \in Wells |-> 0]
  /\ carried' = [w \in Wells |-> 0]
  /\ UNCHANGED <<wtest_config, report_step, sim_time, phase, restarts, limit, began,
                 last_event, waited, freed>>

-----------------------------------------------------------------------------
(***************************************************************************)
(* Completions                                                             *)
(***************************************************************************)
ClosedCompletions(w) == IF w \in DOMAIN completions THEN completions[w] ELSE {}

close_completion(w, complnum) ==
  /\ phase = "simulate"
  /\ completions' = With(completions, w, ClosedCompletions(w) \cup {complnum})
  /\ UNCHANGED <<wtest_config, wells, report_step, sim_time, phase, restarts, limit, used,
                 began, carried, last_event, waited, freed>>

reopened(w, complnum) ==
  IF ClosedCompletions(w) \subseteq {complnum} THEN Without(completions, {w})
  ELSE With(completions, w, completions[w] \ {complnum})

open_completion(w, complnum) ==
  /\ phase = "simulate"
  /\ completions' = reopened(w, complnum)
  /\ UNCHANGED <<wtest_config, wells, report_step, sim_time, phase, restarts, limit, used,
                 began, carried, last_event, waited, freed>>

open_completions(w) ==
  /\ phase = "simulate"
  /\ completions' = Without(completions, {w})
  /\ UNCHANGED <<wtest_config, wells, report_step, sim_time, phase, restarts, limit, used,
                 began, carried, last_event, waited, freed>>

-----------------------------------------------------------------------------
(***************************************************************************)
(* Time                                                                    *)
(***************************************************************************)
nextTimeStep ==
  /\ phase = "simulate"
  /\ sim_time < EndTime
  /\ sim_time' = sim_time + 1
  /\ UNCHANGED <<wtest_config, wells, completions, report_step, phase, restarts, limit, used,
                 began, carried, last_event, waited, freed>>

nextReportStep ==
  /\ phase = "simulate"
  /\ report_step < EndStep
  /\ report_step' = report_step + 1
  /\ phase' = "output"
  /\ UNCHANGED <<wtest_config, wells, completions, sim_time, restarts, limit, used,
                 began, carried, last_event, waited, freed>>

written ==
  /\ phase = "output"
  /\ phase' = "input"
  /\ UNCHANGED <<wtest_config, wells, completions, report_step, sim_time, restarts, limit, used,
                 began, carried, last_event, waited, freed>>

-----------------------------------------------------------------------------
(***************************************************************************)
(* The restart file: for every well with a configuration the reasons as a  *)
(* product of primes, the reason of closing as a code, 0 for an open well, *)
(* and the number of tests left, plus one.                                 *)
(***************************************************************************)
Prime(reason) ==
  CASE reason = "PHYSICAL"   -> 2
    [] reason = "ECONOMIC"   -> 3
    [] reason = "GROUP"      -> 5
    [] reason = "THP_DESIGN" -> 7
    [] reason = "COMPLETION" -> 11

Factor(reasons, reason) == IF reason \in reasons THEN Prime(reason) ELSE 1

(* Variant with a fault: the codes of closing are used for the configuration. *)
ecl_reasonsMixed(reasons) ==
  Factor(reasons, "PHYSICAL") * Factor(reasons, "ECONOMIC") * Factor(reasons, "GROUP")
    * (IF "THP_DESIGN" \in reasons THEN 9 ELSE 1) * Factor(reasons, "COMPLETION")

ecl_reasons(reasons) ==
  Factor(reasons, "PHYSICAL") * Factor(reasons, "ECONOMIC") * Factor(reasons, "GROUP")
    * Factor(reasons, "THP_DESIGN") * Factor(reasons, "COMPLETION")

inverse_ecl_reasons(value) == {r \in ConfigReasons : value % Prime(r) = 0}

CloseReason(reason) ==
  CASE reason = "NONE"       -> 1
    [] reason = "PHYSICAL"   -> 3
    [] reason = "ECONOMIC"   -> 5
    [] reason = "GROUP"      -> 6
    [] reason = "THP_DESIGN" -> 9

int_reason(w) == IF wells[w].closed THEN CloseReason(wells[w].reason) ELSE 0

inverse_ecl_reason(code) == CHOOSE r \in Reasons : CloseReason(r) = code

restart_well(w) ==
  LET known == w \in DOMAIN wells
  IN [test_interval  |-> wtest_config[w].test_interval,
      num_test       |-> wtest_config[w].num_test + 1 - (IF known THEN wells[w].num_attempt ELSE 0),
      config_reasons |-> ecl_reasons(wtest_config[w].reasons),
      close_reason   |-> IF known THEN int_reason(w) ELSE 0]

(***************************************************************************)
(* Continuing from it.  The configuration begins with the step before the  *)
(* restart; a well that was closed gets start_time minus the time of the   *)
(* restart for the time of its last test.                                  *)
(***************************************************************************)
RestoredConfig ==
  [w \in DOMAIN wtest_config |->
     [reasons           |-> inverse_ecl_reasons(restart_well(w).config_reasons),
      test_interval     |-> restart_well(w).test_interval,
      num_test          |-> restart_well(w).num_test - 1,
      begin_report_step |-> report_step - 1]]

RestoredWells ==
  [w \in {v \in DOMAIN wtest_config : restart_well(v).close_reason # 0} |->
     WTestWell(inverse_ecl_reason(restart_well(w).close_reason), 0 - sim_time)]

restart ==
  /\ phase = "output"
  /\ restarts < MaxRestarts
  /\ restarts' = restarts + 1
  /\ wtest_config' = RestoredConfig
  /\ wells' = RestoredWells
  /\ completions' = Empty
  /\ freed' = freed \cup {w \in DOMAIN wtest_config : restart_well(w).num_test = 1}
  /\ phase' = "input"
  /\ UNCHANGED <<report_step, sim_time, limit, used, began, carried, last_event, waited>>

Next ==
  \/ \E w \in Wells :
       \/ \E reasons \in WTests, i \in Intervals, n \in NumTests : add_well(w, reasons, i, n)
       \/ drop_well(w)
       \/ \E r \in Reasons : close_well(w, r)
       \/ open_well(w)
       \/ \E c \in Complnums : close_completion(w, c) \/ open_completion(w, c)
       \/ open_completions(w)
  \/ \E existing \in SUBSET Wells : filter_wells(existing)
  \/ test_wells
  \/ clear
  \/ simulate
  \/ nextTimeStep
  \/ nextReportStep
  \/ written
  \/ restart

Spec == Init /\ [][Next]_vars

-----------------------------------------------------------------------------
(***************************************************************************)
(* Properties                                                              *)
(***************************************************************************)
(* A well is not tested more often than its last WTEST allows, however it  *)
(* is opened, closed for other reasons and reconfigured, and over a        *)
(* restart, unless the restart found no test left: the file then says 0,   *)
(* which means no limit.                                                   *)
LimitKept ==
  \A w \in Wells \ freed : limit[w] # 0 => used[w] <= limit[w]

(* A well is not tested before the interval since it was closed or tested  *)
(* is over, in a run that is not restarted.                                *)
IntervalKept ==
  restarts = 0 => \A w \in Wells : waited[w].after >= waited[w].interval

(* The same over a restart.                                                *)
IntervalAcrossRestart ==
  \A w \in Wells : waited[w].after >= waited[w].interval

(* A closed well that has waited long enough and has tests left is due, in *)
(* a run that is not restarted.  Tests under configurations of earlier     *)
(* report steps are not counted against it; those under configurations of  *)
(* the report step of the last one are, since they cannot be told apart: a *)
(* WTEST that an action gives in the step of another does not start the    *)
(* count anew.                                                             *)
Rested(w) ==
  w \in Considered /\ sim_time - last_event[w] >= wtest_config[w].test_interval

TestOwed(w) ==
  /\ Rested(w)
  /\ limit[w] = 0 \/ carried[w] + used[w] < limit[w]

DueTested ==
  restarts = 0 => \A w \in Wells : TestOwed(w) => w \in Due

(* What DueTested would say if every WTEST started the count anew.         *)
DueAfterEveryWTEST ==
  restarts = 0 => \A w \in Wells :
    Rested(w) /\ (limit[w] = 0 \/ used[w] < limit[w]) => w \in Due

(* A restart brings back for which reasons a well is tested and why a well *)
(* that is tested was closed.                                              *)
RestartKeepsReasons ==
  [][restarts' # restarts =>
       \A w \in DOMAIN wtest_config :
         /\ w \in DOMAIN wtest_config' /\ wtest_config'[w].reasons = wtest_config[w].reasons
         /\ (w \in DOMAIN wells /\ wells[w].closed) <=> w \in DOMAIN wells'
         /\ w \in DOMAIN wells' => wells'[w].reason = wells[w].reason]_vars
=============================================================================
