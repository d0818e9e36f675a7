------------------------ MODULE WellTestStateProofs ------------------------
(***************************************************************************)
(* Proofs about the testing of wells, for all wells, intervals, limits and *)
(* lengths of the run.                                                     *)
(***************************************************************************)
EXTENDS WellTestState, TLAPS

-----------------------------------------------------------------------------
(***************************************************************************)
(* The inductive invariant                                                 *)
(***************************************************************************)
(* No configuration begins after the report step under way, nor is a well  *)
(* looked at under one that does.                                          *)
Steps ==
  /\ phase = "output" => report_step >= 1
  /\ \A w \in DOMAIN wtest_config : wtest_config[w].begin_report_step <= report_step
  /\ \A w \in DOMAIN wells : /\ wells[w].wtest_report_step <= report_step
                             /\ phase # "simulate" => wells[w].wtest_report_step < report_step
                             /\ wells[w].wtest_report_step = NotSet => wells[w].num_attempt = 0

(* Without a restart the entry of a well holds when it was last closed or  *)
(* tested.                                                                 *)
Clock ==
  /\ \A w \in Wells : last_event[w] <= sim_time
  /\ restarts = 0 => \A w \in DOMAIN wells : wells[w].last_test = last_event[w]

(* The tests counted for the configuration of a well. *)
Count(w) == IF w \in DOMAIN wells THEN Attempts(w) ELSE 0

(* The tests of a well under the WTESTs of the report step of the last one. *)
Tests(w) ==
  IF w \in DOMAIN wells /\ wells[w].wtest_report_step = began[w] THEN wells[w].num_attempt ELSE 0

(* Without a restart they are told apart from earlier ones by that step.   *)
Exact ==
  restarts = 0 =>
    /\ \A w \in Wells : began[w] <= report_step /\ carried[w] + used[w] = Tests(w)
    /\ \A w \in DOMAIN wells : wells[w].wtest_report_step <= began[w]
    /\ \A w \in DOMAIN wtest_config : /\ wtest_config[w].num_test = limit[w]
                                      /\ wtest_config[w].begin_report_step = began[w]

(* The tests made and those left are no more than the last WTEST allows.   *)
Within(w) ==
  /\ used[w] <= limit[w]
  /\ w \in DOMAIN wtest_config => /\ wtest_config[w].num_test # 0
                                  /\ wtest_config[w].num_test <= limit[w]
                                  /\ used[w] + wtest_config[w].num_test - Count(w) <= limit[w]

Budget == \A w \in Wells \ freed : limit[w] # 0 => Within(w)

Inv == TypeOK /\ Steps /\ Clock /\ Exact /\ Budget /\ IntervalKept

-----------------------------------------------------------------------------
(***************************************************************************)
(* The loop of test_wells                                                  *)
(***************************************************************************)
LEMMA AttemptsType ==
  ASSUME TypeOK, NEW w \in DOMAIN wells
  PROVE  Attempts(w) \in Nat /\ Attempts(w) <= wells[w].num_attempt
BY DEF TypeOK, Attempts

(* What it does to the entry of a well that it looks at.                   *)
LEMMA TestedEntry ==
  ASSUME TypeOK, NEW w \in Considered
  PROVE  /\ w \in DOMAIN wells /\ w \in DOMAIN wtest_config
         /\ tested(w).reason = wells[w].reason
         /\ tested(w).closed = wells[w].closed
         /\ tested(w).num_attempt = Attempts(w) + (IF w \in Due THEN 1 ELSE 0)
         /\ tested(w).last_test = IF w \in Due THEN sim_time ELSE wells[w].last_test
         /\ tested(w).wtest_report_step = IF wells[w].wtest_report_step = NotSet \/ Outdated(w)
                                          THEN wtest_config[w].begin_report_step
                                          ELSE wells[w].wtest_report_step
         /\ tested(w) \in [reason : Reasons, last_test : -EndTime .. EndTime, num_attempt : Nat,
                           closed : BOOLEAN, wtest_report_step : NotSet .. EndStep]
<1>1. w \in DOMAIN wells /\ w \in DOMAIN wtest_config
  BY DEF Considered, has
<1>2. wells[w] \in [reason : Reasons, last_test : -EndTime .. EndTime, num_attempt : Nat,
                    closed : BOOLEAN, wtest_report_step : NotSet .. EndStep]
  BY <1>1 DEF TypeOK
<1> DEFINE step == IF wells[w].wtest_report_step = NotSet \/ Outdated(w)
                   THEN wtest_config[w].begin_report_step ELSE wells[w].wtest_report_step
           count == Attempts(w) + (IF w \in Due THEN 1 ELSE 0)
           time == IF w \in Due THEN sim_time ELSE wells[w].last_test
<1>3. step \in NotSet .. EndStep
  <2>1. wtest_config[w].begin_report_step \in NotSet .. EndStep
    BY <1>1 DEF TypeOK, NotSet
  <2>2. wells[w].wtest_report_step \in NotSet .. EndStep
    BY <1>2
  <2> QED
    BY <2>1, <2>2
<1>4. count \in Nat
  <2>1. Attempts(w) \in Nat
    BY <1>1, AttemptsType
  <2> QED
    BY <2>1
<1>5. time \in -EndTime .. EndTime
  <2>1. sim_time \in -EndTime .. EndTime
    BY WTestConstants DEF TypeOK, Times
  <2>2. wells[w].last_test \in -EndTime .. EndTime
    BY <1>2
  <2> QED
    BY <2>1, <2>2
<1>6. tested(w) = [wells[w] EXCEPT !.wtest_report_step = step, !.num_attempt = count, !.last_test = time]
  BY DEF tested
<1> HIDE DEF step, count, time, NotSet
<1>7. /\ tested(w).reason = wells[w].reason /\ tested(w).closed = wells[w].closed
      /\ tested(w).num_attempt = count /\ tested(w).last_test = time
      /\ tested(w).wtest_report_step = step
      /\ tested(w) \in [reason : Reasons, last_test : -EndTime .. EndTime, num_attempt : Nat,
                        closed : BOOLEAN, wtest_report_step : NotSet .. EndStep]
  BY <1>2, <1>3, <1>4, <1>5, <1>6
<1> QED
  BY <1>1, <1>7 DEF step, count, time

(* A well that is due is looked at, has waited and has tests left.         *)
LEMMA DueWell ==
  ASSUME NEW w \in Due
  PROVE  /\ w \in Considered /\ w \in DOMAIN wells /\ w \in DOMAIN wtest_config
         /\ Attempts(w) < wtest_config[w].num_test \/ wtest_config[w].num_test = 0
         /\ sim_time - wells[w].last_test >= wtest_config[w].test_interval
BY DEF Due, Considered, has, test_well

(* After it the count of a well that it looks at is up to date.            *)
LEMMA CountTested ==
  ASSUME TypeOK, test_wells, NEW w \in Wells
  PROVE  Count(w)' = Count(w) + (IF w \in Due THEN 1 ELSE 0)
<1>1. DOMAIN wells' = DOMAIN wells /\ wtest_config' = wtest_config
  BY DEF test_wells
<1>2. CASE w \in Considered
  <2>1. w \in DOMAIN wells /\ wells'[w] = tested(w)
    BY <1>2, TestedEntry DEF test_wells
  <2>2. ~Outdated(w)'
    <3>1. wells'[w].wtest_report_step = IF wells[w].wtest_report_step = NotSet \/ Outdated(w)
                                        THEN wtest_config[w].begin_report_step
                                        ELSE wells[w].wtest_report_step
      BY <1>2, <2>1, TestedEntry
    <3>2. wtest_config[w].begin_report_step \in Int /\ wells[w].wtest_report_step \in Int
      BY <1>2, <2>1, TestedEntry DEF TypeOK
    <3> QED
      BY <1>1, <3>1, <3>2 DEF Outdated
  <2>3. Attempts(w)' = wells'[w].num_attempt
    BY <2>2 DEF Attempts
  <2>4. wells'[w].num_attempt = Attempts(w) + (IF w \in Due THEN 1 ELSE 0)
    BY <1>2, <2>1, TestedEntry
  <2> QED
    BY <1>1, <2>1, <2>3, <2>4 DEF Count
<1>3. CASE w \notin Considered
  <2>1. w \notin Due
    BY <1>3, DueWell
  <2>2. w \in DOMAIN wells => wells'[w] = wells[w]
    BY <1>3 DEF test_wells
  <2>3. w \in DOMAIN wells => Attempts(w)' = Attempts(w)
    BY <1>1, <2>2 DEF Attempts, Outdated
  <2>4. Count(w) \in Int
    BY AttemptsType DEF Count
  <2> QED
    BY <1>1, <2>1, <2>3, <2>4 DEF Count
<1> QED
  BY <1>2, <1>3

-----------------------------------------------------------------------------
(***************************************************************************)
(* Types                                                                   *)
(***************************************************************************)
Entry == [reason : Reasons, last_test : -EndTime .. EndTime, num_attempt : Nat,
          closed : BOOLEAN, wtest_report_step : NotSet .. EndStep]

Config == [reasons : SUBSET ConfigReasons, test_interval : Nat,
           num_test : Int, begin_report_step : 0 .. EndStep]

(* What closing a well enters. *)
LEMMA NewEntry ==
  ASSUME NEW r \in Reasons, NEW t \in -EndTime .. EndTime
  PROVE  WTestWell(r, t) \in Entry
BY WTestConstants DEF WTestWell, Entry, NotSet

(* Opening wells changes no more of an entry than whether it is closed. *)
LEMMA OpenedEntry ==
  ASSUME TypeOK, NEW S, NEW w \in DOMAIN wells
  PROVE  /\ DOMAIN Opened(S) = DOMAIN wells
         /\ Opened(S)[w] \in Entry
         /\ Opened(S)[w].reason = wells[w].reason
         /\ Opened(S)[w].last_test = wells[w].last_test
         /\ Opened(S)[w].num_attempt = wells[w].num_attempt
         /\ Opened(S)[w].wtest_report_step = wells[w].wtest_report_step
<1>1. wells[w] \in Entry
  BY DEF TypeOK, Entry
<1>2. DOMAIN Opened(S) = DOMAIN wells
  BY DEF Opened
<1>3. Opened(S)[w] = IF w \in S THEN [wells[w] EXCEPT !.closed = FALSE] ELSE wells[w]
  BY DEF Opened
<1> HIDE DEF NotSet
<1> QED
  BY <1>1, <1>2, <1>3 DEF Entry

(* The entry of a well that is closed.                                     *)
LEMMA ClosedEntry ==
  ASSUME TypeOK, NEW w \in Wells, NEW r \in Reasons, close_well(w, r)
  PROVE  /\ DOMAIN wells' = DOMAIN wells \cup {w}
         /\ wells'[w] \in Entry
         /\ wells'[w].last_test = sim_time
         /\ w \in DOMAIN wells => /\ wells'[w].num_attempt = wells[w].num_attempt
                                  /\ wells'[w].wtest_report_step = wells[w].wtest_report_step
         /\ w \notin DOMAIN wells => /\ wells'[w].num_attempt = 0
                                     /\ wells'[w].wtest_report_step = NotSet
         /\ \A v \in DOMAIN wells : v # w => wells'[v] = wells[v]
<1>1. sim_time \in -EndTime .. EndTime
  BY WTestConstants DEF TypeOK, Times
<1>2. DOMAIN wells' = DOMAIN wells \cup {w}
  BY DEF close_well, With
<1>3. wells'[w] = IF w \in DOMAIN wells
                  THEN [wells[w] EXCEPT !.closed = TRUE, !.last_test = sim_time, !.reason = r]
                  ELSE WTestWell(r, sim_time)
  BY DEF close_well, With
<1>4. \A v \in DOMAIN wells : v # w => wells'[v] = wells[v]
  BY DEF close_well, With
<1>5. CASE w \in DOMAIN wells
  <2>1. wells[w] \in Entry
    BY <1>5 DEF TypeOK, Entry
  <2> HIDE DEF NotSet
  <2>2. /\ wells'[w] \in Entry
        /\ wells'[w].last_test = sim_time
        /\ wells'[w].num_attempt = wells[w].num_attempt
        /\ wells'[w].wtest_report_step = wells[w].wtest_report_step
    BY <1>1, <1>3, <1>5, <2>1 DEF Entry
  <2> QED
    BY <1>2, <1>4, <1>5, <2>2
<1>6. CASE w \notin DOMAIN wells
  <2>1. wells'[w] = WTestWell(r, sim_time)
    BY <1>3, <1>6
  <2>2. wells'[w] \in Entry
    BY <1>1, <2>1, NewEntry
  <2> QED
    BY <1>2, <1>4, <1>6, <2>1, <2>2 DEF WTestWell
<1> QED
  BY <1>5, <1>6

(* What a restart reads back.                                              *)
LEMMA RestoredTypes ==
  ASSUME TypeOK, Steps, phase = "output", NEW w \in DOMAIN wtest_config
  PROVE  /\ DOMAIN RestoredConfig = DOMAIN wtest_config
         /\ RestoredConfig[w] \in Config
         /\ RestoredConfig[w].begin_report_step = report_step - 1
         /\ RestoredConfig[w].num_test =
              wtest_config[w].num_test - (IF w \in DOMAIN wells THEN wells[w].num_attempt ELSE 0)
<1>1. wtest_config[w] \in Config
  BY DEF TypeOK, Config
<1>2. w \in DOMAIN wells => wells[w].num_attempt \in Nat
  BY DEF TypeOK
<1>3. report_step - 1 \in 0 .. EndStep
  BY WTestConstants DEF Steps, TypeOK
<1>4. restart_well(w).num_test - 1 =
        wtest_config[w].num_test - (IF w \in DOMAIN wells THEN wells[w].num_attempt ELSE 0)
  BY <1>1, <1>2 DEF restart_well, Config
<1>5. restart_well(w).num_test - 1 \in Int
  BY <1>1, <1>2, <1>4 DEF Config
<1>6. inverse_ecl_reasons(restart_well(w).config_reasons) \in SUBSET ConfigReasons
  BY DEF inverse_ecl_reasons
<1>7. restart_well(w).test_interval \in Nat
  BY <1>1 DEF restart_well, Config
<1>8. RestoredConfig[w] =
        [reasons           |-> inverse_ecl_reasons(restart_well(w).config_reasons),
         test_interval     |-> restart_well(w).test_interval,
         num_test          |-> restart_well(w).num_test - 1,
         begin_report_step |-> report_step - 1]
  BY DEF RestoredConfig
<1>9. DOMAIN RestoredConfig = DOMAIN wtest_config
  BY DEF RestoredConfig
<1>10. RestoredConfig[w] \in Config
  BY <1>3, <1>5, <1>6, <1>7, <1>8 DEF Config
<1> QED
  BY <1>4, <1>8, <1>9, <1>10

(* What the file gives of a well: it has made no attempt. *)
LEMMA RestoredEntry ==
  ASSUME TypeOK, NEW w \in DOMAIN RestoredWells
  PROVE  /\ w \in DOMAIN wtest_config /\ w \in DOMAIN wells
         /\ RestoredWells[w] \in Entry
         /\ RestoredWells[w].num_attempt = 0
         /\ RestoredWells[w].wtest_report_step = NotSet
<1>1. w \in DOMAIN wtest_config /\ restart_well(w).close_reason # 0
  BY DEF RestoredWells
<1>2. w \in DOMAIN wells /\ wells[w].closed
  BY <1>1 DEF restart_well, int_reason
<1>3. wells[w].reason \in Reasons
  BY <1>2 DEF TypeOK
<1>4. restart_well(w).close_reason = CloseReason(wells[w].reason)
  BY <1>2 DEF restart_well, int_reason
<1>5. inverse_ecl_reason(restart_well(w).close_reason) \in Reasons
  BY <1>3, <1>4 DEF inverse_ecl_reason
<1>6. 0 - sim_time \in -EndTime .. EndTime
  BY WTestConstants DEF TypeOK, Times
<1>7. RestoredWells[w] = WTestWell(inverse_ecl_reason(restart_well(w).close_reason), 0 - sim_time)
  BY DEF RestoredWells
<1>8. RestoredWells[w] \in Entry
  BY <1>5, <1>6, <1>7, NewEntry
<1> QED
  BY <1>1, <1>2, <1>7, <1>8 DEF WTestWell

-----------------------------------------------------------------------------
(***************************************************************************)
(* Initial states, and steps that leave the tests alone                    *)
(***************************************************************************)
LEMMA InitInv == Init => Inv
<1> SUFFICES ASSUME Init
             PROVE  Inv
  OBVIOUS
<1>1. DOMAIN wtest_config = {} /\ DOMAIN wells = {} /\ DOMAIN completions = {}
  BY DEF Init, Empty
<1>2. \A w \in Wells : /\ limit[w] = 0 /\ used[w] = 0 /\ last_event[w] = 0
                       /\ began[w] = NotSet /\ carried[w] = 0
                       /\ waited[w] = [after |-> 0, interval |-> 0]
  BY DEF Init
<1>3. TypeOK
  BY <1>1, WTestConstants DEF Init, TypeOK, Times, NotSet
<1>4. Steps
  BY <1>1 DEF Init, Steps
<1>5. Clock
  BY <1>1, <1>2 DEF Init, Clock
<1>6. Exact /\ Budget
  BY <1>1, <1>2 DEF Init, Exact, Budget, Tests, NotSet
<1>7. IntervalKept
  BY <1>2 DEF IntervalKept
<1> QED
  BY <1>3, <1>4, <1>5, <1>6, <1>7 DEF Inv

(* The count of a well depends on its configuration, on its entry's count  *)
(* and on the step kept with it.                                           *)
LEMMA CountKept ==
  ASSUME NEW w, w \in DOMAIN wells' <=> w \in DOMAIN wells,
         wtest_config'[w] = wtest_config[w],
         w \in DOMAIN wells => /\ wells'[w].num_attempt = wells[w].num_attempt
                               /\ wells'[w].wtest_report_step = wells[w].wtest_report_step
  PROVE  Count(w)' = Count(w)
<1>1. w \in DOMAIN wells => Outdated(w)' = Outdated(w)
  BY DEF Outdated
<1> QED
  BY <1>1 DEF Count, Attempts

(* Its tests depend on its entry and on the step of its last WTEST.        *)
LEMMA TestsKept ==
  ASSUME NEW w, w \in DOMAIN wells' <=> w \in DOMAIN wells, began'[w] = began[w],
         w \in DOMAIN wells => /\ wells'[w].num_attempt = wells[w].num_attempt
                               /\ wells'[w].wtest_report_step = wells[w].wtest_report_step
  PROVE  Tests(w)' = Tests(w)
BY DEF Tests

(* Steps that neither test, close nor forget a well nor give it another    *)
(* configuration.                                                          *)
LEMMA TestsLeftAlone ==
  ASSUME Inv,
         DOMAIN wtest_config' \subseteq DOMAIN wtest_config,
         \A w \in DOMAIN wtest_config' : wtest_config'[w] = wtest_config[w],
         DOMAIN wells' = DOMAIN wells,
         \A w \in DOMAIN wells : /\ wells'[w].last_test = wells[w].last_test
                                 /\ wells'[w].num_attempt = wells[w].num_attempt
                                 /\ wells'[w].wtest_report_step = wells[w].wtest_report_step,
         sim_time' \in Int, sim_time' >= sim_time,
         report_step' \in Int, report_step' >= report_step,
         UNCHANGED <<restarts, limit, used, began, carried, last_event, waited, freed>>
  PROVE  Clock' /\ Exact' /\ Budget' /\ IntervalKept'
<1>1. Clock'
  <2>1. \A w \in Wells : last_event[w] \in Int /\ last_event[w] <= sim_time
    BY DEF Inv, TypeOK, Times, Clock
  <2>2. sim_time \in Int
    BY DEF Inv, TypeOK, Times
  <2>3. \A w \in Wells : last_event'[w] <= sim_time'
    BY <2>1, <2>2
  <2>4. restarts' = 0 => \A w \in DOMAIN wells' : wells'[w].last_test = last_event'[w]
    BY DEF Inv, Clock
  <2> QED
    BY <2>3, <2>4 DEF Clock
<1>2. \A w \in DOMAIN wtest_config' : Count(w)' = Count(w)
  BY CountKept
<1>3. Exact'
  <2>1. ASSUME restarts = 0, NEW w \in Wells
        PROVE  began[w] <= report_step' /\ carried[w] + used[w] = Tests(w)'
    <3>1. began[w] <= report_step /\ carried[w] + used[w] = Tests(w)
      BY <2>1 DEF Inv, Exact
    <3>2. began[w] \in Int /\ report_step \in Int
      BY DEF Inv, TypeOK, NotSet
    <3>3. Tests(w)' = Tests(w)
      BY TestsKept
    <3> QED
      BY <3>1, <3>2, <3>3
  <2>2. restarts = 0 => \A w \in DOMAIN wells' : wells'[w].wtest_report_step <= began[w]
    BY DEF Inv, Exact
  <2>3. restarts = 0 =>
          \A w \in DOMAIN wtest_config' : /\ wtest_config'[w].num_test = limit[w]
                                          /\ wtest_config'[w].begin_report_step = began[w]
    BY DEF Inv, Exact
  <2> QED
    BY <2>1, <2>2, <2>3 DEF Exact
<1>4. Budget'
  <2>1. ASSUME NEW w \in Wells \ freed, limit[w] # 0
        PROVE  Within(w)'
    <3>1. Within(w)
      BY <2>1 DEF Inv, Budget
    <3> QED
      BY <1>2, <3>1 DEF Within
  <2> QED
    BY <2>1 DEF Budget
<1>5. IntervalKept'
  BY DEF Inv, IntervalKept
<1> QED
  BY <1>1, <1>3, <1>4, <1>5

(* The steps that only let time go on. *)
LEMMA IdleInv ==
  ASSUME Inv, \/ UNCHANGED vars \/ simulate \/ nextTimeStep \/ nextReportStep \/ written
  PROVE  Inv'
<1>1. UNCHANGED <<wtest_config, wells, completions, restarts, limit, used, began, carried,
                  last_event, waited, freed>>
  BY DEF vars, simulate, nextTimeStep, nextReportStep, written
<1>2. sim_time' \in Times /\ sim_time' >= sim_time
  BY WTestConstants DEF Inv, TypeOK, Times, vars, simulate, nextTimeStep, nextReportStep, written
<1>3. /\ report_step' \in 0 .. EndStep /\ phase' \in {"output", "input", "simulate"}
      /\ \/ report_step' = report_step /\ (phase' # "simulate" => phase # "simulate")
                                       /\ (phase' = "output" => phase = "output")
         \/ report_step' = report_step /\ phase' = "simulate"
         \/ report_step' = report_step + 1
  BY WTestConstants DEF Inv, TypeOK, vars, simulate, nextTimeStep, nextReportStep, written
<1>4. TypeOK'
  BY <1>1, <1>2, <1>3 DEF Inv, TypeOK
<1>5. Steps'
  <2>1. report_step \in Nat
    BY WTestConstants DEF Inv, TypeOK
  <2>2. phase' = "output" => report_step' >= 1
    BY <1>3, <2>1 DEF Inv, Steps
  <2>3. \A w \in DOMAIN wtest_config : /\ wtest_config[w].begin_report_step \in Int
                                       /\ wtest_config[w].begin_report_step <= report_step
    BY DEF Inv, Steps, TypeOK
  <2>4. \A w \in DOMAIN wells : /\ wells[w].wtest_report_step \in Int
                                /\ wells[w].wtest_report_step <= report_step
                                /\ phase # "simulate" => wells[w].wtest_report_step < report_step
    BY DEF Inv, Steps, TypeOK
  <2>5. \A w \in DOMAIN wtest_config' : wtest_config'[w].begin_report_step <= report_step'
    BY <1>1, <1>3, <2>1, <2>3
  <2>6. \A w \in DOMAIN wells' : /\ wells'[w].wtest_report_step <= report_step'
                                 /\ phase' # "simulate" => wells'[w].wtest_report_step < report_step'
    BY <1>1, <1>3, <2>1, <2>4
  <2>7. \A w \in DOMAIN wells' : wells'[w].wtest_report_step = NotSet => wells'[w].num_attempt = 0
    BY <1>1 DEF Inv, Steps
  <2> QED
    BY <2>2, <2>5, <2>6, <2>7 DEF Steps
<1>6. sim_time' \in Int /\ report_step' \in Int /\ report_step' >= report_step
  BY <1>2, <1>3 DEF Inv, TypeOK, Times
<1>7. Clock' /\ Exact' /\ Budget' /\ IntervalKept'
  BY <1>1, <1>2, <1>6, TestsLeftAlone
<1> QED
  BY <1>4, <1>5, <1>7 DEF Inv

(* The completions matter for their type only.                             *)
LEMMA CompletionsInv ==
  ASSUME Inv, NEW w \in Wells, NEW c,
         \/ c \in Complnums /\ close_completion(w, c)
         \/ open_completion(w, c)
         \/ open_completions(w)
  PROVE  Inv'
<1>1. UNCHANGED <<wtest_config, wells, report_step, sim_time, phase, restarts, limit, used,
                  began, carried, last_event, waited, freed>>
  BY DEF close_completion, open_completion, open_completions
<1>2. DOMAIN completions' \subseteq Wells
      /\ \A v \in DOMAIN completions' : completions'[v] \in (SUBSET Complnums) \ {{}}
  <2>1. DOMAIN completions \subseteq Wells
        /\ \A v \in DOMAIN completions : completions[v] \in (SUBSET Complnums) \ {{}}
    BY DEF Inv, TypeOK
  <2>2. CASE completions' = Without(completions, {w})
    BY <2>1, <2>2 DEF Without
  <2>3. ASSUME NEW S \in (SUBSET Complnums) \ {{}}, completions' = With(completions, w, S)
        PROVE  DOMAIN completions' \subseteq Wells
               /\ \A v \in DOMAIN completions' : completions'[v] \in (SUBSET Complnums) \ {{}}
    BY <2>1, <2>3 DEF With
  <2>4. CASE c \in Complnums /\ close_completion(w, c)
    BY <2>1, <2>3, <2>4 DEF close_completion, ClosedCompletions
  <2>5. CASE open_completion(w, c)
    <3>1. CASE ClosedCompletions(w) \subseteq {c}
      BY <2>2, <2>5, <3>1 DEF open_completion, reopened
    <3>2. CASE ~(ClosedCompletions(w) \subseteq {c})
      <4>1. w \in DOMAIN completions /\ ClosedCompletions(w) = completions[w]
        BY <3>2 DEF ClosedCompletions
      <4>2. completions[w] \ {c} \in (SUBSET Complnums) \ {{}}
        BY <2>1, <3>2, <4>1
      <4> QED
        BY <2>3, <2>5, <3>2, <4>2 DEF open_completion, reopened
    <3> QED
      BY <3>1, <3>2
  <2>6. CASE open_completions(w)
    BY <2>2, <2>6 DEF open_completions
  <2> QED
    BY <2>4, <2>5, <2>6
<1>3. TypeOK'
  BY <1>1, <1>2 DEF Inv, TypeOK
<1>4. Steps'
  BY <1>1 DEF Inv, Steps
<1>5. sim_time \in Int /\ report_step \in Int
  BY DEF Inv, TypeOK, Times
<1>6. Clock' /\ Exact' /\ Budget' /\ IntervalKept'
  BY <1>1, <1>5, TestsLeftAlone
<1> QED
  BY <1>3, <1>4, <1>6 DEF Inv

(* A well is taken out of the configuration. *)
LEMMA DropInv ==
  ASSUME Inv, NEW w \in Wells, drop_well(w)
  PROVE  Inv'
<1>1. DOMAIN wtest_config' = DOMAIN wtest_config \ {w}
      /\ \A v \in DOMAIN wtest_config' : wtest_config'[v] = wtest_config[v]
  BY DEF drop_well, Without
<1>2. UNCHANGED <<wells, completions, report_step, sim_time, phase, restarts, limit, used,
                  began, carried, last_event, waited, freed>>
  BY DEF drop_well
<1>3. TypeOK'
  BY <1>1, <1>2 DEF Inv, TypeOK
<1>4. Steps'
  BY <1>1, <1>2 DEF Inv, Steps
<1>5. sim_time \in Int /\ report_step \in Int
  BY DEF Inv, TypeOK, Times
<1>6. Clock' /\ Exact' /\ Budget' /\ IntervalKept'
  BY <1>1, <1>2, <1>5, TestsLeftAlone
<1> QED
  BY <1>3, <1>4, <1>6 DEF Inv

(* open_well and filter_wells. *)
LEMMA OpenInv ==
  ASSUME Inv, NEW S, wells' = Opened(S),
         UNCHANGED <<wtest_config, completions, report_step, sim_time, phase, restarts, limit, used,
                     began, carried, last_event, waited, freed>>
  PROVE  Inv'
<1>1. TypeOK
  BY DEF Inv
<1>2. DOMAIN wells' = DOMAIN wells
  BY DEF Opened
<1>3. \A w \in DOMAIN wells : /\ wells'[w] \in Entry
                              /\ wells'[w].last_test = wells[w].last_test
                              /\ wells'[w].num_attempt = wells[w].num_attempt
                              /\ wells'[w].wtest_report_step = wells[w].wtest_report_step
  BY <1>1, OpenedEntry
<1>4. TypeOK'
  BY <1>1, <1>2, <1>3 DEF TypeOK, Entry
<1>5. Steps'
  BY <1>2, <1>3 DEF Inv, Steps
<1>6. sim_time \in Int /\ report_step \in Int
  BY DEF Inv, TypeOK, Times
<1>7. Clock' /\ Exact' /\ Budget' /\ IntervalKept'
  BY <1>2, <1>3, <1>6, TestsLeftAlone
<1> QED
  BY <1>4, <1>5, <1>7 DEF Inv

-----------------------------------------------------------------------------
(***************************************************************************)
(* Steps that close, forget or reconfigure a well                          *)
(***************************************************************************)
LEMMA CloseInv ==
  ASSUME Inv, NEW w \in Wells, NEW r \in Reasons, close_well(w, r)
  PROVE  Inv'
<1>1. TypeOK
  BY DEF Inv
<1>2. /\ phase = "simulate"
      /\ last_event' = [last_event EXCEPT ![w] = sim_time]
      /\ UNCHANGED <<wtest_config, completions, report_step, sim_time, phase, restarts, limit, used,
                     began, carried, waited, freed>>
  BY DEF close_well
<1>3. /\ DOMAIN wells' = DOMAIN wells \cup {w}
      /\ wells'[w] \in Entry
      /\ wells'[w].last_test = sim_time
      /\ w \in DOMAIN wells => /\ wells'[w].num_attempt = wells[w].num_attempt
                               /\ wells'[w].wtest_report_step = wells[w].wtest_report_step
      /\ w \notin DOMAIN wells => /\ wells'[w].num_attempt = 0
                                  /\ wells'[w].wtest_report_step = NotSet
      /\ \A v \in DOMAIN wells : v # w => wells'[v] = wells[v]
  BY <1>1, ClosedEntry
<1>4. last_event \in [Wells -> Times] /\ sim_time \in Times
  BY <1>1 DEF TypeOK
<1>5. \A v \in Wells : last_event'[v] = IF v = w THEN sim_time ELSE last_event[v]
  BY <1>2, <1>4
<1>6. last_event' \in [Wells -> Times]
  BY <1>2, <1>4
<1>7. TypeOK'
  <2>1. DOMAIN wells' \subseteq Wells /\ \A v \in DOMAIN wells' : wells'[v] \in Entry
    BY <1>1, <1>3 DEF TypeOK, Entry
  <2> QED
    BY <1>1, <1>2, <1>6, <2>1 DEF TypeOK, Entry
<1>8. Steps'
  <2>1. NotSet <= report_step
    BY <1>1 DEF TypeOK, NotSet
  <2>2. ASSUME NEW v \in DOMAIN wells'
        PROVE  /\ wells'[v].wtest_report_step <= report_step
               /\ wells'[v].wtest_report_step = NotSet => wells'[v].num_attempt = 0
    BY <1>3, <2>1, <2>2 DEF Inv, Steps
  <2> QED
    BY <1>2, <2>2 DEF Inv, Steps
<1>9. Clock'
  <2>1. \A v \in Wells : last_event'[v] <= sim_time
    BY <1>4, <1>5 DEF Inv, Clock, Times
  <2>2. restarts = 0 => \A v \in DOMAIN wells' : wells'[v].last_test = last_event'[v]
    <3>1. DOMAIN wells \subseteq Wells
      BY <1>1 DEF TypeOK
    <3> QED
      BY <1>3, <1>5, <3>1 DEF Inv, Clock
  <2> QED
    BY <1>2, <2>1, <2>2 DEF Clock
<1>10. \A v \in Wells : Count(v)' = Count(v)
  <2>1. ASSUME NEW v \in Wells, v # w
        PROVE  Count(v)' = Count(v)
    <3>1. v \in DOMAIN wells' <=> v \in DOMAIN wells
      BY <1>3, <2>1
    <3> QED
      BY <1>2, <1>3, <2>1, <3>1, CountKept
  <2>2. Count(w)' = Count(w)
    <3>1. CASE w \in DOMAIN wells
      BY <1>2, <1>3, <3>1, CountKept
    <3>2. CASE w \notin DOMAIN wells
      BY <1>3, <3>2 DEF Count, Attempts
    <3> QED
      BY <3>1, <3>2
  <2> QED
    BY <2>1, <2>2
<1>11. Exact'
  <2>1. ASSUME restarts = 0, NEW v \in Wells
        PROVE  Tests(v)' = Tests(v)
    <3>1. CASE v \in DOMAIN wells
      BY <1>2, <1>3, <3>1, TestsKept
    <3>2. CASE v \notin DOMAIN wells
      BY <1>3, <3>2 DEF Tests
    <3> QED
      BY <3>1, <3>2
  <2>2. ASSUME restarts = 0, NEW v \in DOMAIN wells'
        PROVE  wells'[v].wtest_report_step <= began[v]
    <3>1. CASE v \in DOMAIN wells
      BY <1>3, <2>2, <3>1 DEF Inv, Exact
    <3>2. CASE v \notin DOMAIN wells
      <4>1. v = w /\ wells'[v].wtest_report_step = NotSet
        BY <1>3, <2>2, <3>2
      <4>2. began[w] \in NotSet .. EndStep
        BY <1>1 DEF TypeOK
      <4> QED
        BY <4>1, <4>2 DEF NotSet
    <3> QED
      BY <3>1, <3>2
  <2> QED
    BY <1>2, <2>1, <2>2 DEF Inv, Exact
<1>12. Budget'
  BY <1>2, <1>10 DEF Inv, Budget, Within
<1>13. IntervalKept'
  BY <1>2 DEF Inv, IntervalKept
<1> QED
  BY <1>7, <1>8, <1>9, <1>11, <1>12, <1>13 DEF Inv

(* The configuration begins with the report step under way.  A count of an *)
(* earlier step is not counted against it, one of the same step is.        *)
LEMMA AddInv ==
  ASSUME Inv, NEW w \in Wells, NEW reasons \in WTests, NEW i \in Intervals, NEW n \in NumTests,
         add_well(w, reasons, i, n)
  PROVE  Inv'
<1> DEFINE config == [reasons |-> reasons, test_interval |-> i, num_test |-> n,
                      begin_report_step |-> report_step]
<1>1. TypeOK
  BY DEF Inv
<1>2. /\ wtest_config' = With(wtest_config, w, config)
      /\ limit' = [limit EXCEPT ![w] = n]
      /\ used' = [used EXCEPT ![w] = 0]
      /\ began' = [began EXCEPT ![w] = report_step]
      /\ carried' = [carried EXCEPT ![w] = IF began[w] = report_step THEN @ + used[w] ELSE 0]
      /\ freed' = freed \ {w}
      /\ UNCHANGED <<wells, completions, report_step, sim_time, phase, restarts, last_event, waited>>
  BY DEF add_well
<1>3. config \in Config
  BY <1>1, WTestConstants DEF TypeOK, Config
<1>4. config.num_test = n /\ config.begin_report_step = report_step
  OBVIOUS
<1> HIDE DEF config
<1>5. /\ DOMAIN wtest_config' = DOMAIN wtest_config \cup {w}
      /\ wtest_config'[w] = config
      /\ \A v \in DOMAIN wtest_config : v # w => wtest_config'[v] = wtest_config[v]
  BY <1>2 DEF With
<1>6. n \in Nat
  BY WTestConstants
<1>7. /\ limit \in [Wells -> Nat] /\ used \in [Wells -> Nat] /\ carried \in [Wells -> Nat]
      /\ began \in [Wells -> NotSet .. EndStep] /\ report_step \in 0 .. EndStep
  BY <1>1 DEF TypeOK
<1>8. \A v \in Wells : /\ limit'[v] = IF v = w THEN n ELSE limit[v]
                       /\ used'[v] = IF v = w THEN 0 ELSE used[v]
                       /\ began'[v] = IF v = w THEN report_step ELSE began[v]
                       /\ carried'[v] = IF v # w THEN carried[v]
                                        ELSE IF began[w] = report_step THEN carried[w] + used[w]
                                        ELSE 0
  BY <1>2, <1>7
<1>8a. /\ limit' \in [Wells -> Nat] /\ used' \in [Wells -> Nat]
       /\ began' \in [Wells -> NotSet .. EndStep] /\ carried' \in [Wells -> Nat]
  <2>1. report_step \in NotSet .. EndStep
    BY <1>7 DEF NotSet
  <2>2. (IF began[w] = report_step THEN carried[w] + used[w] ELSE 0) \in Nat
    BY <1>7
  <2> HIDE DEF NotSet
  <2> QED
    BY <1>2, <1>6, <1>7, <2>1, <2>2
<1>9. TypeOK'
  <2>1. /\ DOMAIN wtest_config' \subseteq Wells
        /\ \A v \in DOMAIN wtest_config' : wtest_config'[v] \in Config
    BY <1>1, <1>3, <1>5 DEF TypeOK, Config
  <2> QED
    BY <1>1, <1>2, <1>8a, <2>1 DEF TypeOK, Config
<1>10. Steps'
  <2>1. \A v \in DOMAIN wtest_config' : wtest_config'[v].begin_report_step <= report_step
    <3>1. report_step \in Int
      BY <1>1 DEF TypeOK
    <3> QED
      BY <1>4, <1>5, <3>1 DEF Inv, Steps
  <2> QED
    BY <1>2, <2>1 DEF Inv, Steps
<1>11. Clock'
  BY <1>2 DEF Inv, Clock
<1>12. Count(w)' \in Nat
  <2>1. ASSUME w \in DOMAIN wells
        PROVE  wells'[w].num_attempt \in Nat
    BY <1>1, <1>2, <2>1 DEF TypeOK
  <2> QED
    BY <1>2, <2>1 DEF Count, Attempts
<1>13. \A v \in DOMAIN wtest_config : v # w => Count(v)' = Count(v)
  BY <1>2, <1>5, CountKept
<1>14. Exact'
  <2>1. ASSUME restarts = 0, NEW v \in Wells
        PROVE  /\ began'[v] <= report_step /\ carried'[v] + used'[v] = Tests(v)'
               /\ v \in DOMAIN wells => wells[v].wtest_report_step <= began'[v]
    <3>1. /\ began[v] <= report_step /\ carried[v] + used[v] = Tests(v)
          /\ v \in DOMAIN wells => wells[v].wtest_report_step <= began[v]
      BY <2>1 DEF Inv, Exact
    <3>2. CASE v # w
      BY <1>2, <1>8, <2>1, <3>1, <3>2, TestsKept
    <3>3. CASE v = w /\ began[w] = report_step
      <4>1. began'[w] = began[w] /\ carried'[w] = carried[w] + used[w] /\ used'[w] = 0
        BY <1>8, <3>3
      <4>2. Tests(w)' = Tests(w)
        BY <1>2, <4>1, TestsKept
      <4> QED
        BY <1>7, <3>1, <3>3, <4>1, <4>2
    <3>4. CASE v = w /\ began[w] # report_step
      <4>1. began'[w] = report_step /\ carried'[w] = 0 /\ used'[w] = 0
        BY <1>8, <3>4
      <4>2. began[w] \in Int /\ report_step \in Int
        BY <1>7 DEF NotSet
      <4>3. w \in DOMAIN wells => /\ wells[w].wtest_report_step \in Int
                                  /\ wells[w].wtest_report_step < report_step
        <5>1. w \in DOMAIN wells => wells[w].wtest_report_step \in Int
          BY <1>1 DEF TypeOK, NotSet
        <5>2. began[w] < report_step
          BY <3>1, <3>4, <4>2
        <5> QED
          BY <3>1, <3>4, <4>2, <5>1, <5>2
      <4>4. Tests(w)' = 0
        BY <1>2, <4>1, <4>2, <4>3 DEF Tests
      <4> QED
        BY <3>4, <4>1, <4>2, <4>3, <4>4
    <3> QED
      BY <3>2, <3>3, <3>4
  <2>2. ASSUME restarts = 0, NEW v \in DOMAIN wtest_config'
        PROVE  wtest_config'[v].num_test = limit'[v] /\ wtest_config'[v].begin_report_step = began'[v]
    <3>1. v \in Wells
      BY <1>1, <1>5 DEF TypeOK
    <3>2. CASE v = w
      BY <1>4, <1>5, <1>8, <3>2
    <3>3. CASE v # w
      BY <1>5, <1>8, <2>2, <3>1, <3>3 DEF Inv, Exact
    <3> QED
      BY <3>2, <3>3
  <2>3. DOMAIN wells \subseteq Wells
    BY <1>1 DEF TypeOK
  <2> QED
    BY <1>2, <2>1, <2>2, <2>3 DEF Exact
<1>15. Budget'
  <2>1. ASSUME NEW v \in Wells \ freed', limit'[v] # 0
        PROVE  Within(v)'
    <3>1. CASE v = w
      BY <1>4, <1>5, <1>6, <1>8, <1>12, <2>1, <3>1 DEF Within
    <3>2. CASE v # w
      <4>1. Within(v)
        BY <1>2, <1>8, <2>1, <3>2 DEF Inv, Budget
      <4> QED
        BY <1>5, <1>8, <1>13, <3>2, <4>1 DEF Within
    <3> QED
      BY <3>1, <3>2
  <2> QED
    BY <2>1 DEF Budget
<1>16. IntervalKept'
  BY <1>2 DEF Inv, IntervalKept
<1> QED
  BY <1>9, <1>10, <1>11, <1>14, <1>15, <1>16 DEF Inv

(* The state is cleared. *)
LEMMA ClearInv ==
  ASSUME Inv, clear
  PROVE  Inv'
<1>1. TypeOK
  BY DEF Inv
<1>2. /\ phase = "simulate" /\ used' = [w \in Wells |-> 0] /\ carried' = [w \in Wells |-> 0]
      /\ UNCHANGED <<wtest_config, report_step, sim_time, phase, restarts, limit, began,
                     last_event, waited, freed>>
  BY DEF clear
<1>3. DOMAIN wells' = {} /\ DOMAIN completions' = {}
  BY DEF clear, Empty
<1>4. \A w \in Wells : used'[w] = 0 /\ carried'[w] = 0
  BY <1>2
<1>5. used' \in [Wells -> Nat] /\ carried' \in [Wells -> Nat]
  BY <1>2
<1>6. \A w : Count(w)' = 0
  BY <1>3 DEF Count
<1>7. TypeOK'
  BY <1>1, <1>2, <1>3, <1>5 DEF TypeOK
<1>8. Steps' /\ Clock'
  BY <1>2, <1>3 DEF Inv, Steps, Clock
<1>9. Exact'
  <2>1. \A w : Tests(w)' = 0
    BY <1>3 DEF Tests
  <2> QED
    BY <1>2, <1>3, <1>4, <2>1 DEF Inv, Exact
<1>10. Budget'
  <2>1. ASSUME NEW w \in Wells \ freed, limit[w] # 0
        PROVE  Within(w)'
    <3>1. Within(w)
      BY <2>1 DEF Inv, Budget
    <3>2. limit[w] \in Nat /\ (w \in DOMAIN wtest_config => wtest_config[w].num_test \in Int)
      BY <1>1 DEF TypeOK
    <3> QED
      BY <1>2, <1>4, <1>6, <3>1, <3>2 DEF Within
  <2> QED
    BY <1>2, <2>1 DEF Budget
<1>11. IntervalKept'
  BY <1>2 DEF Inv, IntervalKept
<1> QED
  BY <1>7, <1>8, <1>9, <1>10, <1>11 DEF Inv

-----------------------------------------------------------------------------
(***************************************************************************)
(* Testing                                                                 *)
(***************************************************************************)
LEMMA TestInv ==
  ASSUME Inv, test_wells
  PROVE  Inv'
<1>1. TypeOK
  BY DEF Inv
<1>2. /\ phase = "simulate" /\ DOMAIN wells' = DOMAIN wells
      /\ \A w \in DOMAIN wells : wells'[w] = IF w \in Considered THEN tested(w) ELSE wells[w]
      /\ UNCHANGED <<wtest_config, completions, report_step, sim_time, phase, restarts, limit,
                     began, carried, freed>>
  BY DEF test_wells
<1>3. \A w \in Wells : used'[w] = IF w \in Due THEN used[w] + 1 ELSE used[w]
  BY DEF test_wells
<1>4. \A w \in Wells : last_event'[w] = IF w \in Due THEN sim_time ELSE last_event[w]
  BY DEF test_wells
<1>5. \A w \in Wells : waited'[w] = IF w \in Due
                                     THEN [after    |-> sim_time - last_event[w],
                                           interval |-> wtest_config[w].test_interval]
                                     ELSE waited[w]
  BY DEF test_wells
<1>6. \A w \in Wells : /\ sim_time \in Int /\ last_event[w] \in Int
                       /\ sim_time - last_event[w] \in Nat
  BY <1>1 DEF TypeOK, Times, Inv, Clock
<1>7. ASSUME NEW w \in DOMAIN wells
      PROVE  /\ wells'[w] \in Entry
             /\ wells'[w].last_test = IF w \in Due THEN sim_time ELSE wells[w].last_test
             /\ wells'[w].wtest_report_step <= report_step
             /\ wells'[w].wtest_report_step = NotSet => wells'[w].num_attempt = 0
  <2>1. CASE w \in Considered
    <3>1. wells'[w] = tested(w) /\ w \in DOMAIN wtest_config
      BY <1>2, <1>7, <2>1, TestedEntry, <1>1
    <3>2. tested(w) \in Entry /\ tested(w).last_test = IF w \in Due THEN sim_time ELSE wells[w].last_test
      BY <1>1, <2>1, TestedEntry DEF Entry
    <3>3. tested(w).wtest_report_step = IF wells[w].wtest_report_step = NotSet \/ Outdated(w)
                                        THEN wtest_config[w].begin_report_step
                                        ELSE wells[w].wtest_report_step
      BY <1>1, <2>1, TestedEntry
    <3>4. wells[w].wtest_report_step <= report_step /\ wtest_config[w].begin_report_step <= report_step
      BY <1>7, <3>1 DEF Inv, Steps
    <3>5. wtest_config[w].begin_report_step # NotSet
      BY <1>1, <3>1 DEF TypeOK, NotSet
    <3>6. tested(w).wtest_report_step # NotSet
      BY <3>3, <3>5
    <3> QED
      BY <3>1, <3>2, <3>3, <3>4, <3>6
  <2>2. CASE w \notin Considered
    <3>1. w \notin Due
      BY <2>2, DueWell
    <3>2. wells'[w] = wells[w]
      BY <1>2, <1>7, <2>2
    <3>3. wells[w] \in Entry
      BY <1>1, <1>7 DEF TypeOK, Entry
    <3> QED
      BY <1>7, <3>1, <3>2, <3>3 DEF Inv, Steps
  <2> QED
    BY <2>1, <2>2
<1>8. used' \in [Wells -> Nat]
  <2>1. \A w \in Wells : (IF w \in Due THEN used[w] + 1 ELSE used[w]) \in Nat
    BY <1>1 DEF TypeOK
  <2> QED
    BY <2>1 DEF test_wells
<1>9. last_event' \in [Wells -> Times]
  <2>1. \A w \in Wells : (IF w \in Due THEN sim_time ELSE last_event[w]) \in Times
    BY <1>1 DEF TypeOK
  <2> QED
    BY <2>1 DEF test_wells
<1>10. waited' \in [Wells -> [after : Nat, interval : Nat]]
  <2> DEFINE wait(w) == IF w \in Due
                        THEN [after    |-> sim_time - last_event[w],
                              interval |-> wtest_config[w].test_interval]
                        ELSE waited[w]
  <2>1. ASSUME NEW w \in Wells
        PROVE  wait(w) \in [after : Nat, interval : Nat]
    <3>1. CASE w \in Due
      <4>1. wtest_config[w].test_interval \in Nat
        BY <1>1, <3>1, DueWell DEF TypeOK
      <4> QED
        BY <1>6, <3>1, <4>1
    <3>2. CASE w \notin Due
      BY <1>1, <3>2 DEF TypeOK
    <3> QED
      BY <3>1, <3>2
  <2>2. waited' = [w \in Wells |-> wait(w)]
    BY DEF test_wells
  <2> QED
    BY <2>1, <2>2
<1>11. TypeOK'
  <2>1. DOMAIN wells' \subseteq Wells /\ \A w \in DOMAIN wells' : wells'[w] \in Entry
    BY <1>1, <1>2, <1>7 DEF TypeOK
  <2> QED
    BY <1>1, <1>2, <1>8, <1>9, <1>10, <2>1 DEF TypeOK, Entry
<1>12. Steps'
  BY <1>2, <1>7 DEF Inv, Steps
<1>13. Clock'
  <2>1. \A w \in Wells : last_event'[w] <= sim_time
    BY <1>4, <1>6 DEF Inv, Clock
  <2>2. DOMAIN wells \subseteq Wells
    BY <1>1 DEF TypeOK
  <2>3. restarts = 0 => \A w \in DOMAIN wells' : wells'[w].last_test = last_event'[w]
    BY <1>2, <1>4, <1>7, <2>2 DEF Inv, Clock
  <2> QED
    BY <1>2, <2>1, <2>3 DEF Clock
<1>14. \A w \in Wells : Count(w)' = Count(w) + (IF w \in Due THEN 1 ELSE 0)
  BY <1>1, CountTested
<1>15. \A w \in Wells : Count(w) \in Int /\ used[w] \in Nat /\ limit[w] \in Nat
  BY <1>1, AttemptsType DEF TypeOK, Count
<1>16. Exact'
  <2>1. ASSUME restarts = 0, NEW w \in Wells
        PROVE  /\ carried[w] + used'[w] = Tests(w)'
               /\ w \in DOMAIN wells => wells'[w].wtest_report_step <= began[w]
    <3>1. /\ carried[w] + used[w] = Tests(w) /\ carried[w] \in Nat
          /\ w \in DOMAIN wells => wells[w].wtest_report_step <= began[w]
      BY <1>1, <2>1 DEF Inv, Exact, TypeOK
    <3>2. CASE w \notin Considered
      <4>1. w \notin Due
        BY <3>2, DueWell
      <4>2. w \in DOMAIN wells => wells'[w] = wells[w]
        BY <1>2, <3>2
      <4>3. Tests(w)' = Tests(w)
        BY <1>2, <4>2, TestsKept
      <4> QED
        BY <1>3, <2>1, <3>1, <4>1, <4>2, <4>3
    <3>3. CASE w \in Considered
      <4>1. /\ w \in DOMAIN wells /\ w \in DOMAIN wtest_config /\ wells'[w] = tested(w)
            /\ wells'[w].num_attempt = Attempts(w) + (IF w \in Due THEN 1 ELSE 0)
            /\ wells'[w].wtest_report_step = IF wells[w].wtest_report_step = NotSet \/ Outdated(w)
                                             THEN wtest_config[w].begin_report_step
                                             ELSE wells[w].wtest_report_step
        BY <1>1, <1>2, <3>3, TestedEntry
      <4>2. wtest_config[w].begin_report_step = began[w]
        BY <2>1, <4>1 DEF Inv, Exact
      <4>3. /\ wells[w].wtest_report_step \in Int /\ began[w] \in Int
            /\ wells[w].wtest_report_step <= began[w]
        BY <1>1, <3>1, <4>1 DEF TypeOK, NotSet
      <4>4. wells'[w].wtest_report_step = began[w]
        BY <4>1, <4>2, <4>3 DEF Outdated
      <4>5. Attempts(w) = Tests(w)
        <5>1. CASE wells[w].wtest_report_step = began[w]
          BY <4>1, <4>2, <4>3, <5>1 DEF Attempts, Outdated, Tests
        <5>2. CASE wells[w].wtest_report_step # began[w] /\ wells[w].wtest_report_step # NotSet
          BY <4>1, <4>2, <4>3, <5>2 DEF Attempts, Outdated, Tests
        <5>3. CASE wells[w].wtest_report_step # began[w] /\ wells[w].wtest_report_step = NotSet
          BY <4>1, <5>3 DEF Inv, Steps, Attempts, Outdated, Tests
        <5> QED
          BY <5>1, <5>2, <5>3
      <4>6. Tests(w)' = Tests(w) + (IF w \in Due THEN 1 ELSE 0)
        BY <1>2, <4>1, <4>4, <4>5 DEF Tests
      <4>7. used'[w] = used[w] + (IF w \in Due THEN 1 ELSE 0) /\ used[w] \in Nat
        BY <1>3, <1>15, <2>1
      <4> QED
        BY <3>1, <4>3, <4>4, <4>6, <4>7
    <3> QED
      BY <3>2, <3>3
  <2>2. DOMAIN wells \subseteq Wells
    BY <1>1 DEF TypeOK
  <2> QED
    BY <1>2, <2>1, <2>2 DEF Inv, Exact
<1>17. Budget'
  <2>1. ASSUME NEW w \in Wells \ freed, limit[w] # 0
        PROVE  Within(w)'
    <3>1. Within(w)
      BY <2>1 DEF Inv, Budget
    <3>2. CASE w \notin Due
      <4>1. used'[w] = used[w] /\ Count(w)' = Count(w)
        BY <1>3, <1>14, <1>15, <2>1, <3>2
      <4> QED
        BY <1>2, <3>1, <4>1 DEF Within
    <3>3. CASE w \in Due
      <4>1. w \in DOMAIN wells /\ w \in DOMAIN wtest_config
            /\ (Attempts(w) < wtest_config[w].num_test \/ wtest_config[w].num_test = 0)
        BY <3>3, DueWell
      <4>2. wtest_config[w].num_test \in Int /\ Attempts(w) \in Int
        BY <1>1, <4>1, AttemptsType DEF TypeOK
      <4>3. Count(w) < wtest_config[w].num_test
        BY <3>1, <4>1 DEF Within, Count
      <4>4. used'[w] = used[w] + 1 /\ Count(w)' = Count(w) + 1
        BY <1>3, <1>14, <2>1, <3>3
      <4>5. used[w] + wtest_config[w].num_test - Count(w) <= limit[w]
            /\ wtest_config[w].num_test # 0 /\ wtest_config[w].num_test <= limit[w]
        BY <3>1, <4>1 DEF Within
      <4>6. /\ used'[w] <= limit[w]
            /\ used'[w] + wtest_config[w].num_test - Count(w)' <= limit[w]
        <5>1. used[w] \in Int /\ limit[w] \in Int /\ Count(w) \in Int
          BY <1>15, <2>1
        <5> HIDE DEF Count
        <5> QED
          BY <4>2, <4>3, <4>4, <4>5, <5>1
      <4> QED
        BY <1>2, <4>5, <4>6 DEF Within
    <3> QED
      BY <3>2, <3>3
  <2> QED
    BY <1>2, <2>1 DEF Budget
<1>18. IntervalKept'
  <2>1. ASSUME restarts = 0, NEW w \in Wells
        PROVE  waited'[w].after >= waited'[w].interval
    <3>1. CASE w \in Due
      <4>1. /\ w \in DOMAIN wells
            /\ sim_time - wells[w].last_test >= wtest_config[w].test_interval
        BY <3>1, DueWell
      <4>2. wells[w].last_test = last_event[w]
        BY <2>1, <4>1 DEF Inv, Clock
      <4>3. waited'[w] = [after    |-> sim_time - last_event[w],
                          interval |-> wtest_config[w].test_interval]
        BY <1>5, <2>1, <3>1
      <4>4. /\ waited'[w].after = sim_time - last_event[w]
            /\ waited'[w].interval = wtest_config[w].test_interval
        BY <4>3
      <4> QED
        BY <4>1, <4>2, <4>4
    <3>2. CASE w \notin Due
      BY <1>5, <2>1, <3>2 DEF Inv, IntervalKept
    <3> QED
      BY <3>1, <3>2
  <2> QED
    BY <1>2, <2>1 DEF IntervalKept
<1> QED
  BY <1>11, <1>12, <1>13, <1>16, <1>17, <1>18 DEF Inv

-----------------------------------------------------------------------------
(***************************************************************************)
(* Restarting                                                              *)
(***************************************************************************)
(* The file carries the tests left, and the counting starts anew.          *)
LEMMA RestartInv ==
  ASSUME Inv, restart
  PROVE  Inv'
<1>1. TypeOK /\ Steps /\ phase = "output"
  BY DEF Inv, restart
<1>2. /\ wtest_config' = RestoredConfig /\ wells' = RestoredWells /\ phase' = "input"
      /\ restarts' = restarts + 1 /\ restarts < MaxRestarts
      /\ freed' = freed \cup {w \in DOMAIN wtest_config : restart_well(w).num_test = 1}
      /\ UNCHANGED <<report_step, sim_time, limit, used, began, carried, last_event, waited>>
  BY DEF restart
<1>3. DOMAIN completions' = {}
  BY DEF restart, Empty
<1>4. restarts' \in 0 .. MaxRestarts /\ restarts' # 0
  BY <1>1, <1>2, WTestConstants DEF TypeOK
<1>5. DOMAIN wtest_config' = DOMAIN wtest_config
  BY <1>2 DEF RestoredConfig
<1>6. \A w \in DOMAIN wtest_config :
        /\ wtest_config'[w] \in Config
        /\ wtest_config'[w].begin_report_step = report_step - 1
        /\ wtest_config'[w].num_test =
             wtest_config[w].num_test - (IF w \in DOMAIN wells THEN wells[w].num_attempt ELSE 0)
  BY <1>1, <1>2, RestoredTypes
<1>7. \A w \in DOMAIN wells' : /\ w \in DOMAIN wtest_config
                               /\ wells'[w] \in Entry
                               /\ wells'[w].num_attempt = 0
                               /\ wells'[w].wtest_report_step = NotSet
  BY <1>1, <1>2, RestoredEntry
<1>8. report_step \in 0 .. EndStep /\ report_step >= 1
  BY <1>1 DEF TypeOK, Steps
<1>9. TypeOK'
  <2>1. /\ DOMAIN wells' \subseteq Wells /\ DOMAIN wtest_config' \subseteq Wells /\ freed' \subseteq Wells
        /\ \A w \in DOMAIN wells' : wells'[w] \in Entry
        /\ \A w \in DOMAIN wtest_config' : wtest_config'[w] \in Config
    BY <1>1, <1>2, <1>5, <1>6, <1>7 DEF TypeOK
  <2> QED
    BY <1>1, <1>2, <1>3, <1>4, <2>1 DEF TypeOK, Entry, Config
<1>10. Steps'
  <2>1. NotSet < report_step
    BY <1>8 DEF NotSet
  <2>2. \A w \in DOMAIN wtest_config' : wtest_config'[w].begin_report_step <= report_step
    BY <1>5, <1>6, <1>8
  <2>3. \A w \in DOMAIN wells' : /\ wells'[w].wtest_report_step < report_step
                                 /\ wells'[w].wtest_report_step <= report_step
                                 /\ wells'[w].num_attempt = 0
    BY <1>7, <1>8, <2>1 DEF NotSet
  <2> QED
    BY <1>2, <2>2, <2>3 DEF Steps
<1>11. Clock' /\ Exact' /\ IntervalKept'
  BY <1>2, <1>4 DEF Inv, Clock, Exact, IntervalKept
<1>12. \A w : Count(w)' = 0
  BY <1>7 DEF Count, Attempts
<1>13. Budget'
  <2>1. ASSUME NEW w \in Wells \ freed', limit[w] # 0
        PROVE  Within(w)'
    <3>1. Within(w) /\ limit[w] \in Nat /\ used[w] \in Nat
      BY <1>1, <1>2, <2>1 DEF Inv, Budget, TypeOK
    <3>2. CASE w \notin DOMAIN wtest_config
      BY <1>2, <1>5, <3>1, <3>2 DEF Within
    <3>3. CASE w \in DOMAIN wtest_config
      <4> DEFINE made == IF w \in DOMAIN wells THEN wells[w].num_attempt ELSE 0
      <4>1. wtest_config[w].num_test \in Int /\ made \in Nat
        BY <1>1, <3>3 DEF TypeOK
      <4>2. Count(w) \in Int /\ Count(w) <= made
        BY <1>1, AttemptsType DEF Count
      <4>3. wtest_config'[w].num_test = wtest_config[w].num_test - made
        BY <1>6, <3>3
      <4>4. restart_well(w).num_test # 1
        BY <1>2, <2>1, <3>3
      <4>5. restart_well(w).num_test = wtest_config[w].num_test + 1 - made
        BY DEF restart_well
      <4> HIDE DEF made
      <4>6. wtest_config'[w].num_test # 0
        BY <4>1, <4>3, <4>4, <4>5
      <4>7. /\ used[w] <= limit[w]
            /\ wtest_config[w].num_test <= limit[w]
            /\ used[w] + wtest_config[w].num_test - Count(w) <= limit[w]
        BY <3>1, <3>3 DEF Within
      <4>8. /\ wtest_config'[w].num_test <= limit[w]
            /\ used[w] + wtest_config'[w].num_test - 0 <= limit[w]
        BY <3>1, <4>1, <4>2, <4>3, <4>7
      <4> QED
        BY <1>2, <1>12, <4>6, <4>7, <4>8 DEF Within
    <3> QED
      BY <3>2, <3>3
  <2> QED
    BY <1>2, <2>1 DEF Budget
<1> QED
  BY <1>9, <1>10, <1>11, <1>13 DEF Inv

-----------------------------------------------------------------------------
(***************************************************************************)
(* Theorems                                                                *)
(***************************************************************************)
LEMMA NextInv ==
  ASSUME Inv, [Next]_vars
  PROVE  Inv'
<1>1. \A w \in Wells, reasons \in WTests, i \in Intervals, n \in NumTests :
        add_well(w, reasons, i, n) => Inv'
  BY AddInv
<1>2. \A w \in Wells : drop_well(w) => Inv'
  BY DropInv
<1>3. \A w \in Wells, r \in Reasons : close_well(w, r) => Inv'
  BY CloseInv
<1>4. \A w \in Wells : open_well(w) => Inv'
  BY OpenInv DEF open_well
<1>5. \A w \in Wells, c \in Complnums : close_completion(w, c) \/ open_completion(w, c) => Inv'
  BY CompletionsInv
<1>6. \A w \in Wells : open_completions(w) => Inv'
  BY CompletionsInv
<1>7. \A existing \in SUBSET Wells : filter_wells(existing) => Inv'
  BY OpenInv DEF filter_wells
<1>8. test_wells => Inv'
  BY TestInv
<1>9. clear => Inv'
  BY ClearInv
<1>10. restart => Inv'
  BY RestartInv
<1>11. UNCHANGED vars \/ simulate \/ nextTimeStep \/ nextReportStep \/ written => Inv'
  BY IdleInv
<1> QED
  BY <1>1, <1>2, <1>3, <1>4, <1>5, <1>6, <1>7, <1>8, <1>9, <1>10, <1>11 DEF Next

(* The invariant of the specification.                                     *)
THEOREM InvHolds == Spec => []Inv
<1>1. Inv /\ [Next]_vars => Inv'
  BY NextInv
<1> QED
  BY <1>1, InitInv, PTL DEF Spec

(* Entries and configurations keep their types under all calls, WTESTs and *)
(* restarts; the step before a restart exists.                             *)
THEOREM TypeCorrect == Spec => []TypeOK
<1>1. Inv => TypeOK
  BY DEF Inv
<1> QED
  BY <1>1, InvHolds, PTL

(* A well is tested no more often than its last WTEST allows, across any   *)
(* number of restarts that found a test left.                              *)
THEOREM LimitStaysKept == Spec => []LimitKept
<1>1. Inv => LimitKept
  BY DEF Inv, Budget, Within, LimitKept
<1> QED
  BY <1>1, InvHolds, PTL

(* Without a restart no well is tested before its interval is over.        *)
THEOREM IntervalStaysKept == Spec => []IntervalKept
<1>1. Inv => IntervalKept
  BY DEF Inv
<1> QED
  BY <1>1, InvHolds, PTL

(* Without a restart test_wells finds every well that is owed a test,      *)
(* WTESTs given by actions included: the tests held against it are those   *)
(* under the WTESTs of the report step of the last one.                    *)
THEOREM DueStaysTested == Spec => []DueTested
<1>1. ASSUME Inv, restarts = 0, NEW w \in Wells, TestOwed(w)
      PROVE  w \in Due
  <2>1. w \in Considered /\ w \in DOMAIN wells /\ w \in DOMAIN wtest_config
    BY <1>1 DEF TestOwed, Rested, Considered, has
  <2>2. wells[w].last_test = last_event[w]
    BY <1>1, <2>1 DEF Inv, Clock
  <2>3. /\ wtest_config[w].num_test = limit[w] /\ wtest_config[w].begin_report_step = began[w]
        /\ wells[w].wtest_report_step <= began[w] /\ carried[w] + used[w] = Tests(w)
    BY <1>1, <2>1 DEF Inv, Exact
  <2>4. /\ wells[w].wtest_report_step \in Int /\ began[w] \in Int /\ wells[w].num_attempt \in Nat
        /\ wells[w].wtest_report_step = NotSet => wells[w].num_attempt = 0
    BY <1>1, <2>1 DEF Inv, TypeOK, Steps, NotSet
  <2>5. carried[w] + used[w] = Attempts(w)
    BY <2>1, <2>3, <2>4 DEF Tests, Attempts, Outdated
  <2>6. test_well(wtest_config[w], Attempts(w), sim_time - wells[w].last_test)
    BY <1>1, <2>2, <2>3, <2>5 DEF TestOwed, Rested, test_well
  <2> QED
    BY <2>1, <2>6 DEF Due
<1>2. Inv => DueTested
  BY <1>1 DEF DueTested
<1> QED
  BY <1>2, InvHolds, PTL

-----------------------------------------------------------------------------
(***************************************************************************)
(* The reasons in the restart file                                         *)
(***************************************************************************)
(* A product of the first five primes, each taken once or not at all,      *)
(* tells which of them were taken.                                         *)
LEMMA PrimesTaken ==
  ASSUME NEW a \in {1, 2}, NEW b \in {1, 3}, NEW c \in {1, 5}, NEW d \in {1, 7}, NEW e \in {1, 11}
  PROVE  /\ (a * b * c * d * e) % 2 = 0 <=> a = 2
         /\ (a * b * c * d * e) % 3 = 0 <=> b = 3
         /\ (a * b * c * d * e) % 5 = 0 <=> c = 5
         /\ (a * b * c * d * e) % 7 = 0 <=> d = 7
         /\ (a * b * c * d * e) % 11 = 0 <=> e = 11
<1>1. CASE a = 1 /\ b = 1
  BY <1>1
<1>2. CASE a = 1 /\ b = 3
  BY <1>2
<1>3. CASE a = 2 /\ b = 1
  BY <1>3
<1>4. CASE a = 2 /\ b = 3
  BY <1>4
<1> QED
  BY <1>1, <1>2, <1>3, <1>4

(* The reasons of a configuration are read back from their product. *)
LEMMA ReasonsReadBack ==
  ASSUME NEW S \in SUBSET ConfigReasons
  PROVE  inverse_ecl_reasons(ecl_reasons(S)) = S
<1> DEFINE a == Factor(S, "PHYSICAL")
           b == Factor(S, "ECONOMIC")
           c == Factor(S, "GROUP")
           d == Factor(S, "THP_DESIGN")
           e == Factor(S, "COMPLETION")
<1>1. /\ a = (IF "PHYSICAL" \in S THEN 2 ELSE 1)
      /\ b = (IF "ECONOMIC" \in S THEN 3 ELSE 1)
      /\ c = (IF "GROUP" \in S THEN 5 ELSE 1)
      /\ d = (IF "THP_DESIGN" \in S THEN 7 ELSE 1)
      /\ e = (IF "COMPLETION" \in S THEN 11 ELSE 1)
  BY DEF Factor, Prime
<1>2. ecl_reasons(S) = a * b * c * d * e
  BY DEF ecl_reasons
<1> HIDE DEF a, b, c, d, e
<1>3. /\ a \in {1, 2} /\ b \in {1, 3} /\ c \in {1, 5} /\ d \in {1, 7} /\ e \in {1, 11}
      /\ a = 2 <=> "PHYSICAL" \in S
      /\ b = 3 <=> "ECONOMIC" \in S
      /\ c = 5 <=> "GROUP" \in S
      /\ d = 7 <=> "THP_DESIGN" \in S
      /\ e = 11 <=> "COMPLETION" \in S
  BY <1>1
<1>4. /\ ecl_reasons(S) % 2 = 0 <=> "PHYSICAL" \in S
      /\ ecl_reasons(S) % 3 = 0 <=> "ECONOMIC" \in S
      /\ ecl_reasons(S) % 5 = 0 <=> "GROUP" \in S
      /\ ecl_reasons(S) % 7 = 0 <=> "THP_DESIGN" \in S
      /\ ecl_reasons(S) % 11 = 0 <=> "COMPLETION" \in S
  BY <1>2, <1>3, PrimesTaken
<1>5. ASSUME NEW r \in ConfigReasons
      PROVE  ecl_reasons(S) % Prime(r) = 0 <=> r \in S
  BY <1>4 DEF ConfigReasons, Prime
<1> QED
  BY <1>5 DEF inverse_ecl_reasons

(* The reason of closing is read back from its code, which is never the 0  *)
(* of an open well.                                                        *)
LEMMA ReasonReadBack ==
  ASSUME NEW r \in Reasons
  PROVE  CloseReason(r) # 0 /\ inverse_ecl_reason(CloseReason(r)) = r
<1>1. /\ CloseReason("NONE") = 1 /\ CloseReason("PHYSICAL") = 3 /\ CloseReason("ECONOMIC") = 5
      /\ CloseReason("GROUP") = 6 /\ CloseReason("THP_DESIGN") = 9
  BY DEF CloseReason
<1>2. \A q, s \in Reasons : CloseReason(q) = CloseReason(s) => q = s
  BY <1>1 DEF Reasons
<1>3. CloseReason(r) # 0
  BY <1>1 DEF Reasons
<1> QED
  BY <1>2, <1>3 DEF inverse_ecl_reason

(* Only a restart adds to the number of restarts. *)
LEMMA OnlyRestarts == ASSUME Next, restarts' # restarts PROVE restart
<1>1. \A w, reasons, i, n : add_well(w, reasons, i, n) \/ drop_well(w) => restarts' = restarts
  BY DEF add_well, drop_well
<1>2. \A w, r : close_well(w, r) \/ open_well(w) => restarts' = restarts
  BY DEF close_well, open_well
<1>3. \A w, c : close_completion(w, c) \/ open_completion(w, c) \/ open_completions(w) => restarts' = restarts
  BY DEF close_completion, open_completion, open_completions
<1>4. \A existing : filter_wells(existing) => restarts' = restarts
  BY DEF filter_wells
<1>5. test_wells \/ clear \/ simulate \/ nextTimeStep \/ nextReportStep \/ written => restarts' = restarts
  BY DEF test_wells, clear, simulate, nextTimeStep, nextReportStep, written
<1> QED
  BY <1>1, <1>2, <1>3, <1>4, <1>5 DEF Next

(* A restart brings back for which reasons a well is tested and why a well *)
(* that is tested was closed.                                              *)
THEOREM ReasonsSurvive == Spec => RestartKeepsReasons
<1>1. ASSUME Inv, restart, NEW w \in DOMAIN wtest_config
      PROVE  /\ w \in DOMAIN wtest_config' /\ wtest_config'[w].reasons = wtest_config[w].reasons
             /\ (w \in DOMAIN wells /\ wells[w].closed) <=> w \in DOMAIN wells'
             /\ w \in DOMAIN wells' => wells'[w].reason = wells[w].reason
  <2>1. wtest_config' = RestoredConfig /\ wells' = RestoredWells
    BY <1>1 DEF restart
  <2>2. wtest_config[w].reasons \in SUBSET ConfigReasons
    BY <1>1 DEF Inv, TypeOK
  <2>3. w \in DOMAIN RestoredConfig /\ RestoredConfig[w].reasons = wtest_config[w].reasons
    BY <2>2, ReasonsReadBack DEF RestoredConfig, restart_well
  <2>4. ASSUME w \in DOMAIN wells PROVE wells[w].reason \in Reasons
    BY <1>1, <2>4 DEF Inv, TypeOK
  <2>5. restart_well(w).close_reason =
          IF w \in DOMAIN wells /\ wells[w].closed THEN CloseReason(wells[w].reason) ELSE 0
    BY DEF restart_well, int_reason
  <2>6. w \in DOMAIN RestoredWells <=> restart_well(w).close_reason # 0
    BY DEF RestoredWells
  <2>7. (w \in DOMAIN wells /\ wells[w].closed) <=> w \in DOMAIN RestoredWells
    BY <2>4, <2>5, <2>6, ReasonReadBack
  <2>8. ASSUME w \in DOMAIN RestoredWells PROVE RestoredWells[w].reason = wells[w].reason
    <3>1. RestoredWells[w].reason = inverse_ecl_reason(restart_well(w).close_reason)
      BY <2>8 DEF RestoredWells, WTestWell
    <3> QED
      BY <2>4, <2>5, <2>7, <2>8, <3>1, ReasonReadBack
  <2> QED
    BY <2>1, <2>3, <2>7, <2>8
<1>2. ASSUME Inv, [Next]_vars, restarts' # restarts
      PROVE  restart
  BY <1>2, OnlyRestarts DEF vars
<1>3. Inv /\ [Next]_vars =>
        (restarts' # restarts =>
           \A w \in DOMAIN wtest_config :
             /\ w \in DOMAIN wtest_config' /\ wtest_config'[w].reasons = wtest_config[w].reasons
             /\ (w \in DOMAIN wells /\ wells[w].closed) <=> w \in DOMAIN wells'
             /\ w \in DOMAIN wells' => wells'[w].reason = wells[w].reason)
  BY <1>1, <1>2
<1> QED
  BY <1>3, InvHolds, PTL DEF Spec, RestartKeepsReasons
=============================================================================
