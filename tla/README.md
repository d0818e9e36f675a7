# Verification of opm-common

TLA+ specifications of the parts of opm-common that keep state while a simulation runs, the TLC
runs that check them on small instances, and TLAPS proofs about them. Paths below are relative to
`src/`; `Schedule/` stands for `opm/input/eclipse/Schedule/`.

opm-common is the input and output layer of the OPM simulators. Most of it is a pipeline without
state of its own: parse a deck, build tables and grid properties, write files. What is hard is the
*dynamic* input. The SCHEDULE section is turned into one complete state per report step before the
simulation starts, and is then rewritten **while the simulation is under way**: ACTIONX blocks that
trigger, Python scripts (PYACTION) that call back into the schedule, runs that continue from a
restart file. Each of these truncates the list of states and rebuilds the rest. The project starts
there.

## 1. Inventory

### 1.1 Components, their state and their operations

| component | state | operations that change it | modelled |
|---|---|---|---|
| `Schedule` (`Schedule/Schedule.cpp`, `ScheduleDeck.cpp`) | `m_sched_deck` (keywords per report step), `snapshots` (a `ScheduleState` per report step), `restart_output`, `exit_status`, `current_report_step`, `simUpdateFromPython` | constructor, `iterateScheduleSection`, `load_rst`, `applyAction`, `applyKeywords`, `runPyAction`, `open_well`/`stop_well`/`shut_well`, `modifyCompletions`, `applyWellProdIndexScaling` | partly: `ScheduleReplay`, abstract `ScheduleTimeline`; the last two in `ScheduleConnections` |
| `ScheduleState`, keyword handlers | wells, groups, actions, events, output configuration, tuning, ... of one report step | copy to the next step, one handler per keyword | partly: `ScheduleState` |
| `WriteRestartFileEvents` | a vector of 64-bit words | `resize`, `clearRemainingEvents`, `addRestartOutput` | all: `WriteRestartFileEvents`, abstract `RestartFileEvents` |
| `RSTConfig` | BASIC, FREQ, SAVE, mnemonics | `handleRPTRST`, `handleRPTSCHED` | BASIC and FREQ, in `ScheduleState` |
| `Action::Actions`, `Action::State` | definitions of ACTIONX and PYACTION; run count and time per name and id, matching wells and script results per name | `add`, `add_run`, `load_rst` | all: `ActionState` |
| `ActionX`, `PyAction`, conditions | condition tree, keywords, module | `ready`, `eval`, `run` | readiness, in `ActionState` |
| `msim` | a report step loop around `Schedule` and `EclipseIO` | `run`, `run_step`, `post_step` | the order of its calls |
| `WellTestState`, `WellTestConfig` | closed wells and completions, attempts, time of the last test | WTEST, close, open, `test_wells`, `filter_wells`, restart | all: `WellTestState` |
| `WListManager` | well lists, and per well the names and number of its lists | NEW, ADD, DEL, MOV, restart | all: `WListManager`, abstract `WellLists` |
| `RFTConfig` | RFT/PLT requests, wells that have opened | `update`, `well_open`, `next` | planned |
| `UDQConfig`, `UDQState`, `UDQActive` | definitions, assignments and which are pending; values; which target uses which quantity | `add_record`, `eval`, new report step, `update`, restart | `UDQConfig`, `UDQActive`, `UserDefinedQuantities` |
| group tree, `ExtNetwork` | parents and children; branches and nodes of the production network and of an injection network for each phase | `addGroupToGroup`, `addWellToGroup`, `add_or_replace_branch`, `drop_branch`, `update_node`, restart | `GroupTree`, `ExtNetwork`, `GroupNetwork`, `InjectionNetwork`, abstract `GroupForest` |
| `Well`, `WellConnections` | connections, completion numbers, shared between snapshots | COMPDAT, WELOPEN, COMPLUMP, WPIMULT, WELPI, `modifyCompletions` | `WellConnections`, `ScheduleConnections`; status and one connection in `ScheduleState` |
| `MessageLimiter`, OpmLog | counters by tag and category | `handleMessageLimits` | planned |
| `OutputStream`, `EclipseIO`, `RestartIO` | files | open for append, rewind a unified restart file, write | planned: the rewinding |
| `Parser`, `Deck` | input stack, SKIP state | include, skip, recognise | planned |
| `EclipseState`, grid, tables, material, `ml`, `json`, utilities | built once, or none | | not planned |

### 1.2 How they interact

```
 Parser -> Deck -> Schedule::Schedule ---- iterateScheduleSection --> snapshots[0..N-1]
                        ^   ^  |                                          |
        RstState (load_rst) |  +-- must_write_rst_file -> WriteRestartFileEvents
                            |                                             |
  simulator / msim:   output(step) ; pending actions -> applyAction --truncate, amend, replay
                                     pending scripts -> runPyAction
                                            |   script: open_well ... (batched)
                                            |           insert_keywords, actionx_callback (at once)
                                            +-- replay put off to the end, if something was batched
                     udq: UDQConfig::eval on the snapshot's object -> UDQState, SummaryState
                     WELPI event -> applyWellProdIndexScaling ; fracture -> modifyCompletions
                                    (both change connections in place, for all snapshots that share)
  Action::State <- add_run (after each run) ; written to the restart file by RestartIO
```

All of this is one thread. The concurrency is re-entrance: a script runs inside
`Schedule::runPyAction` and calls methods of the same `Schedule`, which truncate and rebuild the
vector that the outer call works on, or leave it truncated and set a flag for the outer call.

### 1.3 What is hard

* One operation, many loops: seven places resize `snapshots` or replay from some step to the end;
  each has its own idea of where to start and whether to replay at all.
* Batching: `delayed_iteration` (Off, Possible, On) is written in four functions and read in two.
* The same keyword is handled at construction, when an action adds it, and in every later replay;
  what it does must not depend on which.
* State that lives in a snapshot only (the wells of a restart file) and in no keyword.
* Accumulated state outside the snapshots (`restart_output`, `exit_status`, `Action::State`).
* Objects shared between snapshots: a copy of a snapshot shares its groups, quantities and
  connections until a handler puts a changed copy in their place; some handlers, the evaluation of
  quantities, scaling and fractures change the object itself.
* One fact kept twice: parent and list of children, well and list, node and its branches, a use of
  a quantity and its position in the file.
* Restart: what was counted before must count afterwards.

`PROJECT.json` lists the hazards line by line with the property that covers each.

### 1.4 What makes each component correct

* Schedule: one snapshot per report step whenever the simulator looks; snapshot *i* is step *i*;
  each snapshot is its predecessor taken through all the keywords given for its step; what lies
  before the latest PYACTION is never rewritten; restart output does not change in a replay; restart
  wells survive. The code keeps to the first of these only for some sequences of calls (2.1).
* WriteRestartFileEvents: behaves as a set of report steps, with exact membership and "latest
  earlier event" queries.
* Actions: never more runs than NUM, never closer than MIN_WAIT; what is recorded for a definition
  are its own runs, never those of an earlier one of the same name; SINGLE and FIRST_TRUE scripts
  stop. The header promises more about the first wait and NUM = 0 than the code does (section 5).
* WellTestState: no test before its interval is over, no more than the configured number, and none
  withheld, except that a WTEST cannot be told from an earlier one of the same report step; a restart
  keeps the reasons.
* WListManager: the lists are what the keyword says, the names and numbers kept by well agree with
  them, the restart file carries them all.
* UDQ: what was stated for one evaluation is evaluated once, definitions that are ON agree with what
  they read, a restarted run computes what the uninterrupted one does, and the file names the
  quantity and the wells of each argument.
* Groups and network: the two sides of the tree agree, it is the tree the keywords promise; in a
  network no node has two branches up and all ends are numbered nodes, the standard network of
  GRUPNET follows the tree, and what is written to the restart file gives both back. That the branches
  form no cycle is said in the code and not ensured (section 5). The branches of an injection network
  are those that GNETINJE gave, as far as the groups stay where they are.
* Connections: those of the present and of the future are what keywords, scaling and fractures say,
  whatever is shared; a request to open stands only for what is open.
* RFTConfig: a request is served once.

## 2. Modules

| module | models | remarks |
|---|---|---|
| `ScheduleState` | one snapshot, the step-to-step copy, ten keywords, `end_report`, `rst_file`, what a restart file adds | operators only; a keyword is a record, a failing keyword yields `FAILED` |
| `ScheduleReplay` | class `Schedule` | one action per operation; one iteration of the replay loop per step, so that half-built schedules are states |
| `ScheduleTimeline` | what `Schedule` promises | no truncation, no replay, no batching: every change is one step; it starts from the deck or from the wells of a restart file |
| `MCScheduleReplay` | decks for TLC | |
| `ReplayTimeline` | the refinement `ScheduleReplay` => `ScheduleTimeline` | a history variable holds the timeline: what the deck and the restart file determine, then the completion of the snapshots |
| `MCReplayTimeline` | the refinement on the decks of `MCScheduleReplay` | |
| `ScheduleReplayProofs` | proofs about `ScheduleReplay`, `ReplayTimeline` and `WriteRestartFileEvents` | |
| `RestartFileEvents` | a set of report steps | abstract |
| `WriteRestartFileEvents` | the bit vector, word by word and bit by bit | a word is the set of its one-bits |
| `MCWriteRestartFileEvents` | report steps for TLC | |
| `ActionState`, `MCActionState` | `Actions`, `State`, `ActionX::ready`, `PyAction::ready`, and what the restart file carries of them | |
| `ActionStateProofs` | proofs about `ActionState` | |
| `WellLists` | named sets of wells | abstract |
| `WListManager`, `MCWListManager` | the lists, the names and numbers by well, WLIST, the restart | |
| `WListManagerProofs` | proofs about `WListManager`, with the refinement of `WellLists` | |
| `WellTestState`, `MCWellTestState` | `WellTestState`, `WellTestConfig`, WTEST, the restart | |
| `WellTestStateProofs` | proofs about `WellTestState` | |
| `UDQConfig`, `UDQActive` | one `UDQConfig` with its evaluation; the uses of quantities as arguments | operators only |
| `UserDefinedQuantities`, `MCUserDefinedQuantities` | the configurations of all report steps, time steps, actions, targets, restart | composes the two |
| `UserDefinedQuantitiesProofs` | proofs about `UserDefinedQuantities` | |
| `GroupForest` | what GRUPTREE and WELSPECS promise | abstract |
| `GroupTree`, `ExtNetwork` | the group tree kept at both ends; branches, nodes and their names, INODE and INOBR | operators only |
| `GroupNetwork` | the keywords that change them, report steps, restart | composes the two |
| `InjectionNetwork`, `MCGroupNetwork` | the same with GNETINJE, which builds the injection network of a phase beside it | extends `GroupNetwork` |
| `GroupNetworkProofs` | proofs about `GroupNetwork`, with the refinement of `GroupForest` | |
| `Recursion` | what folds and recursive functions compute, for a step and an invariant that are constants | for the proofs: one instance for each recursion |
| `WellConnections` | the connections of a well and what keywords, scaling and fractures do to them | operators only |
| `ScheduleConnections`, `MCScheduleConnections` | connections along the snapshots, shared and changed in place | the two in-place operations of `Schedule`, and its replays |
| `ScheduleConnectionsProofs` | proofs about `ScheduleConnections` | |

An operator whose comment says *variant with a fault* is not part of the model: it is a plausible
slip in the definition that follows it, kept to show that the properties notice it.

### 2.1 ScheduleReplay and the code

`snapshots`, `m_sched_deck`, `restart_output` (as a set; section 2.2 justifies this), `exit_status`,
`current_report_step` and `delayed_iteration` are the members of that name. `report_step` and
`load_end` are the loop of `iterateScheduleSection`; `Iterating` is true inside it. `mode` says who
is in control: the constructor, the simulator (`driver`), a script, or nobody (`failed` after an
exception, `crashed` after a default constructed state has been used). `sim` is the report step the
simulator has reached. `input`, `edited` and `calls` are history.

* `iterateScheduleSection` is one report step: `create_next`, the handlers of its keywords,
  `end_report`, `must_write_rst_file`, and the clearing of the keywords when they are not kept. When
  snapshots and steps are not aligned, handlers change `snapshots[report_step]` while ACTIONX and
  WELSPECS change `snapshots.back()`; the model does the same.
* `load_rst` and `constructed` are the parts of the constructor after the first and second loop.
* `addKeywords` is what `applyAction` and `applyKeywords` share: `snapshots.resize(step + 1)`, the
  new keywords handled and appended to the block, `end_report`, the ACTIONX events, the start of the
  replay. An exception ends the run (`failed`); growing the vector is a crash, since every member of
  a default constructed `ScheduleState` is a null pointer that `end_report` dereferences.
* `changeWellStatus` is `open_well`, `stop_well` and `shut_well`; within a script they are batched.
  `insert_keywords` and `actionx_callback` replay at once; only the former resets the flag.
* `runPyAction` and `pyActionDone` are the two halves of `Schedule::runPyAction`.

Which calls are made is stated by three constants, since the code cannot cope with all of them:
`MixedScripts` (a script mixes batched status calls with a replay at once), `FutureStatusCalls` (a
batched status call names a later report step), `LateDirectCalls` (calls from outside a script after
the run has started). With all three FALSE every property holds, and all but liveness are proved;
each of them TRUE leads to a divergence of section 5. Two properties
say what remains true of *all* calls, mixed, early and late ones included, and are checked and proved
for them: a default constructed snapshot only comes from a call whose replay is still put off
(`BlankNeedsBatch`), and no step before that of the latest PYACTION changes (`RefusedStepsFixed`).

Abstractions: two wells with at most one connection each; time is the calendar month of a report
step; restart configuration is BASIC, FREQ and the derived flag; an action is its list of keywords
and its condition is chosen freely with any set of matching wells.

### 2.2 WriteRestartFileEvents

The bit vector is modelled exactly, with `count_leading_zeros` as its five-step binary search and
the bits lost in shifting, and shown (by TLC around the word boundaries, by proof for every report
step) to implement a set of report steps. `ScheduleReplay` uses that set.

### 2.3 ActionState

The five phases of a report step follow `msim::run_step` and `post_step`: the restart file is
written first, then keywords may define or redefine actions, then all pending ACTIONX are collected
and run one by one, then the pending scripts. `add_run` and `conditionFails` are the two outcomes of
evaluating a condition. `restart` writes and reads IACT/SACT (run count + 1, last run) and rebuilds
the actions with id 0 and `start_time` = the restart time; scripts defined before the restart step
are skipped in the deck, as are their results in the file. Times are report steps. `RecordsRuns`
says whether the simulator calls `State::add_run` for an ACTIONX; simulators outside this repository
do, `msim` does not (section 5).

### 2.4 WListManager

`wlists`, `well_wlist_names` and `no_wlists_well` are the members of that name; a list and the names
of a well are sets, since their order is only used to write them. `newListCreate`, `newListReset`,
`addOrCreateWellList`, `move` and `del` are one record of WLIST each, with `AddNames`/`AddCounts` for
`addWListWell` and `DelNames`/`DelCounts` for `delWListWell`. The latter reduces the number of a well
but leaves the name of the list; the names are only cleared when the number is zero. `leftOne` is
history: the wells that were taken off one list by DEL or NEW while they stayed on another. For all
other wells names and number are exact (`MirrorExact`), and MOV makes a well exact again. `restart`
writes for each well its position on the lists of its names and creates the lists anew; with
`RestartAnytime` FALSE it is taken when `leftOne` is empty, and section 5 shows what happens
otherwise.

### 2.5 WellTestState

`wtest_config` and `wells` are partial functions from wells to the records of the code,
`completions` a partial function to non-empty sets. A report step is the writing of the restart
file, its keywords (`add_well`, `drop_well`), and simulation, in which the simulator calls the other
operations in any order, time passes, and an action may give WTEST again (`ActionX.cpp:126`). `Considered`, `Outdated`, `Attempts`, `Due` and `tested` are
the parts of the loop of `test_wells`. The restart is modelled with the codes of the file: the
product of primes, the codes of closing, and the number of tests left plus one (`restart_well`),
read back by `RestoredConfig` and `RestoredWells`. `limit`, `used`, `last_event` and `waited` record
what the deck asked for and what has happened since, independently of the entries of the code; `began` is
the report step of the last WTEST of a well and `carried` the number of its tests under earlier WTESTs
of that same step, which the code cannot tell from those of the last one;
`freed` the wells restarted with no test left, which the file cannot express (section 5).

### 2.6 User defined quantities

`UDQConfig` has the records of the code: `index` is `input_index` in the order of insertion (its
positions are the insertion indices), `action`, `def` (expression and status of the update), `asg`
(the records of an ASSIGN), `pending` and `units`. An expression is a quantity or `Rate`, a value of
the summary vector: what matters is when and in which order it is evaluated, not arithmetic.
`add_record` and what it calls, `eval` (assignments first, then definitions in their order),
`NewReportStep` (the two clearings in the copy constructor of `ScheduleState`) and `restored` are
operators on such a record.

`UserDefinedQuantities` keeps one configuration per report step, built beforehand as `Schedule` does
it, and `owner`, the snapshot whose object a snapshot shares. `Evaluate` is an evaluation after a
time step: it clears what was pending in the object, hence in all snapshots that share it.
`ApplyAction` adds records at the present step and has the later ones rebuilt. `WCONPROD` and
`WELTARG` give targets and book their arguments in `active` (`UDQActive::input_data`); `output` is
the cached `output_data`. `Restart` reads quantities, values and arguments back. `base`, `served`,
`once` and `lost` are history: the run as if it had never been restarted nor shared anything, and
whether that one has gone on without an error (`base.ok`), how often the last statement about a quantity was evaluated, whether it counts for one evaluation, and
whether a restart has dropped the ASSIGN records of a quantity that is DEFINEd at the time.

### 2.7 Groups and network

`tree` holds both representations, the parent of a group and the children of its parent, the group
of a well and the wells of a group; `addGroupToGroup` and `addWellToGroup` change them in the order
of the code. `net` is `ExtNetwork`: the vector of branches in their order, the nodes, and
the names in the order they were numbered, from which `cumNumberOfBranchesConnToNode` and
`inobrFunc` compute INODE and INOBR. A record that the code rejects sets `fault` and ends the run. `manifolds`, `before` and `shared` say
which groups are chokes now and in the snapshot before, and which group objects the two share.
A GRUPTREE record that would close a cycle is not a legal input; the handler does not look, and
`groupTree` would not end. `Restart` reads the tree (`Restored`) and the network (`restored_network`,
which enters branches before nodes, and makes every network an extended one). A record of BRANPROP
may close a cycle of branches, as in the code.

`InjectionNetwork` adds the other kind of `ExtNetwork`: one phase of GNETINJE, with a record as an
action. The other keywords leave it `Aside`, and a restart leaves none (`Forgotten`). `Dropped`, `Terminal` and `Linked` are the three branches of `constructInjectionNetwork`, for a
group with neither pressure nor table, with a pressure, and with a table. The upper end of a branch is
the parent that the group has when its record is read. Unlike the network of GRUPNET this one is not
looked at when `addGroupToGroup` moves a group (`Schedule.cpp:1626`). `said` and `moved` are history: the
parent to which the last record of a group put a branch, and whether the group has moved since.

### 2.8 Connections

A snapshot points to a set of connections; a set is named by the report step whose handlers made it,
since of those made during one step only the last remains in use. `handleBlock` handles the keywords
of a step one after the other and puts changed copies in place (`updateConnections`, which keeps the
old set when the new one is equal); `iterateScheduleSection` is a whole replay here, whose steps
`ScheduleReplay` tells apart. `applyWellProdIndexScaling` walks the wells from the present step on as
the code does: unique by value, skipped when the pointer is the one before, and scaled by the array
of positions (`scalingApplicable`) that is carried from one set to the next. `modifyCompletions`
changes the set of the present step in place and replays. Factors are powers of two, held as their
exponents, so that a scaling is an addition. `given` is history: what was done at each step, in its
order, from which `Said` computes the connections as values, without sharing, with the scaling to
the factors found or without it. Of several WELPIs of a block only the last one is given the factor:
there is one event and one target for the step. `skipped` is history too: whether a scaling has
passed over a set of connections that equals the one of the step before (`PassedOver`, section 5).
The order is that of the input or of depth; a cell is named by its depth.

## 3. Runs

| run | configuration | what it shows | states |
|---|---|---|---|
| `replay` | 4 report steps, 3 decks (one of them in error), 2 operations that add keywords | completeness, stable restart output, and the refinement of `ScheduleTimeline` | 42 815 |
| `replay_calls` | as `replay`, with all calls: mixed scripts, future status calls, late direct calls | what the check against the past refuses stays fixed, and blank states only come from a replay put off | 94 631 |
| `replay_restart` | restart at step 2 of 4, one well in the restart file, output interval 2, 3 operations | coherence, restart wells kept, and the refinement of `ScheduleTimeline` from a restart file | 90 066 |
| `replay_live` | restart at step 1 of 4, one well in the restart file, 2 short decks (one of them in error), 2 operations, `FairSpec` | a truncated schedule becomes whole or the run fails | 5 828 |
| `restart_events` | report steps 0, 1, 31, 32, 62..65, 127, 128, any sequence of operations | set semantics of the bit vector, both queries | 1 313 |
| `actions` | one action with two limits and two waits, one redefinition, two scripts, 4 steps, one restart | limits, waits, own runs only, scripts that stop | 188 767 |
| `wlists` | three lists, two wells, any sequence of operations and restarts | the sets WLIST promises, exact names and numbers, no underflow, changes reported | 9 313 |
| `well_tests` | one well, two sets of reasons, intervals 1 and 2, limits 0, 1, 2, 4 times, 3 report steps, WTEST by the deck and by actions, one restart | limits and intervals kept, no test withheld but those of one report step, reasons survive a restart | 1 532 568 |
| `udq` | two quantities, two wells, 3 report steps, 3 decks, 5 action blocks, 2 actions or keywords, restarts | one evaluation for what was stated once, settled definitions, transparent restart, arguments that can be followed through the file | 84 444 |
| `groups` | FIELD and two groups, one well, one node that is no group, any 5 records, report steps or restarts | one tree, the one promised; one branch up, numbered ends, the standard network follows; INODE and INOBR agree; faithful restart; injection branches as given | 369 967 |
| `connections` | three cells, 4 report steps with one keyword each out of nine, or with two at one later step, four action blocks, one fracture, one call, both orderings | the promised connections, nothing scaled twice, requests withdrawn, the first scaling spares the past | 519 048 |
| `connections_order` | see section 5 | the counterexample of a divergence | |

The type invariants are proved for every value of the constants (section 4); no run repeats them.

Bounds. Four report steps give a past, a current step, a step to be replayed and a further one whose
predecessor is itself replayed. Two operations allow a second replay over the result of a first, and
a batched call followed by another; the restart run allows three. The decks contain, in the replayed
part, a new well, a status request, a connection that is shut (so that `end_report` shuts the well),
a NEXTSTEP that persists or not, SAVE, and restart output by calendar and by interval that is
switched off again. An action matches any subset of the wells. The restart event run uses the first
and last bits of two words and the middle where the binary search splits. Three lists let a well be
on one list, leave a second and still be counted on a third; two wells let one operation treat wells
differently. The wells of `WellTestState` do not influence each other; two configurations, one in
force after the other, with up to three tests in between and a restart, exercise every branch of
`test_wells`.

Two quantities, each of which may read the other or the summary, are enough for a definition that is
introduced before and one that is introduced after what it reads; the decks assign, define, freeze
and evaluate once, and the actions repeat that at any step. Three groups (with FIELD) let a group
move between two parents and back, stay where it is, and lose what made it a group of groups; five
records suffice for a branch that is replaced, moved and read back. The two groups below FIELD are
interchangeable, and symmetry is used, since no liveness is checked. In `connections` the first step
has a COMPDAT and every step one keyword: a scaling with sets of connections that are shared, copied
and made anew before and after it, a replay through them, and an action or fracture in between. At
one of the later steps there may be two keywords: a pair that undoes itself, so that a scaling passes
over a set that is made anew but equal, or a COMPDAT and a WELPI in either order. What `AsPromised`
then says depends on `ScalingExact`; the cases it leaves out are those of section 5.

Deadlock is not checked for schedules, actions and well tests: a run ends at its last report step,
when EXIT was given, or with a failure; nor for well lists, which no operation
ever blocks, quantities, groups and connections, where a run ends at its bound or with an error.

Fairness (`FairSpec`): the loop of `iterateScheduleSection` and the constructor are sequential code,
and a script is assumed to return. Nothing is assumed about the simulator or about calls being made.

## 4. Proofs

`ScheduleReplayProofs`: for every deck, number of steps, set of wells, set of inserted keywords and
number of calls:

* `TypeCorrect` - the type invariant;
* `BlankStatesNeedBatches` (`BlankNeedsBatch`) and `RefusedStepsStayFixed` (`RefusedStepsFixed`) -
  for all calls, whatever the three constants are;
* `PastStaysFixed` - `HistoryFixed`, the whole past of the simulator, where there are *no late direct
  calls*; scripts may be mixed and name later steps;
* `ReplaysComplete` - `SnapshotsComplete` under the discipline *no mixed scripts, no future status
  calls, no late direct calls*;
* `RestartWellsStay` - `RestartWellsKept` under the same discipline;
* `ReplaysCoherent` - `Coherent`, and `RestartOutputKept` - `RestartOutputStable`, both also with a
  restart, under the same discipline and where the schedule keeps its keywords (`KeywordsAreKept`:
  the driver asks for it, or the deck has an action or a script);
* `ReplayImplementsTimeline` - `ImplementsTimeline`, the refinement of `ScheduleTimeline`, under both,
  from the deck alone and from a restart file.

The inductive invariants, in the order in which they rest on each other:

* `Shape` relates the length of `snapshots` to the control state: inside the loop it is
  `report_step`; outside it is `N`, except in a script whose replay has been put off, where it is
  `sim + 1` and the flag is On; and the flag is Off until the first script has run, so that a direct
  call is never batched. Completeness alone says nothing about the states in between, from which the
  next replay starts. What the handlers do plays no part in it: `ReplaysComplete` treats
  `processBlock` as an arbitrary function.
* `CallsInv` is what remains of `Shape` for all calls. The snapshots always reach as far as the
  latest PYACTION (`current_report_step <= Len(snapshots)`), wherever a replay starts it starts behind
  that (`Behind`), and outside the loop the vector is only shorter than the deck while a replay is put
  off (`Batched`: the flag is On, or a script has begun over a direct call that was batched). The two
  theorems about all calls and `PastStaysFixed` rest on it. It does not say that the vector has one
  state per step, which is false then.
* `ReplayInv`: every snapshot is a proper state of its report step, all keywords held are legal, and
  neither the loop nor the simulator is at a step before the restart (`FromRestart`), the reason why
  no replay passes the one snapshot in which the wells of the file were entered. That no handler
  removes a well is proved handler by handler and carried through the block.
* `NothingDropped`: `m_sched_deck` still holds all keywords given. Without it a replay would forget
  an insertion. `EditedByConstructor`: while the deck is read, only the two steps that a restart file
  changes count as edited.
* `OutputsInv`: the keywords fix a configuration of restart output for each step; each snapshot
  carries that of its step, and every step that has been decided on and is due by it is in
  `restart_output`, so that deciding again adds nothing. The keywords that configure output
  (`RPTRST`, `SAVE`) are not ones an action or a script may hold, so that additions leave the
  configurations as they are.
* `Completed`: once the schedule is constructed, the history variable is the completion of the
  snapshots. A step of the replay loop adds what the completion already has (completions of a
  sequence are unique, `ExtendsOnce`), so that it is a stutter; an operation replaces the timeline
  from its step on, as the abstract one does. Before that the timeline is what the deck and the
  restart file determine (`Started`), and the snapshots lead to it in two parts (`Beginning`): up to
  the restart step they are completed as from nothing, after `load_rst` as from what it has loaded.
  The events merged into the restart step come in last, when nothing is left to complete.

The deck of the constructor may be any whose blocks are legal (`LegalBlock`), scripts insert any
keywords `PyAction::valid_keyword` admits, and the body of an `ACTIONX` any that
`ActionX::valid_keyword` admits (`ConstantsAssumption`). This is what `iterateScheduleSection` and
`applyKeywords` let through, unless the user has lowered the strictness of action parsing
(`m_lowActionParsingStrictness`), which is not modelled: there `RPTRST` in an action could change
restart output.

Also in `ScheduleReplayProofs`, about the restart events: `EventsTypeCorrect`, `OperationsAreExact`, `ImplementsSet` (refinement of
`RestartFileEvents`) and `QueriesAnswered`, for every set of report steps. The central lemma is that
`count_leading_zeros` of a non-empty set of positions is 63 minus its maximum; it is proved halving
step by halving step, with the invariant that the count plus the maximum of the remaining bits is
constant and that the maximum is at least 64 minus the width still searched.

`ActionStateProofs`: `TypeCorrect`, `LimitKept` (`RunsWithinLimit`), `WaitKept` (`MinWaitRespected`)
and `OwnRunsAreCounted` (`OwnRunsCounted`), for all actions, limits, waits and numbers of restarts, assuming that
the simulator records the runs (`RecordsRuns`); and `ScriptsDoStop`, without that assumption. The
limit is decided by what is recorded under the *name and id* of a definition, the property speaks of
the runs the definition has *had*. The inductive invariant therefore says that the two agree (before
the first restart exactly, afterwards in whether there was a run and when the last one was), that
nothing is recorded under an id that is still to be given out (`Known`: a redefinition does not
inherit the runs of the definition it replaces), and that the pending actions stay ready while others run (`StillReady`, needed since
they are collected before the first of them runs). For scripts it says that the result kept is the
last one returned.

`WListManagerProofs`: `TypeCorrect`, `CountsStayBacked`, `MirrorStaysExact`, `ChangesAreReported` and
`ImplementsLists` (refinement of `WellLists`), for all sets of lists and wells. `CountsBacked` - the
number of lists kept for a well is zero exactly if it has no names, and never more than its names -
is inductive together with the type invariant, although names and number no longer agree with the
lists once a well has left one of several lists by DEL or NEW. The number is therefore never reduced
below zero. `MOV` restores the agreement because the names it counts are then all names of the well
(`MoveEffect`). The refinement is proved for restarts taken while names and lists agree
(`~RestartAnytime`); for others it is false (section 5).

`WellTestStateProofs`: `TypeCorrect`, `LimitStaysKept`, `IntervalStaysKept`, `DueStaysTested` and
`ReasonsSurvive` (`RestartKeepsReasons`), for all wells, intervals, limits, lengths of the run and numbers of restarts. The properties speak of the
tests a well has *had* and of when it was really closed; the code decides by what it has stored. The
inductive invariant relates the two. `Steps` says that the step kept with a count is no later
than the report step, and earlier while the keywords of a report step are read: the count is then
recognised as outdated, and a WTEST of a new report step starts with all its tests.
`Exact` and `Clock` say that without a restart the count and the time stored are the real ones; the
real count is that of the tests under all WTESTs of one report step (`carried` and `used`), since the
step is all the code tells them apart by. `Budget` holds over restarts too: the tests made and
the tests the stored configuration still allows (`num_test` minus the count) are together no more than
the limit. It needs that the file subtracts the stored count, which is never less than the count of
the present configuration, and that a well whose tests are used up is excepted (`freed`), since the 0
that is read back for it means no limit. That the reasons come back from a product of primes is a lemma
about the first five of them (`PrimesTaken`).

`GroupNetworkProofs`: `TypeCorrect`, `TreeStaysSound` (from `SidesAgree` and `KindsStayApart`),
`NetworkStaysSound` (from `OneBranchUp`, `EndsStayNumbered` and `StandardFollows`),
`AllGroupsReachable` (`Reachable`), `InobrStaysIndexed` (`InobrIndexed`), `RestartGivesBack`
(`RestartFaithful`) and `ListsImplementForest` (refinement of `GroupForest`), for all groups, wells, nodes and numbers of records, assuming that FIELD is one of
finitely many groups, and that the value for *no group* is no group and no node. `Sound` of the tree - both sides agree, and a group has groups or wells - is
inductive: each of the handlers changes three objects one after another, and in between it does not
hold. For the network `NInv` adds to it what makes the code's search for *the* branch up of a node
meaningful: no node has two, and all ends are entered and numbered when a branch is. That a standard
network follows the tree needs both at once, since GRUPTREE moves the branch to the group that is
the new parent. A restart numbers the nodes anew by a recursion over the branches of the file;
`Recursion` has the rule that this needs. `Reachable` says that the walk of `groupTree` finds every
group. It is inductive together with `Sound` (`Walked`): a new group is hung below FIELD at once, and
a group that moves takes along all that is below it, unless its new parent is one of them, which is
the cycle that the guard keeps out. The walk is a closure by rounds, as many as there are groups; that
this many are enough is proved from the cardinality of what a round adds (`BelowIs`). `InobrIndexed`
compares two computations: INODE counts the branches of the nodes before, a fold, and INOBR joins
their lists, a concatenation. Both are shown to lay out each node's entries where those of the nodes
before end (`LaidOut`), one entry less for the first node, whose first branch both leave to the -1.

`UserDefinedQuantitiesProofs`: `TypeCorrect`, `CoherentHolds`, `EvaluatedOnceHolds`,
`DefinesSettledHolds`, `UsesAddressedHolds`, `ArgumentsRestoredHolds` and `RestartTransparentHolds`,
for every deck and action of legal records, any number of report steps, time steps, actions and
restarts. Four invariants carry them.

* `ConfigInv` is about configurations. Each of them is sound: the index has each known quantity
  once, only known ones have assignments, definitions and pending evaluations, and a quantity that
  is DEFINEd has a definition (`ConfigSound`). Snapshots that share an object are neighbours, are
  equal and have nothing to clear (`Sharing`): that is why an evaluation, which changes the object in
  place, changes no later snapshot that the deck makes from it. And a statement that counts for one
  evaluation is due until it is evaluated, and never again (`OnceSound`). `Coherent` and
  `EvaluatedOnce` follow. The restart rebuilds the configuration from the input order by a fold,
  the replay rebuilds the later ones by a recursive function.
* `BookInv` is about arguments: the book has one record for a well and a control, numbered by the
  index of the present configuration, a record for every target, and the cached IUAD records are
  those of the book or none. `IndexedBy` survives because the index only grows (`Extends`). That
  IUAD, a fold that counts, and IUAP, a recursive function that groups, are laid out alike
  (`OffsetsMatch`) is proved along the groups that have been taken out so far (`Laid`, `Blocks`). A
  restart goes through the records of the file with two indices; `ArgumentsRestored` needs that the
  last record read for a target is its only one.
* `ValuesInv` is about values: a definition agrees with what it reads after an evaluation, because
  definitions are evaluated in the order of the index, and `NEXT` and `OFF` are not counted
  (`SettledTo`).
* `RunInv` compares the run with the uninterrupted one: the values are the same and the
  configurations `Agree`. That is less than being equal, since a file does not hold everything: the
  index, the actions and what is pending are the same, and so are the definitions of what is
  DEFINEd, but of an ASSIGN only what its records give together counts, and the definition that an
  ASSIGN has put to rest, and the units, do not count. Every operation keeps the agreement. A
  restart does because a report step ends evaluated (`Done`: nothing is pending, no NEXT is left,
  which the file could not say) and because the value of an ASSIGN is then what its records give
  (`Applied`), so that the records made from the value give it again (`ReplayedBack`). The theorem
  leaves out two cases, which are real. A quantity that was ASSIGNed and then DEFINEd loses its
  ASSIGN records in the file (`lost`): should it be ASSIGNed again for some wells, the others have no
  value. And the units of a quantity that does not exist are not in the file either: a second,
  different UNITS is then an error in the uninterrupted run only (`base.ok`).

The assumptions on constants are that the records of decks and actions are of the kinds the
parser admits (`Legal`: a known quantity, an ASSIGN, DEFINE, UNITS or UPDATE with ON, OFF or NEXT),
that wells and targets are finite in number, and that a summary value and a number are not
quantities.

`ScheduleConnectionsProofs`: `TypeCorrect`, `RequestsStand` (`OpenRequestsStand`), `PastKept`
(`ScalingKeepsPast`), `Promised` (`AsPromised`) and `ScaledOnce` (`ScaledAtMostOnce`), for every deck,
action, fracture, factor, number of steps and of calls, and both orderings. The assumptions on the
constants are only of which kinds the keywords and the numbers are.

Where a list keeps its connections is of no account to what is promised, so the proofs go over from
lists to *views*: for every cell the connection that leads to it. That a keyword does to the view of
a list what it does to each cell, whatever the ordering, is proved keyword by keyword
(`Applied`); a block, a replay and a scaling are then statements about the *timeline* of views, and
the folds of the model become folds over views. The inductive invariant has two layers.

* `IInv` is about sharing. A snapshot holds a set made at its step or before, and what lies between
  shares it (`IsTimeline`, `Sharing`); the steps to come are what the deck makes of the step before
  (`Ahead`); a request is for a connection that is open (`Standing`); as long as nothing has been
  scaled and no step has a WELPI, nothing is subject to scaling, so that the first WELPI makes a
  copy (`Sourced`, `Copied`). `TypeOK`, `OpenRequestsStand` and `ScalingKeepsPast` follow.
* `FInv` is about factors. A scaling changes the factors of connections of steps to come in place,
  but a replay makes those steps anew from the present one, with the keywords of the deck and without
  the scaling. So the invariant cannot say that later steps are what the deck makes of the present
  one: of the views before and after the keywords of a step it asks for agreement in which
  connections are subject to scaling (`Flagged`, `Alike`), and separately that the present view and
  all later ones follow the tale of what was said (`ExactFor` with scaling; `OnceFor` with or
  without it for each connection). The step of the invariant is the scaling: along the steps to come
  the scaled and the unscaled tale differ, for exactly the cells that the array of positions would
  still admit (`Shifted`, `Kept`), by the factor found. That positions are as good as cells holds
  while connections keep their places, which is why `AsPromised` is about the order of the input.
  `ScaledAtMostOnce` needs no such thing: whatever the positions, what is scaled is subject to
  scaling, hence not reset by COMPDAT, and each set is scaled at most once. It leaves out decks with
  WELPI at several steps, where a connection may follow the first scaling and miss the second.

`Recursion`: a step `Op` and an invariant `Inv` are constants of the module, and its theorems say
that a fold (`FoldLeft` of the community modules, written out as `MapThenFoldSet`) or a recursive
function over an interval keeps the invariant, and unfolds as its equation says. Each recursion of
the models is an instance of it, so that no operator has to be a parameter of a theorem, which the
provers at hand cannot instantiate. It rests on induction over the natural numbers for a *set*
(`NatSetInduction`), proved from the theorem that a well-founded relation has minimal elements.

Only model-checked are liveness (`ReplayFollows`), which is out of the prover's reach, and
`FlowLinesAsSaid` of the injection network. All other properties of the passing runs are proved.

## 5. Divergences found

One run that TLC must find violated:

| run | what the code does |
|---|---|
| `connections_order` | scaling to a WELPI goes from one set of connections to the next with an array of positions. Where connections are put in order (by depth here) a COMPDAT of a later step moves the others; one that should be scaled is then taken for one that was reset. `WellConnections.hpp` says that scaling applies to all connections not reset in COMPDAT. |

Seen while modelling, with no run of their own. For most of them the module has a constant or a
property with which TLC shows a behaviour; the constants are those of the run of the component.

*Schedule.*
A status call (batched) and then `actionx_callback` in one script: the latter replays all later
steps without resetting the flag, and the end of the script replays them again (set `MixedScripts`
in `MCReplayTimeline.cfg` and check `SnapshotsComplete`; `docstrings_common.json` says that the length
of the schedule is the number of report steps). The flag keeps its last value when a
script ends; a later status call from outside is batched and never replayed (set `LateDirectCalls`
and check `SnapshotsComplete`). A script that sets the status of a well at a *later*
report step is replayed from the current one (set `FutureStatusCalls`); the check against the past
compares with `current_report_step`, which only `runPyAction` sets, so that a direct call may
rewrite the past (set `LateDirectCalls` and check `HistoryFixed`; the documentation of `open_well`
promises a `ValueError` for a report step in the past). A status call
and then `insert_keywords` at a later step in one script makes `resize` append default constructed
states, whose members are null pointers (set `MixedScripts` and check `NeverBlank`). `BlankNeedsBatch` and
`RefusedStepsFixed` (run `replay_calls`) say how far the last two can go. EXIT inserted
at a later report step ends the run at once, since the handler acts when the keyword is processed.

*Actions.*
`State::load_rst` restores a run count of 1, whatever the file says (check `LimitAcrossRestart` of
`ActionState`). The first run of an action does not wait for MIN_WAIT although ActionX.hpp says that
the first wait is relative to the start time (check `FirstWaitKept`); an action with NUM = 0, which
the header calls unlimited, is never ready, since `ready` asks for `run_count < max_run` (add 0 to
`MaxRuns` and check `ZeroIsUnlimited`); `State::result` still
returns the wells of an earlier run after a run that matched none; `msim` never calls
`State::add_run` for an ACTIONX, so that NUM and MIN_WAIT have no effect there (set `RecordsRuns` to
FALSE and check `RunsWithinLimit`).

*Well lists.*
A well on two lists that is deleted twice from one of them (or by NEW and DEL) has no list names
left; the restart file loses it from the other list (set `RestartAnytime` and check
`SurviveRestart`). DEL of a well whose names have been cleared changes a list without reporting it
(check `ChangesReported` without `leftOne = {}`).

*Well tests.*
After a restart the time since a well was closed appears as twice the time of the restart
(`difftime(start_time, sim_time)`, a negative number, is taken for the time of closing): the well is
tested at once (check `IntervalAcrossRestart`). A restart taken when a well has used up its tests
reads 0 tests left, which means no limit (check `LimitKept` for the wells in `freed`), one taken
with TEST_NUM = 0 after the first test reads a negative number, and the well is never tested again,
and one taken after a new WTEST but before the next call of `test_wells` that finds the well closed
subtracts the tests of the earlier configuration. A WTEST that an action gives in the report step of
an earlier WTEST does not start the count anew, since `test_wells` asks whether the step at which the
configuration begins is *later* than the one it has counted for (`WellTestState.cpp:155`): after as
many tests as the new WTEST allows the well is not tested again, although none of them was made under
it (check `DueAfterEveryWTEST`, which is `DueTested` without the tests `carried`). A letter given twice in the reasons of WTEST is
added twice, so that PP means E.

*User defined quantities.*
An action assigns a well quantity to the wells that matched (`'?'`) and none did: `add_assign` enters
the quantity in `input_index` before `add_assign_wellvar` returns without an assignment. `input()` and
`operator[]` then look the assignment up with `at()`, which throws, when the restart or summary file
is written (add `{}` to `MatchSets` and check `InputAnswered`). `UDQConfig.hpp` says that `size()` is
the length of the vector `input()` returns.
An ASSIGN by an action after the last evaluation of a report step is dropped by
`clear_pending_assignments` in the copy to the next step. After a restart a target that was given
under two controls (WCONPROD and then WELTARG) has the argument whose record is read last
(`ArgumentsRestored` is about the others), and the ASSIGN records of a quantity that is DEFINEd are
gone, so that a later ASSIGN starts from nothing (`lost`).

*Groups and network.*
NODEPROP marks the group as a choke in an object that the snapshot before may share (check
`PastKept`). GSATPROD makes a group a satellite that has groups or wells, of which the output
asserts that it has none (check `SatellitesEmpty`, `AggregateGroupData.cpp:778`). A branch with a
VFP table can be entered below a choke (check `ChokeWithoutTable`), which `update_node` rejects in
the other order. The comment above `update_node` says that the name of the
node must be one of the branches before it, which is not checked. INOBR leaves nodes out when the first branch does not have the first node at
its lower end (`InobrIndexed` says when). After a restart a standard network is an extended one and
the chokes are lost. GRUPTREE accepts a cycle of groups, and BRANPROP one of branches (A to B, then B
to A), although `add_or_replace_branch` speaks of a required gathering tree: only a second branch up
is looked for. The walk to a node of fixed pressure (`AggregateNetworkData.cpp:233`) does not end on it
(check `NetworkGathers`). In an injection network a group that has moved since GNETINJE gave it a
branch keeps that branch when a later record takes it out of the network, since the branch to its
*present* parent is dropped (`NetworkKeywordHandlers.cpp:564`; check `DroppedHasNoBranch`, which
`NetworkTests.cpp:1640` asks for a group that has not moved); and two groups that change places
between their records are each other's upper node (check `InjectionGathers`).

*Connections.*
`applyWellProdIndexScaling` tells wells apart by value (`Schedule.cpp:2176`) and their sets by
pointer (`Well.cpp:1316`, whose comment says that the value would not do): keywords of one step that
change a connection and change it back make a set of its own, equal to the one before, and the
scaling passes over it (check `AsPromised` without `~skipped` in `ScalingExact`). Two WELPIs of a
step, or COMPDAT and WELPI, are not scaled in the order of the deck: there is one event, one target
and one set of connections for the step. A COMPDAT before a WELPI in the block of a later step
resets a connection and makes it subject again, so that an earlier WELPI, whose factor is found
before, does not see that it was reset (check `AsPromised` without `ScalesFirst`). When all
connections are already subject to scaling WELPI makes no copy, and the scaling reaches back to
earlier steps. `modifyCompletions` changes the set that earlier snapshots share, passes `false` as
the parameter `lgr_grid_number` of `addConnection` and does not put the connections in order. A
request to open is recorded by completion number and means another connection after a COMPLUMP of
the same step; a new connection gets the number of connections plus one, which COMPLUMP may have
given to another. `Schedule.hpp` calls the parameter of `applyWellProdIndexScaling`
`scalingFactor`, the definition takes it for the new productivity index.

## 6. Not modelled, and why

* In `ScheduleReplay`: actions and UDQ of the restart file (the keywords are kept when the file has
  actions; the decks of the restart run have an ACTIONX of their own), the RPTRST mnemonic SAVE, a
  script that catches the exception of a failed call and goes on. Scripts do not insert RPTRST: that
  changes the restart output on purpose. `modifyCompletions` and WELPI have a module of their own,
  in which a replay is one step.
* Of the quantities: expressions, and quantities of groups, segments, regions, tables and the field,
  which take the same way through `eval`; arguments of groups and of injectors.
* Of groups and network: controls, targets, GCONSUMP and the like (data of a group), pressures and
  gas lift of branches, and decks with a cycle of groups, which no handler rejects. Of the injection
  networks: the second phase, which is like the first, and the order of the groups in one keyword.
* Of connections: the numbers behind a connection factor, segments, CSKIN, WINJMULT and LGRs; the
  default order TRACK, which chooses the next connection by distance where the modelled one goes by depth;
  several wells, which do not share connections.
* Numerical data: rates, targets, tables, grids. File formats and text.
* The simulator: it decides when an action's condition holds, calls `applyAction`, `runPyAction` and
  `add_run` in the order of `msim`, evaluates quantities after a time step, and computes the
  productivity index that WELPI is compared with.
* Most of the repository by size builds static data (grid properties, tables, summary and restart
  vectors, material laws, the parser's keywords): functions without state and steps, of which a
  model would only repeat the formulas.

## 7. Plan

1. *Done:* the modules of section 2 with their runs, and the proofs of section 4.
2. Small components with a history, one module each: `RFTConfig` (a request is served once),
   `MessageLimiter`. Bounds: two or three names each.
3. Output: rewinding of unified restart files against the restart events; then a composition of
   `ScheduleReplay` with output and restart.
4. Conditions of actions: matching sets of AND and OR as operators against a definition by sets.
