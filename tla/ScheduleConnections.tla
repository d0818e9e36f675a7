------------------------- MODULE ScheduleConnections -------------------------
(***************************************************************************)
(* The connections of one well along the snapshots of a Schedule.          *)
(*                                                                         *)
(* The Well of a snapshot holds a pointer to its connections.  A new       *)
(* snapshot copies the well and so shares the connections, until a keyword *)
(* of its step puts a changed copy in their place.  Two operations change  *)
(* connections in place, for all the snapshots that share them: the        *)
(* scaling to a productivity index, which must reach each set of           *)
(* connections from the step of WELPI on once, and a growing fracture.     *)
(* Whatever is shared, the connections of the present and of the future    *)
(* steps are to be what the keywords say.                                  *)
(*                                                                         *)
(* A set of connections is named by the report step whose handlers made    *)
(* it: of those made during one step only the last remains in use.         *)
(***************************************************************************)
EXTENDS WellConnections

CONSTANTS
  LastStep,    \* the last report step
  Decks,       \* the keyword blocks of all the report steps
  ActionBlocks,\* the keyword blocks of the actions
  Fractures,   \* arguments of modifyCompletions for the well
  Factors,     \* scaling factors: wanted over computed productivity index
  MaxCalls     \* bound: actions and fractures in a run

Steps == 0 .. LastStep

(* Keywords about the well; WELPI waits for the simulator in the deck and  *)
(* is done at once in an action.                                           *)
Record == [cell : Cells, state : States, CF : Int]

Keyword ==
  [name : {"COMPDAT"}, records : Seq(Record)]
    \cup [name : {"WELOPEN"}, cells : SUBSET Cells, complnums : SUBSET Nat, state : States]
    \cup [name : {"WELOPENWell"}, status : States]
    \cup [name : {"COMPLUMP"}, cells : SUBSET Cells, N : Nat \ {0}]
    \cup [name : {"WPIMULT"}, cells : SUBSET Cells, complnums : SUBSET Nat, WELLPI : Int]
    \cup [name : {"WPIMULTWell"}, WELLPI : Int]

DeckKeyword   == Keyword \cup [name : {"WELPI"}]
ActionKeyword == Keyword \cup [name : {"WELPIRuntime"}, factor : Int]

ASSUME StepsAssumption     == LastStep \in Nat
ASSUME DecksAssumption     == Decks \subseteq [Steps -> Seq(DeckKeyword)]
ASSUME ActionsAssumption   == ActionBlocks \subseteq Seq(ActionKeyword)
ASSUME FracturesAssumption == Fractures \subseteq Seq([cell : Cells, CF : Int])
ASSUME FactorsAssumption   == Factors \subseteq Int
ASSUME BoundAssumption     == MaxCalls \in Nat

VARIABLES
  ordering,   \* COMPORD
  deck,       \* the keywords of every report step
  objects,    \* the sets of connections, by name
  snapshots,  \* of every report step: the well and the events about it
  now,        \* the report step of the simulator
  phase,      \* reading the deck, at the start of a step, during a step
  given,      \* history: what was done at each step, in its order
  skipped,    \* history: a scaling passed over a set of equal connections
  calls       \* the number of actions and fractures so far

vars == <<ordering, deck, objects, snapshots, now, phase, given, skipped, calls>>

Well     == [connections : Steps, status : States]
Snapshot == [well : Well, open_requests : SUBSET (Nat \ {0}), welpi : BOOLEAN]

TypeOK ==
  /\ ordering \in Orderings
  /\ DOMAIN deck = Steps
  /\ DOMAIN objects = Steps
  /\ \A s \in Steps : /\ objects[s] \in Seq(Connection)
                      /\ \A i, j \in DOMAIN objects[s] :
                           objects[s][i].cell = objects[s][j].cell => i = j
  /\ DOMAIN snapshots = Steps
  /\ \A s \in Steps : /\ snapshots[s] \in Snapshot
                      /\ snapshots[s].well.connections <= s
  /\ now \in Steps
  /\ phase \in {"input", "start", "run"}
  /\ calls \in 0 .. MaxCalls

-----------------------------------------------------------------------------
(***************************************************************************)
(* Handling a block of keywords at a report step.  h holds what the        *)
(* handlers work on: the objects, the step, the well and the events of its *)
(* snapshot, and the WPIMULT factor to be applied at the end of the block. *)
(***************************************************************************)
Connections(h) == h.objects[h.well.connections]

updateConnections(h, conns) ==
  LET new == order(conns, ordering)
  IN IF new = Connections(h) THEN h
     ELSE [h EXCEPT !.objects[h.step] = new, !.well.connections = h.step]

(* A request to open completions, or its withdrawal. *)
request(h, complnums, state) ==
  [h EXCEPT !.open_requests = IF state = "OPEN" THEN @ \cup complnums ELSE @ \ complnums]

(* The connections are loaded record by record and put in place once. *)
loadRecord(h, rec) ==
  [request(h, existingComplnums(h.pending, rec), rec.state)
     EXCEPT !.pending = loadCOMPDAT(h.pending, rec)]

COMPDAT(h, kw) ==
  LET loaded == FoldLeft(loadRecord, [h EXCEPT !.pending = Connections(h)], kw.records)
  IN updateConnections([loaded EXCEPT !.pending = << >>], loaded.pending)

(* Variant with a fault: shutting a connection withdraws no request. *)
WELOPENKept(h, kw) ==
  updateConnections(IF kw.state = "OPEN" THEN request(h, matchingComplnums(Connections(h), kw), kw.state)
                                         ELSE h,
                    handleWELOPENConnections(Connections(h), kw))

WELOPEN(h, kw) ==
  updateConnections(request(h, matchingComplnums(Connections(h), kw), kw.state),
                    handleWELOPENConnections(Connections(h), kw))

updateWellStatus(h, status) ==
  IF Connections(h) = << >> /\ status = "OPEN" THEN h ELSE [h EXCEPT !.well.status = status]

(* Variant with a fault: without the independent copy. *)
WELPIShared(h) ==
  [h EXCEPT !.welpi = TRUE, !.objects[h.well.connections] = prepareWellPIScaling(@)]

(* The copy is dropped when all the connections were subject already.      *)
WELPI(h) ==
  LET copy == order(Connections(h), ordering)
  IN IF allSubject(copy) THEN [h EXCEPT !.welpi = TRUE]
     ELSE [h EXCEPT !.welpi = TRUE,
                    !.objects[h.step] = prepareWellPIScaling(copy),
                    !.well.connections = h.step]

(* In an action the productivity index is known: scaling is done at once,  *)
(* in place.                                                               *)
WELPIRuntime(h, kw) ==
  [h EXCEPT !.objects[h.well.connections] =
     applyWellPIScaling(prepareWellPIScaling(@), kw.factor, << >>)]

handleKeyword(h, kw) ==
  CASE kw.name = "COMPDAT"  -> COMPDAT(h, kw)
    [] kw.name = "WELOPEN"  -> WELOPEN(h, kw)
    [] kw.name = "WELOPENWell" -> updateWellStatus(h, kw.status)
    [] kw.name = "COMPLUMP" -> updateConnections(h, handleCOMPLUMP(Connections(h), kw))
    [] kw.name = "WPIMULT"  -> updateConnections(h, handleWPIMULT(Connections(h), kw))
    [] kw.name = "WPIMULTWell"  -> [h EXCEPT !.wpimult_global_factor = kw.WELLPI]
    [] kw.name = "WELPI"    -> WELPI(h)
    [] kw.name = "WELPIRuntime" -> WELPIRuntime(h, kw)

(* applyGlobalWPIMULT and end_report, after the keywords of a block. *)
finished(h) ==
  LET multiplied == IF h.wpimult_global_factor = 0 THEN h
                    ELSE updateConnections(h, applyGlobalWPIMULT(Connections(h), h.wpimult_global_factor))
  IN IF allConnectionsShut(Connections(multiplied)) THEN updateWellStatus(multiplied, "SHUT")
                                                    ELSE multiplied

(* A block at a step: the new objects and snapshots. *)
handleBlock(p, step, block) ==
  LET s == p.snapshots[step]
      h == [well |-> s.well, open_requests |-> s.open_requests, welpi |-> s.welpi,
            objects |-> p.objects, step |-> step, pending |-> << >>, wpimult_global_factor |-> 0]
      done == finished(FoldLeft(handleKeyword, h, block))
  IN [objects   |-> done.objects,
      snapshots |-> [p.snapshots EXCEPT ![step] =
                       [well |-> done.well, open_requests |-> done.open_requests, welpi |-> done.welpi]]]

createNext(s) == [s EXCEPT !.open_requests = {}, !.welpi = FALSE]

nextStep(p, step) ==
  handleBlock([p EXCEPT !.objects[step] = << >>,
                        !.snapshots[step] = createNext(p.snapshots[step - 1])],
              step, deck[step])

(* iterateScheduleSection from a step on. *)
iterateScheduleSection(p, from) ==
  FoldLeft(nextStep, p, [i \in 1 .. LastStep - from + 1 |-> from + i - 1])

-----------------------------------------------------------------------------
(***************************************************************************)
(* The history: a block as what it does to connections, with the factor    *)
(* for the whole well at its end.  The factor of the last WELPI of a block *)
(* is found later, and scales only then; those before it never do.         *)
(***************************************************************************)
GlobalFactor(block) ==
  LET i == SelectLastInSeq(block, LAMBDA kw : kw.name = "WPIMULTWell")
  IN IF i = 0 THEN 0 ELSE block[i].WELLPI

Effects(block) == block \o <<[name |-> "Scale", factor |-> GlobalFactor(block)]>>

found(f, effects) ==
  LET last == SelectLastInSeq(effects, LAMBDA kw : kw.name = "WELPI")
  IN [effects EXCEPT ![last] = [name |-> "Found", factor |-> f]]

NoSnapshot == [well |-> [connections |-> 0, status |-> "SHUT"], open_requests |-> {}, welpi |-> FALSE]

Init ==
  /\ ordering \in Orderings
  /\ deck \in Decks
  /\ objects = [s \in Steps |-> << >>]
  /\ snapshots = [s \in Steps |-> NoSnapshot]
  /\ now = 0
  /\ phase = "input"
  /\ given = [s \in Steps |-> Effects(deck[s])]
  /\ skipped = FALSE
  /\ calls = 0

Becomes(p) == objects' = p.objects /\ snapshots' = p.snapshots

Construct ==
  /\ phase = "input"
  /\ Becomes(iterateScheduleSection(handleBlock([objects |-> objects, snapshots |-> snapshots], 0, deck[0]), 1))
  /\ phase' = "start"
  /\ UNCHANGED <<ordering, deck, now, given, skipped, calls>>

(***************************************************************************)
(* applyWellProdIndexScaling: the wells from the step on that differ from  *)
(* the one before, and of them those with other connections.               *)
(***************************************************************************)
WellValue(step) == <<objects[snapshots[step].well.connections], snapshots[step].well.status>>

addUnique(list, step) == IF WellValue(step) = WellValue(Last(list)) THEN list ELSE Append(list, step)

uniqueWells(step) == FoldLeft(addUnique, <<step>>, [i \in 1 .. LastStep - step |-> step + i])

(* Variant with a fault: without the comparison of pointers. *)
hasSameConnectionsPointersNever(s, t) == FALSE

hasSameConnectionsPointers(s, t) == snapshots[s].well.connections = snapshots[t].well.connections

(* Wells are compared by value: connections that a step has changed and    *)
(* changed back are equal to those of the step before, and passed over.    *)
PassedOver(step) ==
  WellValue(step) = WellValue(step - 1) /\ ~hasSameConnectionsPointers(step, step - 1)

scaleNext(p, step) ==
  LET c == snapshots[step].well.connections
  IN IF p.prev >= 0 /\ hasSameConnectionsPointers(step, p.prev) THEN p
     ELSE [p EXCEPT !.objects[c] = applyWellPIScaling(@, p.factor, p.scalingApplicable),
                    !.scalingApplicable = applicableAfter(p.objects[c], @),
                    !.prev = step]

(* At the start of a step with a WELL_PRODUCTIVITY_INDEX event.            *)
applyWellProdIndexScaling(f) ==
  /\ phase = "start"
  /\ snapshots[now].welpi
  /\ objects' = FoldLeft(scaleNext, [objects |-> objects, factor |-> f, scalingApplicable |-> << >>, prev |-> -1],
                         uniqueWells(now)).objects
  /\ given' = [given EXCEPT ![now] = found(f, @)]
  /\ skipped' = (skipped \/ \E s \in now + 1 .. LastStep : PassedOver(s))
  /\ phase' = "run"
  /\ UNCHANGED <<ordering, deck, snapshots, now, calls>>

StartStep ==
  /\ phase = "start"
  /\ ~snapshots[now].welpi
  /\ phase' = "run"
  /\ UNCHANGED <<ordering, deck, objects, snapshots, now, given, skipped, calls>>

NextStep ==
  /\ phase = "run"
  /\ now < LastStep
  /\ now' = now + 1
  /\ phase' = "start"
  /\ UNCHANGED <<ordering, deck, objects, snapshots, given, skipped, calls>>

(* applyAction: the keywords at the step reached, then all later steps anew. *)
applyAction(block) ==
  /\ phase = "run"
  /\ calls < MaxCalls
  /\ Becomes(iterateScheduleSection(handleBlock([objects |-> objects, snapshots |-> snapshots], now, block),
                                    now + 1))
  /\ given' = [given EXCEPT ![now] = @ \o Effects(block)]
  /\ calls' = calls + 1
  /\ UNCHANGED <<ordering, deck, now, phase, skipped>>

(* modifyCompletions: in place, then all later steps anew. *)
modifyCompletions(new) ==
  LET c == snapshots[now].well.connections
  IN /\ phase = "run"
     /\ calls < MaxCalls
     /\ Becomes(iterateScheduleSection([objects |-> [objects EXCEPT ![c] = FoldLeft(withFracture, @, new)],
                                        snapshots |-> snapshots], now + 1))
     /\ given' = [given EXCEPT ![now] = Append(@, [name |-> "Fracture", connections |-> new])]
     /\ calls' = calls + 1
     /\ UNCHANGED <<ordering, deck, now, phase, skipped>>

Next ==
  \/ Construct
  \/ \E f \in Factors : applyWellProdIndexScaling(f)
  \/ StartStep
  \/ NextStep
  \/ \E block \in ActionBlocks : applyAction(block)
  \/ \E new \in Fractures : modifyCompletions(new)

Spec == Init /\ [][Next]_vars

-----------------------------------------------------------------------------
(***************************************************************************)
(* What the keywords say, with connections that are values: every report   *)
(* step has connections of its own, and WELPI scales all of them where it  *)
(* stands.                                                                 *)
(***************************************************************************)
Effect(scaled, conns, kw) ==
  CASE kw.name = "COMPDAT"  -> FoldLeft(loadCOMPDAT, conns, kw.records)
    [] kw.name = "WELOPEN"  -> handleWELOPENConnections(conns, kw)
    [] kw.name = "COMPLUMP" -> handleCOMPLUMP(conns, kw)
    [] kw.name = "WPIMULT"  -> handleWPIMULT(conns, kw)
    [] kw.name \in {"Scale", "WELPIRuntime"} -> applyGlobalWPIMULT(conns, kw.factor)
    [] kw.name = "Found"    -> IF scaled THEN applyGlobalWPIMULT(conns, kw.factor) ELSE conns
    [] kw.name = "Fracture" -> FoldLeft(withFracture, conns, kw.connections)
    [] OTHER                -> conns

(* The connections of every step, from none before the first, with or      *)
(* without the scaling to the factors found.  (As tuples, which TLC        *)
(* evaluates here and now.)                                                *)
Said(history, scaled) ==
  LET said[s \in -1 .. LastStep] ==
        IF s = -1 THEN << >>
        ELSE FoldLeft(LAMBDA conns, kw : Effect(scaled, conns, kw) \o << >>, said[s - 1], history[s])
  IN said

Conns(step)     == objects[snapshots[step].well.connections]
NamesIn(block)  == {block[k].name : k \in DOMAIN block}
At(conns, cell) == conns[Position(conns, cell)]
CellsOf(conns)  == {conns[i].cell : i \in DOMAIN conns}

(* The steps at which the deck names the well in WELPI. *)
ScalingSteps == {s \in Steps : "WELPI" \in NamesIn(deck[s])}

ScalesFirst(block) ==
  \A k, l \in DOMAIN block : k < l /\ block[k].name = "COMPDAT" => block[l].name # "WELPI"

(* When scaling, which goes by position and by what is subject to it,      *)
(* finds the connections that are not reset since WELPI: connections keep  *)
(* their places, no later step makes subject anew what it has reset, and   *)
(* no set of connections was passed over.                                  *)
ScalingExact ==
  /\ ordering = "INPUT" \/ ScalingSteps = {}
  /\ \A s, t \in ScalingSteps : s < t => ScalesFirst(deck[t])
  /\ ~skipped

(* The connections of the present and of the later steps, as cells with    *)
(* state, factor and completion number, are what the keywords, the scaling *)
(* factors and the fractures say, whatever connections are shared, copied, *)
(* scaled in place and rebuilt by replays.                                 *)
AsPromised ==
  phase # "input" /\ ScalingExact =>
    \A s \in now .. LastStep :
      LET promised == Said(given, TRUE)[s]
      IN /\ CellsOf(Conns(s)) = CellsOf(promised)
         /\ \A cell \in CellsOf(promised) :
              [At(Conns(s), cell) EXCEPT !.subject_to_welpi = FALSE]
                = [At(promised, cell) EXCEPT !.subject_to_welpi = FALSE]

(* Whatever the order of the connections, none is scaled twice and none    *)
(* that COMPDAT has reset is scaled at all: every factor is what the       *)
(* keywords say with the scaling or without it, as long as the deck names  *)
(* the well in WELPI at one step only.                                     *)
ScaledAtMostOnce ==
  phase # "input" /\ (\A s, t \in ScalingSteps : s = t) =>
    \A s \in now .. LastStep :
      LET scaled   == Said(given, TRUE)[s]
          unscaled == Said(given, FALSE)[s]
      IN \A c \in Range(Conns(s)) : c.CF \in {At(scaled, c.cell).CF, At(unscaled, c.cell).CF}

(* A request to open a completion is only raised for one that is open, and *)
(* is withdrawn when the same step shuts it, by the deck or by an action;  *)
(* unless the step renumbers its completions.                              *)
OpenRequestsStand ==
  phase # "input" =>
    \A s \in Steps :
      \/ "COMPLUMP" \in NamesIn(given[s])
      \/ \A n \in snapshots[s].open_requests :
           \E c \in Range(Conns(s)) : c.complnum = n /\ c.state = "OPEN"

(* The first scaling leaves the connections of the steps before it alone,  *)
(* because the handler made a copy.  (A later one may reach back: when all *)
(* the connections are already subject to scaling there is no copy.)       *)
ScaledBefore(step) ==
  \E s \in 0 .. step - 1 : snapshots[s].welpi \/ "WELPIRuntime" \in NamesIn(given[s])

ScalingKeepsPast ==
  [][phase = "start" /\ phase' = "run" /\ ~ScaledBefore(now) =>
       \A s \in 0 .. now - 1 :
         LET c == snapshots[s].well.connections IN objects'[c] = objects[c]]_vars

(* WellConnections.hpp: "any WELPI-based scaling will apply to all         *)
(* connections whose properties are not reset in COMPDAT", in any order.   *)
ScalingComplete ==
  phase # "input" =>
    \A s \in now .. LastStep :
      LET promised == Said(given, TRUE)[s]
      IN \A c \in Range(Conns(s)) : c.CF >= At(promised, c.cell).CF
=============================================================================
