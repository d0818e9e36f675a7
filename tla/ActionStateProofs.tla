------------------------- MODULE ActionStateProofs -------------------------
(***************************************************************************)
(* Proofs about ActionState.  The run count that decides readiness is kept *)
(* under the name and id of a definition; the invariant relates it to the  *)
(* runs that the current definition has really had.                        *)
(***************************************************************************)
EXTENDS ActionState, TLAPS

-----------------------------------------------------------------------------
(***************************************************************************)
(* Functions and sequences                                                 *)
(***************************************************************************)
LEMMA WithFacts ==
  ASSUME NEW f, NEW x, NEW value
  PROVE  /\ DOMAIN With(f, x, value) = DOMAIN f \cup {x}
         /\ With(f, x, value)[x] = value
         /\ \A y \in DOMAIN f : y # x => With(f, x, value)[y] = f[y]
BY DEF With

(* The value of a map after an assignment. *)
LEMMA WithAt ==
  ASSUME NEW f, NEW x, NEW value, NEW y \in DOMAIN f \cup {x}
  PROVE  With(f, x, value)[y] = IF y = x THEN value ELSE f[y]
BY DEF With

(* What a sequence is after an element was appended. *)
LEMMA AppendFacts ==
  ASSUME NEW S, NEW s \in Seq(S), NEW t \in S
  PROVE  /\ Append(s, t) \in Seq(S)
         /\ Len(s) \in Nat
         /\ Len(Append(s, t)) = Len(s) + 1
         /\ Append(s, t)[Len(s) + 1] = t
         /\ \A i \in 1 .. Len(s) : Append(s, t)[i] = s[i] /\ s[i] \in S
         /\ Append(s, t) # << >>
         /\ s = << >> <=> Len(s) = 0
OBVIOUS

(* The elements of a sequence are of its type. *)
LEMMA ElementType ==
  ASSUME NEW S, NEW s \in Seq(S), NEW i \in 1 .. Len(s)
  PROVE  s[i] \in S
OBVIOUS

-----------------------------------------------------------------------------
(***************************************************************************)
(* Types                                                                   *)
(***************************************************************************)
Definition == [id : 0 .. MaxId, max_run : MaxRuns, min_wait : MinWaits, start_time : Times]
RunState   == [run_count : Nat \ {0}, last_run : Times]

(* A function extended at one argument keeps its types. *)
LEMMA WithType ==
  ASSUME NEW f, NEW x, NEW value, NEW D, NEW S,
         DOMAIN f \subseteq D, \A y \in DOMAIN f : f[y] \in S, x \in D, value \in S
  PROVE  /\ DOMAIN With(f, x, value) \subseteq D
         /\ \A y \in DOMAIN With(f, x, value) : With(f, x, value)[y] \in S
<1>1. DOMAIN With(f, x, value) = DOMAIN f \cup {x}
  BY WithFacts, Zenon
<1>2. ASSUME NEW y \in DOMAIN f \cup {x} PROVE With(f, x, value)[y] \in S
  <2>1. CASE y = x
    BY <2>1, WithAt
  <2>2. CASE y # x
    BY <2>2, WithAt
  <2>3. QED
    BY <2>1, <2>2
<1>3. QED
  BY <1>1, <1>2

(* What `add` makes is a definition. *)
LEMMA NewDefinition ==
  ASSUME NEW i \in 0 .. MaxId, NEW m \in MaxRuns, NEW w \in MinWaits, NEW t \in Times
  PROVE  [id |-> i, max_run |-> m, min_wait |-> w, start_time |-> t] \in Definition
BY DEF Definition

(* What `add_run` makes is the state of a run. *)
LEMMA NewRunState ==
  ASSUME NEW c \in Nat \ {0}, NEW t \in Times
  PROVE  [run_count |-> c, last_run |-> t] \in RunState
BY DEF RunState

(* The parts of the type invariant that need more than a look.             *)
ActionsTyped ==
  /\ DOMAIN actions_ \subseteq ActionNames
  /\ \A n \in DOMAIN actions_ : actions_[n] \in Definition

RunsTyped ==
  /\ DOMAIN run_state \subseteq ActionNames \X (0 .. MaxId)
  /\ \A k \in DOMAIN run_state : run_state[k] \in RunState

ResultsTyped ==
  /\ DOMAIN last_result \subseteq ActionNames
  /\ \A n \in DOMAIN last_result : last_result[n] \in SUBSET Wells
  /\ DOMAIN m_python_result \subseteq Scripts
  /\ \A p \in DOMAIN m_python_result : m_python_result[p] \in BOOLEAN

ControlTyped ==
  /\ pyactions_ \subseteq Scripts
  /\ sim_time \in Times
  /\ phase \in {"start", "output", "input", "actions", "scripts", "done"}
  /\ pending \in SUBSET (ActionNames \cup Scripts)
  /\ restarts \in 0 .. MaxRestarts
  /\ history \in [ActionNames -> Seq(Times)]

(* The parts are the type invariant. *)
LEMMA TypeParts == TypeOK <=> ActionsTyped /\ RunsTyped /\ ResultsTyped /\ ControlTyped
BY DEF TypeOK, ActionsTyped, RunsTyped, ResultsTyped, ControlTyped, Definition, RunState

(* They are after a step as well. *)
LEMMA TypePartsNext ==
  TypeOK' <=> ActionsTyped' /\ RunsTyped' /\ ResultsTyped' /\ ControlTyped'
BY DEF TypeOK, ActionsTyped, RunsTyped, ResultsTyped, ControlTyped, Definition, RunState

(* The fields of a definition that is held. *)
LEMMA DefinitionFields ==
  ASSUME ActionsTyped, NEW n \in DOMAIN actions_
  PROVE  /\ n \in ActionNames
         /\ actions_[n].id \in 0 .. MaxId
         /\ actions_[n].max_run \in MaxRuns /\ actions_[n].max_run \in Nat
         /\ actions_[n].min_wait \in MinWaits /\ actions_[n].min_wait \in Nat
         /\ actions_[n].start_time \in Times
         /\ makeID(n) \in ActionNames \X (0 .. MaxId)
<1>1. actions_[n] \in Definition /\ n \in ActionNames
  BY DEF ActionsTyped
<1>2. /\ actions_[n].id \in 0 .. MaxId
      /\ actions_[n].max_run \in MaxRuns
      /\ actions_[n].min_wait \in MinWaits
      /\ actions_[n].start_time \in Times
  BY <1>1 DEF Definition
<1>3. QED
  BY <1>1, <1>2, ActionConstants DEF makeID

(* What the queries say of the runs of an action. *)
LEMMA RunFields ==
  ASSUME RunsTyped, NEW n
  PROVE  /\ run_count(n) \in Nat
         /\ run_count(n) > 0 <=> makeID(n) \in DOMAIN run_state
         /\ run_count(n) > 0 => run_time(n) \in Times
<1>1. CASE makeID(n) \in DOMAIN run_state
  <2>1. run_state[makeID(n)] \in RunState
    BY <1>1 DEF RunsTyped
  <2>2. run_state[makeID(n)].run_count \in Nat \ {0} /\ run_state[makeID(n)].last_run \in Times
    BY <2>1 DEF RunState
  <2>3. QED
    BY <1>1, <2>2 DEF run_count, run_time
<1>2. CASE makeID(n) \notin DOMAIN run_state
  BY <1>2 DEF run_count
<1>3. QED
  BY <1>1, <1>2

(* Defining an action keeps the types. *)
LEMMA AddType ==
  ASSUME TypeOK, NEW n \in ActionNames, NEW m \in MaxRuns, NEW w \in MinWaits, add(n, m, w)
  PROVE  TypeOK'
<1> DEFINE i == IF n \in DOMAIN actions_ THEN actions_[n].id + 1 ELSE 0
           d == [id |-> i, max_run |-> m, min_wait |-> w, start_time |-> sim_time]
<1>1. ActionsTyped /\ RunsTyped /\ ResultsTyped /\ ControlTyped
  BY TypeParts
<1>2. i \in 0 .. MaxId
  BY <1>1, DefinitionFields, ActionConstants DEF add
<1>3. sim_time \in Times
  BY <1>1 DEF ControlTyped
<1>4. d \in Definition
  BY <1>2, <1>3, NewDefinition, Zenon
<1>5. actions_' = With(actions_, n, d)
  BY Zenon DEF add
<1>6. ActionsTyped'
  <2> HIDE DEF d
  <2>1. DOMAIN actions_ \subseteq ActionNames /\ \A a \in DOMAIN actions_ : actions_[a] \in Definition
    BY <1>1 DEF ActionsTyped
  <2>2. /\ DOMAIN With(actions_, n, d) \subseteq ActionNames
        /\ \A a \in DOMAIN With(actions_, n, d) : With(actions_, n, d)[a] \in Definition
    BY <1>4, <2>1, WithType
  <2>3. QED
    BY <1>5, <2>2, Zenon DEF ActionsTyped, Definition, Times
<1>7. ControlTyped'
  <2>1. history' \in [ActionNames -> Seq(Times)]
    BY <1>1 DEF ControlTyped, add
  <2>2. QED
    BY <1>1, <2>1 DEF ControlTyped, add, Times
<1>8. RunsTyped' /\ ResultsTyped'
  BY <1>1 DEF RunsTyped, ResultsTyped, RunState, Times, add
<1>9. QED
  BY <1>6, <1>7, <1>8, TypePartsNext

(* Recording a run keeps the types. *)
LEMMA AddRunType ==
  ASSUME TypeOK, NEW n \in DOMAIN actions_, NEW wells \in SUBSET Wells, add_run(n, wells)
  PROVE  TypeOK'
<1>1. ActionsTyped /\ RunsTyped /\ ResultsTyped /\ ControlTyped
  BY TypeParts
<1>2. sim_time \in Times /\ n \in ActionNames /\ makeID(n) \in ActionNames \X (0 .. MaxId)
  BY <1>1, DefinitionFields DEF ControlTyped
<1>3. RunsTyped'
  <2> DEFINE k == makeID(n)
             r == [run_count |-> run_count(n) + 1, last_run |-> sim_time]
  <2>1. r \in RunState
    <3>1. run_count(n) + 1 \in Nat \ {0}
      BY <1>1, RunFields
    <3>2. QED
      BY <1>2, <3>1, NewRunState, Zenon
  <2>2. run_state' = run_state \/ run_state' = With(run_state, k, r)
    BY DEF add_run, recorded
  <2>3. k \in ActionNames \X (0 .. MaxId)
    BY <1>2
  <2> HIDE DEF k, r
  <2>4. /\ DOMAIN With(run_state, k, r) \subseteq ActionNames \X (0 .. MaxId)
        /\ \A x \in DOMAIN With(run_state, k, r) : With(run_state, k, r)[x] \in RunState
    BY <1>1, <2>1, <2>3, WithType DEF RunsTyped
  <2>5. QED
    BY <1>1, <2>2, <2>4, Zenon DEF RunsTyped, RunState, Times
<1>4. ResultsTyped'
  <2>1. last_result' = last_result \/ last_result' = With(last_result, n, wells)
    BY DEF add_run
  <2>2. /\ DOMAIN With(last_result, n, wells) \subseteq ActionNames
        /\ \A x \in DOMAIN With(last_result, n, wells) : With(last_result, n, wells)[x] \in SUBSET Wells
    BY <1>1, <1>2, WithType DEF ResultsTyped
  <2>3. m_python_result' = m_python_result
    BY DEF add_run
  <2>4. QED
    BY <1>1, <2>1, <2>2, <2>3, Zenon DEF ResultsTyped
<1>5. ControlTyped'
  <2>1. history' \in [ActionNames -> Seq(Times)]
    BY <1>1, <1>2 DEF ControlTyped, add_run
  <2>2. pending' \in SUBSET (ActionNames \cup Scripts)
    BY <1>1 DEF ControlTyped, add_run
  <2>3. QED
    BY <1>1, <2>1, <2>2 DEF ControlTyped, add_run, Times
<1>6. ActionsTyped'
  BY <1>1 DEF ActionsTyped, Definition, Times, add_run
<1>7. QED
  BY <1>3, <1>4, <1>5, <1>6, TypePartsNext

(* Running a script keeps the types. *)
LEMMA RunPyType ==
  ASSUME TypeOK, NEW p \in Scripts, NEW result \in BOOLEAN, runPyAction(p, result)
  PROVE  TypeOK'
<1>1. ActionsTyped /\ RunsTyped /\ ResultsTyped /\ ControlTyped
  BY TypeParts
<1>2. ResultsTyped'
  <2>1. m_python_result' = With(m_python_result, p, result) /\ last_result' = last_result
    BY DEF runPyAction
  <2>2. /\ DOMAIN With(m_python_result, p, result) \subseteq Scripts
        /\ \A x \in DOMAIN With(m_python_result, p, result) :
             With(m_python_result, p, result)[x] \in BOOLEAN
    BY <1>1, WithType, Zenon DEF ResultsTyped
  <2>3. QED
    BY <1>1, <2>1, <2>2, Zenon DEF ResultsTyped
<1>3. ActionsTyped' /\ RunsTyped'
  BY <1>1 DEF ActionsTyped, RunsTyped, Definition, RunState, Times, runPyAction
<1>4. ControlTyped'
  BY <1>1 DEF ControlTyped, Times, runPyAction
<1>5. QED
  BY <1>2, <1>3, <1>4, TypePartsNext

(* A restart keeps the types. *)
LEMMA RestartType ==
  ASSUME TypeOK, restart
  PROVE  TypeOK'
<1>1. ActionsTyped /\ RunsTyped /\ ResultsTyped /\ ControlTyped
  BY TypeParts
<1>2. ActionsTyped'
  <2>1. actions_' = [n \in DOMAIN actions_ |-> [actions_[n] EXCEPT !.id = 0, !.start_time = sim_time]]
    BY DEF restart
  <2>2. ASSUME NEW n \in DOMAIN actions_ PROVE actions_'[n] \in Definition
    <3>1. actions_[n] \in Definition /\ sim_time \in Times /\ 0 \in 0 .. MaxId
      BY <1>1, ActionConstants DEF ActionsTyped, ControlTyped
    <3>2. actions_'[n] = [actions_[n] EXCEPT !.id = 0, !.start_time = sim_time]
      BY <2>1
    <3>3. QED
      BY <3>1, <3>2 DEF Definition
  <2>3. QED
    BY <1>1, <2>1, <2>2 DEF ActionsTyped, Definition, Times
<1>3. RunsTyped'
  <2>1. run_state' = [k \in {<<n, 0>> : n \in {m \in DOMAIN actions_ : run_count(m) > 0}} |->
                        [run_count |-> 1, last_run |-> run_time(k[1])]]
    BY DEF restart
  <2>2. ASSUME NEW k \in DOMAIN run_state'
        PROVE  k \in ActionNames \X (0 .. MaxId) /\ run_state'[k] \in RunState
    <3>1. PICK n \in DOMAIN actions_ : run_count(n) > 0 /\ k = <<n, 0>>
      BY <2>1
    <3>2. n \in ActionNames /\ 0 \in 0 .. MaxId
      BY <1>1, ActionConstants DEF ActionsTyped
    <3>3. run_time(n) \in Times
      BY <1>1, <3>1, RunFields
    <3>4. k[1] = n
      BY <3>1
    <3>5. run_state'[k] = [run_count |-> 1, last_run |-> run_time(n)]
      BY <2>1, <3>4
    <3>6. QED
      BY <3>1, <3>2, <3>3, <3>5, NewRunState
  <2>3. QED
    BY <2>2, Zenon DEF RunsTyped, RunState, Times
<1>4. ResultsTyped'
  BY DEF ResultsTyped, restart, Empty
<1>5. ControlTyped'
  <2>1. restarts' \in 0 .. MaxRestarts
    <3>1. restarts \in 0 .. MaxRestarts
      BY <1>1 DEF ControlTyped
    <3>2. restarts < MaxRestarts /\ restarts' = restarts + 1
      BY DEF restart
    <3>3. QED
      BY <3>1, <3>2, ActionConstants
  <2>2. sim_time' \in Times'
    BY <1>1 DEF ControlTyped, restart, Times
  <2>3. history' \in [ActionNames -> Seq(Times)] /\ pending' \in SUBSET (ActionNames \cup Scripts)
    BY <1>1 DEF ControlTyped, restart
  <2>4. pyactions_' \subseteq Scripts /\ phase' = "start"
    BY DEF restart
  <2>5. QED
    BY <2>1, <2>2, <2>3, <2>4 DEF ControlTyped, Times
<1>6. QED
  BY <1>2, <1>3, <1>4, <1>5, TypePartsNext

-----------------------------------------------------------------------------
(***************************************************************************)
(* The inductive invariant                                                 *)
(***************************************************************************)
(* Runs are recorded for known names only, and never under an id that is   *)
(* still to be given out.                                                  *)
Known ==
  \A k \in DOMAIN run_state : k[1] \in DOMAIN actions_ /\ k[2] <= actions_[k[1]].id

(* What is recorded under the current id agrees with the history.          *)
Agrees(n) ==
  /\ run_count(n) = 0 <=> history[n] = << >>
  /\ run_count(n) <= Len(history[n])
  /\ history[n] # << >> => run_time(n) = history[n][Len(history[n])]
  /\ restarts = 0 => run_count(n) = Len(history[n])

Counted == \A n \in DOMAIN actions_ : Agrees(n)

Started == \A n \in DOMAIN actions_ : actions_[n].start_time <= sim_time

(* While the actions run, those still pending stay ready: a run changes    *)
(* the record of its own action only.                                      *)
StillReady == phase = "actions" => \A n \in pending : n \in DOMAIN actions_ /\ ready(n)

(* No run lies in the future.                                              *)
Past == \A n \in DOMAIN actions_ : \A i \in 1 .. Len(history[n]) : history[n][i] <= sim_time

IInv == /\ TypeOK /\ Known /\ Counted /\ Started /\ StillReady /\ Past
        /\ RunsWithinLimit /\ MinWaitRespected

(* The variables that the history-related parts depend on.                 *)
records == <<actions_, run_state, sim_time, restarts, history>>

(* A step that leaves the records leaves all that is said of them. *)
LEMMA RecordsKept ==
  ASSUME IInv, UNCHANGED records, TypeOK'
  PROVE  Known' /\ Counted' /\ Started' /\ Past' /\ RunsWithinLimit' /\ MinWaitRespected'
BY DEF IInv, records, Known, Counted, Agrees, Started, Past, RunsWithinLimit, MinWaitRespected,
       run_count, run_time, makeID

(* A definition, new or anew, starts with an id that has no records. *)
LEMMA AddInv ==
  ASSUME IInv, NEW n \in ActionNames, NEW m \in MaxRuns, NEW w \in MinWaits, add(n, m, w)
  PROVE  IInv'
<1> DEFINE d == [id |-> IF n \in DOMAIN actions_ THEN actions_[n].id + 1 ELSE 0,
                 max_run |-> m, min_wait |-> w, start_time |-> sim_time]
<1>1. TypeOK'
  BY AddType DEF IInv
<1>2. ActionsTyped /\ RunsTyped /\ ControlTyped /\ history \in [ActionNames -> Seq(Times)]
  BY TypeParts DEF IInv, ControlTyped
<1>3. /\ actions_' = With(actions_, n, d)
      /\ history' = [history EXCEPT ![n] = << >>]
      /\ run_state' = run_state /\ sim_time' = sim_time /\ restarts' = restarts
      /\ phase' = phase /\ phase # "actions"
  BY DEF add
<1>4. d.id = (IF n \in DOMAIN actions_ THEN actions_[n].id + 1 ELSE 0) /\ d.start_time = sim_time
  OBVIOUS
<1>5. /\ DOMAIN actions_' = DOMAIN actions_ \cup {n}
      /\ actions_'[n] = d
      /\ \A a \in DOMAIN actions_ : a # n => actions_'[a] = actions_[a]
  <2> HIDE DEF d
  <2>1. /\ DOMAIN With(actions_, n, d) = DOMAIN actions_ \cup {n}
        /\ With(actions_, n, d)[n] = d
        /\ \A a \in DOMAIN actions_ : a # n => With(actions_, n, d)[a] = actions_[a]
    BY DEF With
  <2>2. QED
    BY <1>3, <2>1, Zenon
<1> HIDE DEF d
<1>6. \A a \in DOMAIN actions_ : actions_[a].id \in Nat /\ a \in ActionNames
  BY <1>2, DefinitionFields
<1>7. history'[n] = << >> /\ \A a \in ActionNames : a # n => history'[a] = history[a]
  BY <1>2, <1>3
<1>8. Known'
  <2>1. ASSUME NEW k \in DOMAIN run_state
        PROVE  k[1] \in DOMAIN actions_' /\ k[2] <= actions_'[k[1]].id
    <3>1. k[1] \in DOMAIN actions_ /\ k[2] <= actions_[k[1]].id
      BY DEF IInv, Known
    <3>2. k[2] \in Nat
      BY <1>2 DEF RunsTyped
    <3>3. CASE k[1] = n
      BY <1>4, <1>5, <1>6, <3>1, <3>2, <3>3
    <3>4. CASE k[1] # n
      BY <1>5, <3>1, <3>4
    <3>5. QED
      BY <3>3, <3>4
  <2>2. QED
    BY <1>3, <2>1 DEF Known
<1>9. <<n, d.id>> \notin DOMAIN run_state
  <2>1. SUFFICES ASSUME <<n, d.id>> \in DOMAIN run_state PROVE FALSE
    OBVIOUS
  <2>2. n \in DOMAIN actions_ /\ d.id <= actions_[n].id
    <3> DEFINE k == <<n, d.id>>
    <3>1. k[1] \in DOMAIN actions_ /\ k[2] <= actions_[k[1]].id
      BY <2>1 DEF IInv, Known
    <3>2. QED
      BY <3>1
  <2>3. QED
    BY <1>4, <1>6, <2>2
<1>10. ASSUME NEW a \in DOMAIN actions_' PROVE Agrees(a)'
  <2>1. CASE a = n
    <3>1. run_count(n)' = 0
      BY <1>3, <1>5, <1>9 DEF run_count, makeID
    <3>2. QED
      BY <1>7, <2>1, <3>1 DEF Agrees
  <2>2. CASE a # n
    <3>1. a \in DOMAIN actions_ /\ Agrees(a) /\ a \in ActionNames
      BY <1>5, <1>6, <2>2 DEF IInv, Counted
    <3>2. run_count(a)' = run_count(a) /\ run_time(a)' = run_time(a)
      BY <1>3, <1>5, <2>2, <3>1 DEF run_count, run_time, makeID
    <3>3. history'[a] = history[a]
      BY <1>7, <2>2, <3>1
    <3>4. QED
      BY <1>3, <3>1, <3>2, <3>3 DEF Agrees
  <2>3. QED
    BY <2>1, <2>2
<1>11. Started'
  <2>1. sim_time \in Nat
    BY <1>2 DEF ControlTyped, Times
  <2>2. QED
    BY <1>3, <1>4, <1>5, <2>1 DEF IInv, Started
<1>12. StillReady'
  BY <1>3 DEF StillReady
<1>13. RunsWithinLimit'
  <2>1. SUFFICES ASSUME restarts = 0, NEW a \in DOMAIN actions_'
                 PROVE  Len(history'[a]) <= actions_'[a].max_run
    BY <1>3 DEF RunsWithinLimit
  <2>2. CASE a = n
    <3>1. d.max_run = m /\ m \in Nat
      BY ActionConstants DEF d
    <3>2. QED
      BY <1>5, <1>7, <2>2, <3>1
  <2>3. CASE a # n
    BY <1>5, <1>6, <1>7, <2>1, <2>3 DEF IInv, RunsWithinLimit
  <2>4. QED
    BY <2>2, <2>3
<1>14. MinWaitRespected'
  <2>1. SUFFICES ASSUME NEW a \in DOMAIN actions_', NEW i \in 1 .. Len(history'[a]) - 1
                 PROVE  history'[a][i + 1] - history'[a][i] >= actions_'[a].min_wait
    BY DEF MinWaitRespected
  <2>2. a # n
    BY <1>7
  <2>3. history'[a] = history[a] /\ actions_'[a] = actions_[a] /\ a \in DOMAIN actions_
    BY <1>5, <1>6, <1>7, <2>2
  <2>4. QED
    BY <2>3 DEF IInv, MinWaitRespected
<1>15. Past'
  <2>1. SUFFICES ASSUME NEW a \in DOMAIN actions_', NEW i \in 1 .. Len(history'[a])
                 PROVE  history'[a][i] <= sim_time
    BY <1>3 DEF Past
  <2>2. a # n
    BY <1>7
  <2>3. history'[a] = history[a] /\ a \in DOMAIN actions_
    BY <1>5, <1>6, <1>7, <2>2
  <2>4. QED
    BY <2>3 DEF IInv, Past
<1>16. QED
  BY <1>1, <1>8, <1>10, <1>11, <1>12, <1>13, <1>14, <1>15 DEF IInv, Counted
(* A run that was ready is within the limit and after the wait. *)
LEMMA AddRunInv ==
  ASSUME RecordsRuns, IInv, NEW n \in ActionNames, NEW wells \in SUBSET Wells, add_run(n, wells)
  PROVE  IInv'
<1> DEFINE k == makeID(n)
           r == [run_count |-> run_count(n) + 1, last_run |-> sim_time]
<1>1. n \in DOMAIN actions_ /\ ready(n) /\ phase = "actions" /\ n \in pending
  BY DEF IInv, StillReady, add_run
<1>2. TypeOK'
  BY <1>1, AddRunType DEF IInv
<1>3. /\ ActionsTyped /\ RunsTyped /\ ControlTyped
      /\ history \in [ActionNames -> Seq(Times)] /\ sim_time \in Times /\ sim_time \in Int
  BY TypeParts DEF IInv, ControlTyped, Times
<1>4. /\ run_state' = With(run_state, k, r)
      /\ history' = [history EXCEPT ![n] = Append(@, sim_time)]
      /\ actions_' = actions_ /\ sim_time' = sim_time /\ restarts' = restarts
      /\ phase' = phase /\ pending' = pending \ {n}
  BY DEF add_run, recorded
<1>5. k = <<n, actions_[n].id>> /\ k[1] = n /\ k[2] = actions_[n].id
  BY DEF makeID
<1>6. r.run_count = run_count(n) + 1 /\ r.last_run = sim_time
  OBVIOUS
<1>7. /\ DOMAIN run_state' = DOMAIN run_state \cup {k}
      /\ run_state'[k] = r
      /\ \A x \in DOMAIN run_state : x # k => run_state'[x] = run_state[x]
  <2> HIDE DEF r, k
  <2>1. /\ DOMAIN With(run_state, k, r) = DOMAIN run_state \cup {k}
        /\ With(run_state, k, r)[k] = r
        /\ \A x \in DOMAIN run_state : x # k => With(run_state, k, r)[x] = run_state[x]
    BY DEF With
  <2>2. QED
    BY <1>4, <2>1, Zenon
<1> HIDE DEF r
<1>8. run_count(n)' = run_count(n) + 1 /\ run_time(n)' = sim_time
  BY <1>4, <1>5, <1>6, <1>7 DEF run_count, run_time, makeID
<1>9. ASSUME NEW a \in DOMAIN actions_, a # n
      PROVE  /\ run_count(a)' = run_count(a)
             /\ run_count(a) # 0 => run_time(a)' = run_time(a)
             /\ ready(a) => ready(a)'
  <2>1. makeID(a)' = makeID(a) /\ makeID(a) # k
    BY <1>4, <1>5, <1>9 DEF makeID
  <2>2. /\ makeID(a) \in DOMAIN run_state' <=> makeID(a) \in DOMAIN run_state
        /\ makeID(a) \in DOMAIN run_state => run_state'[makeID(a)] = run_state[makeID(a)]
    BY <1>7, <2>1
  <2>3. run_count(a)' = run_count(a)
    BY <2>1, <2>2 DEF run_count
  <2>4. run_count(a) # 0 => run_time(a)' = run_time(a)
    BY <2>1, <2>2 DEF run_count, run_time
  <2>5. QED
    BY <1>4, <2>3, <2>4 DEF ready
<1>10. \A a \in DOMAIN actions_ : a \in ActionNames
  BY <1>3 DEF ActionsTyped
<1>11. /\ history[n] \in Seq(Times)
       /\ history'[n] = Append(history[n], sim_time)
       /\ \A a \in ActionNames : a # n => history'[a] = history[a]
  BY <1>3, <1>4
<1> DEFINE old == history[n]
           new == history'[n]
<1>12. /\ Len(old) \in Nat
       /\ Len(new) = Len(old) + 1
       /\ new # << >>
       /\ new[Len(old) + 1] = sim_time
       /\ \A i \in 1 .. Len(old) : new[i] = old[i] /\ old[i] \in Times
       /\ old = << >> <=> Len(old) = 0
  BY <1>3, <1>11, AppendFacts
<1>13. Agrees(n) /\ run_count(n) \in Nat
  BY <1>1, <1>3, RunFields DEF IInv, Counted
<1>14. /\ actions_[n].max_run \in Nat /\ actions_[n].min_wait \in Nat
       /\ actions_[n].id \in Nat
  BY <1>1, <1>3, DefinitionFields
<1>15. Known'
  <2>1. ASSUME NEW x \in DOMAIN run_state' PROVE x[1] \in DOMAIN actions_ /\ x[2] <= actions_[x[1]].id
    <3>1. CASE x = k
      BY <1>1, <1>5, <1>14, <3>1
    <3>2. CASE x # k
      BY <1>7, <3>2 DEF IInv, Known
    <3>3. QED
      BY <3>1, <3>2
  <2>2. QED
    BY <1>4, <2>1 DEF Known
<1>16. ASSUME NEW a \in DOMAIN actions_' PROVE Agrees(a)'
  <2>1. CASE a = n
    BY <1>4, <1>8, <1>12, <1>13, <2>1 DEF Agrees
  <2>2. CASE a # n
    <3>1. a \in DOMAIN actions_ /\ Agrees(a)
      BY <1>4 DEF IInv, Counted
    <3>2. QED
      BY <1>4, <1>9, <1>10, <1>11, <2>2, <3>1 DEF Agrees
  <2>3. QED
    BY <2>1, <2>2
<1>17. Started'
  BY <1>4 DEF IInv, Started
<1>18. StillReady'
  BY <1>1, <1>4, <1>9 DEF IInv, StillReady
<1>19. RunsWithinLimit'
  <2>1. SUFFICES ASSUME restarts = 0, NEW a \in DOMAIN actions_
                 PROVE  Len(history'[a]) <= actions_[a].max_run
    BY <1>4 DEF RunsWithinLimit
  <2>2. CASE a = n
    <3>1. run_count(n) < actions_[n].max_run /\ run_count(n) = Len(old)
      BY <1>1, <1>13, <2>1 DEF ready, Agrees
    <3>2. QED
      BY <1>12, <1>14, <2>2, <3>1
  <2>3. CASE a # n
    BY <1>10, <1>11, <2>1, <2>3 DEF IInv, RunsWithinLimit
  <2>4. QED
    BY <2>2, <2>3
<1>20. MinWaitRespected'
  <2>1. SUFFICES ASSUME NEW a \in DOMAIN actions_, NEW i \in 1 .. Len(history'[a]) - 1
                 PROVE  history'[a][i + 1] - history'[a][i] >= actions_[a].min_wait
    BY <1>4 DEF MinWaitRespected
  <2>2. CASE a = n
    <3>1. i \in 1 .. Len(old) /\ new[i] = old[i] /\ old[i] \in Int
      BY <1>12, <2>2 DEF Times
    <3>2. CASE i = Len(old)
      <4>1. run_count(n) # 0 /\ run_time(n) = old[i]
        BY <1>12, <1>13, <3>1, <3>2 DEF Agrees
      <4>2. actions_[n].min_wait <= 0 \/ sim_time - run_time(n) >= actions_[n].min_wait
        BY <1>1, <4>1 DEF ready
      <4>3. new[i + 1] = sim_time
        BY <1>12, <3>2
      <4>4. CASE sim_time - run_time(n) >= actions_[n].min_wait
        BY <2>2, <3>1, <4>1, <4>3, <4>4
      <4>5. CASE actions_[n].min_wait <= 0
        <5>1. old[i] <= sim_time
          BY <1>1, <1>12, <3>1 DEF IInv, Past
        <5>2. QED
          BY <1>3, <1>14, <2>2, <3>1, <4>3, <4>5, <5>1
      <4>6. QED
        BY <4>2, <4>4, <4>5
    <3>3. CASE i # Len(old)
      <4>1. i \in 1 .. Len(old) - 1 /\ i + 1 \in 1 .. Len(old)
        BY <1>12, <3>1, <3>3
      <4>2. new[i + 1] = old[i + 1]
        BY <1>12, <4>1
      <4>3. old[i + 1] - old[i] >= actions_[n].min_wait
        BY <1>1, <4>1 DEF IInv, MinWaitRespected
      <4>4. QED
        BY <2>2, <3>1, <4>2, <4>3
    <3>4. QED
      BY <3>2, <3>3
  <2>3. CASE a # n
    <3>1. history'[a] = history[a]
      BY <1>10, <1>11, <2>3
    <3>2. QED
      BY <3>1 DEF IInv, MinWaitRespected
  <2>4. QED
    BY <2>2, <2>3
<1>21. Past'
  <2>1. SUFFICES ASSUME NEW a \in DOMAIN actions_, NEW i \in 1 .. Len(history'[a])
                 PROVE  history'[a][i] <= sim_time
    BY <1>4 DEF Past
  <2>2. CASE a = n
    <3>1. CASE i = Len(old) + 1
      BY <1>3, <1>12, <2>2, <3>1
    <3>2. CASE i # Len(old) + 1
      <4>1. i \in 1 .. Len(old)
        BY <1>12, <2>2, <3>2
      <4>2. QED
        BY <1>1, <1>12, <2>2, <4>1 DEF IInv, Past
    <3>3. QED
      BY <3>1, <3>2
  <2>3. CASE a # n
    <3>1. history'[a] = history[a]
      BY <1>10, <1>11, <2>3
    <3>2. QED
      BY <3>1 DEF IInv, Past
  <2>4. QED
    BY <2>2, <2>3
<1>22. QED
  BY <1>2, <1>15, <1>16, <1>17, <1>18, <1>19, <1>20, <1>21 DEF IInv, Counted
(* A restart keeps the invariant: the records go by the ids of the file. *)
LEMMA RestartInv ==
  ASSUME IInv, restart
  PROVE  IInv'
<1>1. TypeOK'
  BY RestartType DEF IInv
<1>2. /\ ActionsTyped /\ RunsTyped /\ ControlTyped
      /\ sim_time \in Nat /\ restarts \in Nat
  BY TypeParts, ActionConstants DEF IInv, ControlTyped, Times
<1>3. /\ actions_' = [n \in DOMAIN actions_ |-> [actions_[n] EXCEPT !.id = 0, !.start_time = sim_time]]
      /\ run_state' = [k \in {<<n, 0>> : n \in {m \in DOMAIN actions_ : run_count(m) > 0}} |->
                         [run_count |-> 1, last_run |-> run_time(k[1])]]
  BY DEF restart
<1>4. restarts' = restarts + 1 /\ phase' = "start" /\ sim_time' = sim_time /\ history' = history
  BY DEF restart
<1>5. DOMAIN actions_' = DOMAIN actions_
  BY <1>3
<1>6. ASSUME NEW n \in DOMAIN actions_
      PROVE  actions_'[n].id = 0 /\ actions_'[n].start_time = sim_time
             /\ actions_'[n].min_wait = actions_[n].min_wait
  <2>1. actions_[n] \in Definition
    BY <1>2 DEF ActionsTyped
  <2>2. actions_'[n] = [actions_[n] EXCEPT !.id = 0, !.start_time = sim_time]
    BY <1>3
  <2>3. QED
    BY <2>1, <2>2 DEF Definition
<1>7. DOMAIN run_state' = {<<n, 0>> : n \in {m \in DOMAIN actions_ : run_count(m) > 0}}
  BY <1>3
<1>8. ASSUME NEW n \in DOMAIN actions_
      PROVE  /\ run_count(n) = 0 => run_count(n)' = 0
             /\ run_count(n) # 0 => run_count(n)' = 1 /\ run_time(n)' = run_time(n)
             /\ run_count(n) \in Nat
  <2>1. makeID(n)' = <<n, 0>>
    BY <1>6 DEF makeID
  <2>2. run_count(n) \in Nat
    BY <1>2, RunFields
  <2>3. CASE run_count(n) = 0
    <3>1. <<n, 0>> \notin DOMAIN run_state'
      BY <1>7, <2>3
    <3>2. QED
      BY <2>1, <2>2, <2>3, <3>1 DEF run_count
  <2>4. CASE run_count(n) # 0
    <3>1. <<n, 0>> \in DOMAIN run_state'
      BY <1>7, <2>2, <2>4
    <3>2. run_state'[<<n, 0>>] = [run_count |-> 1, last_run |-> run_time(<<n, 0>>[1])]
      BY <1>3, <1>7, <3>1
    <3>3. run_state'[<<n, 0>>].run_count = 1 /\ run_state'[<<n, 0>>].last_run = run_time(n)
      BY <3>2
    <3>4. run_count(n)' = 1
      BY <2>1, <3>1, <3>3 DEF run_count
    <3>5. run_time(n)' = run_time(n)
      BY <2>1, <3>3 DEF run_time
    <3>6. QED
      BY <2>2, <2>4, <3>4, <3>5
  <2>5. QED
    BY <2>3, <2>4
<1>9. Known'
  <2>1. ASSUME NEW k \in DOMAIN run_state'
        PROVE  k[1] \in DOMAIN actions_' /\ k[2] <= actions_'[k[1]].id
    <3>1. PICK n \in DOMAIN actions_ : k = <<n, 0>>
      BY <1>7
    <3>2. QED
      BY <1>5, <1>6, <3>1
  <2>2. QED
    BY <2>1 DEF Known
<1>10. ASSUME NEW n \in DOMAIN actions_' PROVE Agrees(n)'
  <2>1. n \in DOMAIN actions_ /\ Agrees(n)
    BY <1>5 DEF IInv, Counted
  <2>2. restarts' # 0
    BY <1>2, <1>4
  <2>3. QED
    BY <1>8, <1>4, <2>1, <2>2 DEF Agrees
<1>11. Started'
  BY <1>2, <1>5, <1>6, <1>4 DEF Started
<1>12. StillReady' /\ Past' /\ RunsWithinLimit'
  BY <1>2, <1>5, <1>4 DEF IInv, StillReady, Past, RunsWithinLimit
<1>13. MinWaitRespected'
  BY <1>5, <1>6, <1>4 DEF IInv, MinWaitRespected
<1>14. QED
  BY <1>1, <1>9, <1>10, <1>11, <1>12, <1>13 DEF IInv, Counted

-----------------------------------------------------------------------------
(***************************************************************************)
(* The theorems                                                            *)
(***************************************************************************)
LEMMA InitInv ==
  ASSUME Init
  PROVE  IInv
<1>1. TypeOK
  BY ActionConstants DEF Init, TypeOK, Times, Empty
<1>2. DOMAIN actions_ = {} /\ DOMAIN run_state = {} /\ phase = "start"
  BY DEF Init, Empty
<1>3. QED
  BY <1>1, <1>2 DEF IInv, Known, Counted, Started, StillReady, Past, RunsWithinLimit, MinWaitRespected

(* The steps that change no definition and no record.                      *)
Housekeeping ==
  \/ \E p \in Scripts : addPy(p)
  \/ collectActions
  \/ \E n \in ActionNames : conditionFails(n)
  \/ collectScripts
  \/ \E p \in Scripts, result \in BOOLEAN : runPyAction(p, result)
  \/ postStepDone
  \/ written
  \/ UNCHANGED vars

(* The steps that record nothing. *)
LEMMA HousekeepingInv ==
  ASSUME IInv, Housekeeping
  PROVE  IInv'
<1>1. UNCHANGED records
  BY DEF Housekeeping, records, addPy, collectActions, conditionFails, collectScripts, runPyAction,
         postStepDone, written, vars
<1>2. TypeOK'
  <2>1. ASSUME NEW p \in Scripts, addPy(p) PROVE TypeOK'
    BY <2>1 DEF IInv, TypeOK, addPy, Times
  <2>2. CASE collectActions
    BY <2>2 DEF IInv, TypeOK, collectActions, Times
  <2>3. ASSUME NEW n \in ActionNames, conditionFails(n) PROVE TypeOK'
    BY <2>3 DEF IInv, TypeOK, conditionFails, Times
  <2>4. CASE collectScripts
    BY <2>4 DEF IInv, TypeOK, collectScripts, Times
  <2>5. ASSUME NEW p \in Scripts, NEW result \in BOOLEAN, runPyAction(p, result) PROVE TypeOK'
    BY <2>5, RunPyType DEF IInv
  <2>6. CASE postStepDone
    BY <2>6 DEF IInv, TypeOK, postStepDone, Times
  <2>7. CASE written
    BY <2>7 DEF IInv, TypeOK, written, Times
  <2>8. CASE UNCHANGED vars
    BY <2>8 DEF IInv, TypeOK, vars, Times
  <2>9. QED
    BY <2>1, <2>2, <2>3, <2>4, <2>5, <2>6, <2>7, <2>8 DEF Housekeeping
<1>3. StillReady'
  <2>1. \A n : ready(n)' <=> ready(n)
    BY <1>1 DEF ready, run_count, run_time, makeID, records
  <2>2. CASE collectActions
    BY <1>1, <2>1, <2>2 DEF StillReady, collectActions, records
  <2>3. ASSUME NEW n \in ActionNames, conditionFails(n) PROVE StillReady'
    BY <1>1, <2>1, <2>3 DEF IInv, StillReady, conditionFails, records
  <2>4. CASE phase' # "actions"
    BY <2>4 DEF StillReady
  <2>5. CASE UNCHANGED <<phase, pending>>
    BY <1>1, <2>1, <2>5 DEF IInv, StillReady, records
  <2>6. QED
    BY <2>2, <2>3, <2>4, <2>5
    DEF Housekeeping, addPy, collectScripts, runPyAction, postStepDone, written, vars
<1>4. QED
  BY <1>1, <1>2, <1>3, RecordsKept DEF IInv

(* Time goes on, and what was recorded lies in the past. *)
LEMMA NextReportStepInv ==
  ASSUME IInv, nextReportStep
  PROVE  IInv'
<1>1. /\ UNCHANGED <<actions_, run_state, restarts, history>>
      /\ sim_time' = sim_time + 1 /\ phase' = "output" /\ sim_time < EndTime
  BY DEF nextReportStep
<1>2. sim_time \in Nat
  BY DEF IInv, TypeOK, Times
<1>3. TypeOK'
  BY <1>2, ActionConstants DEF IInv, TypeOK, nextReportStep, Times
<1>4. Known' /\ Counted' /\ RunsWithinLimit' /\ MinWaitRespected'
  BY <1>1 DEF IInv, Known, Counted, Agrees, RunsWithinLimit, MinWaitRespected,
              run_count, run_time, makeID
<1>5. Started'
  <2>1. \A n \in DOMAIN actions_ : actions_[n].start_time \in Nat
    BY DefinitionFields, TypeParts DEF IInv, Times
  <2>2. QED
    BY <1>1, <1>2, <2>1 DEF IInv, Started
<1>6. StillReady'
  BY <1>1 DEF StillReady
<1>7. Past'
  <2>1. SUFFICES ASSUME NEW n \in DOMAIN actions_, NEW i \in 1 .. Len(history[n])
                 PROVE  history[n][i] <= sim_time + 1
    BY <1>1 DEF Past
  <2>2. history[n] \in Seq(Times)
    <3>1. n \in ActionNames /\ history \in [ActionNames -> Seq(Times)]
      BY DEF IInv, TypeOK
    <3>2. QED
      BY <3>1
  <2>3. history[n][i] \in Nat
    <3>1. history[n][i] \in Times
      BY <2>2, ElementType
    <3>2. QED
      BY <3>1 DEF Times
  <2>4. QED
    BY <1>2, <2>3 DEF IInv, Past
<1>8. QED
  BY <1>3, <1>4, <1>5, <1>6, <1>7 DEF IInv

(* Every step keeps the invariant. *)
LEMMA StepInv ==
  ASSUME RecordsRuns, IInv, [Next]_vars
  PROVE  IInv'
<1>1. ASSUME NEW n \in ActionNames, NEW m \in MaxRuns, NEW w \in MinWaits, add(n, m, w)
      PROVE  IInv'
  BY <1>1, AddInv
<1>2. ASSUME NEW n \in ActionNames, NEW wells \in SUBSET Wells, add_run(n, wells)
      PROVE  IInv'
  BY <1>2, AddRunInv
<1>3. CASE nextReportStep
  BY <1>3, NextReportStepInv
<1>4. CASE restart
  BY <1>4, RestartInv
<1>5. CASE Housekeeping
  BY <1>5, HousekeepingInv
<1>6. QED
  BY <1>1, <1>2, <1>3, <1>4, <1>5 DEF Next, Housekeeping

(* The inductive invariant holds where the simulator records the runs.     *)
THEOREM InvHolds ==
  ASSUME RecordsRuns
  PROVE  Spec => []IInv
<1>1. Init => IInv
  BY InitInv
<1>2. IInv /\ [Next]_vars => IInv'
  BY StepInv
<1>3. QED
  BY <1>1, <1>2, PTL DEF Spec
(* The variables keep their types.                                         *)
THEOREM TypeCorrect ==
  ASSUME RecordsRuns
  PROVE  Spec => []TypeOK
<1>1. IInv => TypeOK
  BY DEF IInv
<1>2. QED
  BY <1>1, InvHolds, PTL

(* Where the simulator records the runs, no definition of an action runs   *)
(* more often than its item NUM allows before the run is restarted.        *)
THEOREM LimitKept ==
  ASSUME RecordsRuns
  PROVE  Spec => []RunsWithinLimit
<1>1. IInv => RunsWithinLimit
  BY DEF IInv
<1>2. QED
  BY <1>1, InvHolds, PTL

(* Where the simulator records the runs, two runs of a definition are at   *)
(* least MIN_WAIT apart, across any number of restarts.                    *)
THEOREM WaitKept ==
  ASSUME RecordsRuns
  PROVE  Spec => []MinWaitRespected
<1>1. IInv => MinWaitRespected
  BY DEF IInv
<1>2. QED
  BY <1>1, InvHolds, PTL

(* Under the name and id of a definition its own runs are recorded, if the *)
(* simulator records runs at all: a redefinition takes over none of those  *)
(* of the definition it replaces, and a restart neither loses nor invents  *)
(* a last run.                                                             *)
THEOREM OwnRunsAreCounted ==
  ASSUME RecordsRuns
  PROVE  Spec => []OwnRunsCounted
<1>1. IInv => OwnRunsCounted
  BY DEF IInv, Counted, Agrees, OwnRunsCounted, Last
<1>2. QED
  BY <1>1, InvHolds, PTL

-----------------------------------------------------------------------------
(***************************************************************************)
(* Scripts                                                                 *)
(***************************************************************************)
PyTyped ==
  /\ py_history \in [Scripts -> Seq(BOOLEAN)]
  /\ DOMAIN m_python_result \subseteq Scripts

(* The result kept for a script is the last one it returned.               *)
LastKept(p) ==
  /\ p \in DOMAIN m_python_result <=> py_history[p] # << >>
  /\ p \in DOMAIN m_python_result => m_python_result[p] = py_history[p][Len(py_history[p])]

StopsIn(p) ==
  /\ RunCount[p] = "single" => Len(py_history[p]) <= 1
  /\ RunCount[p] = "first_true" =>
       \A i \in DOMAIN py_history[p] : py_history[p][i] => i = Len(py_history[p])

PendingReady == phase = "scripts" => \A p \in pending : pyReady(p)

PyInv ==
  /\ PyTyped
  /\ \A p \in Scripts : LastKept(p) /\ StopsIn(p)
  /\ PendingReady

(* A run of a script leaves its result as the last one. *)
LEMMA RunPyInv ==
  ASSUME PyInv, NEW p \in Scripts, NEW result \in BOOLEAN, runPyAction(p, result)
  PROVE  PyInv'
<1> DEFINE old == py_history[p]
           new == py_history'[p]
<1>1. pyReady(p) /\ LastKept(p) /\ StopsIn(p) /\ old \in Seq(BOOLEAN)
  BY DEF PyInv, PyTyped, PendingReady, runPyAction
<1>2. /\ m_python_result' = With(m_python_result, p, result)
      /\ py_history' = [py_history EXCEPT ![p] = Append(@, result)]
      /\ pending' = pending \ {p} /\ phase' = phase
  BY DEF runPyAction
<1>3. new = Append(old, result) /\ \A q \in Scripts : q # p => py_history'[q] = py_history[q]
  BY <1>2 DEF PyInv, PyTyped
<1>4. /\ Len(old) \in Nat
      /\ Len(new) = Len(old) + 1
      /\ new # << >>
      /\ new \in Seq(BOOLEAN)
      /\ new[Len(old) + 1] = result
      /\ \A i \in 1 .. Len(old) : new[i] = old[i]
      /\ old = << >> <=> Len(old) = 0
  <2> HIDE DEF new
  <2>1. QED
    BY <1>1, <1>3, AppendFacts
<1>5. /\ DOMAIN m_python_result' = DOMAIN m_python_result \cup {p}
      /\ m_python_result'[p] = result
      /\ \A q \in DOMAIN m_python_result : q # p => m_python_result'[q] = m_python_result[q]
  <2>1. LET m == With(m_python_result, p, result)
        IN /\ DOMAIN m = DOMAIN m_python_result \cup {p}
           /\ m[p] = result
           /\ \A q \in DOMAIN m_python_result : q # p => m[q] = m_python_result[q]
    BY Zenon DEF With
  <2>2. QED
    BY <1>2, <2>1, Zenon
<1>6. PyTyped'
  <2>1. py_history' \in [Scripts -> Seq(BOOLEAN)]
    BY <1>1, <1>2, <1>3, <1>4 DEF PyInv, PyTyped
  <2>2. QED
    BY <1>5, <2>1 DEF PyInv, PyTyped
<1>7. ASSUME NEW q, q # p
      PROVE  /\ q \in Scripts => LastKept(q)' /\ StopsIn(q)'
             /\ pyReady(q) => pyReady(q)'
  <2>1. /\ q \in DOMAIN m_python_result' <=> q \in DOMAIN m_python_result
        /\ q \in DOMAIN m_python_result => m_python_result'[q] = m_python_result[q]
    BY <1>5, <1>7, Zenon
  <2>2. ASSUME q \in Scripts PROVE LastKept(q)' /\ StopsIn(q)'
    <3>1. LastKept(q) /\ StopsIn(q) /\ py_history'[q] = py_history[q]
      BY <1>3, <1>7, <2>2 DEF PyInv
    <3>2. LastKept(q)'
      BY <2>1, <3>1, Zenon DEF LastKept
    <3>3. StopsIn(q)'
      BY <3>1 DEF StopsIn
    <3>4. QED
      BY <3>2, <3>3
  <2>3. pyReady(q) => pyReady(q)'
    BY <2>1, Zenon DEF pyReady
  <2>4. QED
    BY <2>2, <2>3
<1>8. LastKept(p)'
  BY <1>4, <1>5 DEF LastKept
<1>9. StopsIn(p)'
  <2>1. CASE RunCount[p] = "single"
    <3>1. p \notin DOMAIN m_python_result
      BY <1>1, <2>1 DEF pyReady
    <3>2. Len(new) = 1
      BY <1>1, <1>4, <3>1 DEF LastKept
    <3>3. QED
      BY <2>1, <3>2 DEF StopsIn
  <2>2. CASE RunCount[p] = "first_true"
    <3>1. ASSUME NEW i \in 1 .. Len(old) PROVE old[i] # TRUE
      <4>1. p \in DOMAIN m_python_result /\ old # << >>
        BY <1>1, <1>4, <3>1 DEF LastKept
      <4>2. ~ old[Len(old)]
        BY <1>1, <2>2, <4>1 DEF LastKept, pyReady
      <4>3. i \in DOMAIN old
        BY <1>1, <3>1
      <4>4. old[i] => i = Len(old)
        BY <1>1, <2>2, <4>3 DEF StopsIn
      <4>5. QED
        BY <4>2, <4>4, Zenon
    <3>2. ASSUME NEW i \in DOMAIN new, new[i] PROVE i = Len(new)
      <4>1. i \in 1 .. Len(old) + 1
        BY <1>4
      <4>2. new[i] = TRUE
        <5>1. new[i] \in BOOLEAN
          BY <1>4, <4>1, ElementType
        <5>2. QED
          BY <3>2, <5>1
      <4>3. CASE i \in 1 .. Len(old)
        BY <1>4, <3>1, <4>2, <4>3
      <4>4. CASE i = Len(old) + 1
        BY <1>4, <4>4
      <4>5. QED
        BY <1>4, <4>1, <4>3, <4>4
    <3>3. QED
      BY <2>2, <3>2 DEF StopsIn
  <2>3. CASE RunCount[p] \notin {"single", "first_true"}
    BY <2>3 DEF StopsIn
  <2>4. QED
    BY <2>1, <2>2, <2>3
<1>10. PendingReady'
  BY <1>2, <1>7 DEF PyInv, PendingReady
<1>11. QED
  BY <1>6, <1>7, <1>8, <1>9, <1>10 DEF PyInv

(* Every step keeps what is said of the scripts. *)
LEMMA PyStep ==
  ASSUME PyInv, [Next]_vars
  PROVE  PyInv'
<1>1. ASSUME NEW p \in Scripts, NEW result \in BOOLEAN, runPyAction(p, result) PROVE PyInv'
  BY <1>1, RunPyInv
<1>2. CASE restart
  <2>1. /\ m_python_result' = Empty /\ phase' = "start"
        /\ py_history' = [p \in Scripts |-> << >>]
    BY <1>2 DEF restart
  <2>2. DOMAIN m_python_result' = {} /\ \A p \in Scripts : py_history'[p] = << >>
    BY <2>1 DEF Empty
  <2>3. PyTyped'
    BY <2>1, <2>2 DEF PyTyped
  <2>4. \A p \in Scripts : LastKept(p)' /\ StopsIn(p)'
    BY <2>2 DEF LastKept, StopsIn
  <2>5. QED
    BY <2>1, <2>3, <2>4 DEF PyInv, PendingReady
<1>3. ASSUME UNCHANGED <<m_python_result, py_history>>
      PROVE  /\ PyTyped' /\ (\A p \in Scripts : LastKept(p)' /\ StopsIn(p)')
             /\ \A p : pyReady(p)' <=> pyReady(p)
  BY <1>3 DEF PyInv, PyTyped, LastKept, StopsIn, pyReady
<1>4. CASE collectScripts
  <2>1. UNCHANGED <<m_python_result, py_history>>
    BY <1>4 DEF collectScripts
  <2>2. pending' = {p \in pyactions_ : pyReady(p)}
    BY <1>4 DEF collectScripts
  <2>3. QED
    BY <1>3, <2>1, <2>2 DEF PyInv, PendingReady
<1>5. CASE UNCHANGED <<m_python_result, py_history>> /\ phase' # "scripts"
  BY <1>3, <1>5 DEF PyInv, PendingReady
<1>6. CASE UNCHANGED <<m_python_result, py_history, phase, pending>>
  BY <1>3, <1>6 DEF PyInv, PendingReady
<1>7. QED
  BY <1>1, <1>2, <1>4, <1>5, <1>6
  DEF Next, add, addPy, collectActions, add_run, conditionFails, postStepDone, nextReportStep,
      written, vars

(* A SINGLE script runs at most once, and a FIRST_TRUE script not after it *)
(* has returned true, since its definition or the last restart.            *)
THEOREM ScriptsDoStop == Spec => []ScriptsStop
<1>1. Init => PyInv
  <2>1. SUFFICES ASSUME Init PROVE PyInv
    OBVIOUS
  <2>2. DOMAIN m_python_result = {} /\ py_history = [p \in Scripts |-> << >>] /\ phase = "start"
    <3>1. m_python_result = Empty
      BY <2>1, Zenon DEF Init
    <3>2. py_history = [p \in Scripts |-> << >>] /\ phase = "start"
      BY <2>1, Zenon DEF Init
    <3>3. QED
      BY <3>1, <3>2 DEF Empty
  <2>3. \A p \in Scripts : py_history[p] = << >>
    BY <2>2
  <2>4. PyTyped
    BY <2>2 DEF PyTyped
  <2>5. \A p \in Scripts : LastKept(p) /\ StopsIn(p)
    BY <2>2, <2>3 DEF LastKept, StopsIn
  <2>6. QED
    BY <2>2, <2>4, <2>5 DEF PyInv, PendingReady
<1>2. PyInv /\ [Next]_vars => PyInv'
  BY PyStep
<1>3. PyInv => ScriptsStop
  BY DEF PyInv, ScriptsStop, StopsIn
<1>4. QED
  BY <1>1, <1>2, <1>3, PTL DEF Spec
=============================================================================
