------------------------ MODULE ScheduleReplayProofs ------------------------
(***************************************************************************)
(* Proofs about ScheduleReplay, for every number of report steps, every    *)
(* deck, every set of wells and every sequence of calls.  The theorems on  *)
(* the shape of the snapshots and on the past hold whatever the keyword    *)
(* handlers do, those on blank states and on what the check against the    *)
(* past protects also whatever calls are made.  The others rest on what a  *)
(* keyword leaves alone: wells and dates, and the restart output that no   *)
(* action may configure.                                                   *)
(***************************************************************************)
EXTENDS ReplayTimeline, WriteRestartFileEvents, SequenceTheorems, WellFoundedInduction, TLAPS

-----------------------------------------------------------------------------
(***************************************************************************)
(* Sequences of snapshots.  The set the elements belong to does not        *)
(* matter, so it is taken to be the range.                                 *)
(***************************************************************************)
IsSeq(s) == s \in Seq(Range(s))

(* A sequence of snapshots has a length and positions.                     *)
LEMMA SeqHasLen ==
  ASSUME NEW s, IsSeq(s)
  PROVE  Len(s) \in Nat /\ DOMAIN s = 1 .. Len(s)
BY LenProperties DEF IsSeq

(* What appending a snapshot leaves and adds.                              *)
LEMMA AppendFacts ==
  ASSUME NEW s, NEW x, IsSeq(s)
  PROVE  /\ IsSeq(Append(s, x))
         /\ Len(Append(s, x)) = Len(s) + 1
         /\ \A i \in 1 .. Len(s) : Append(s, x)[i] = s[i]
         /\ Append(s, x)[Len(s) + 1] = x
<1> DEFINE T == Range(s) \cup {x}
<1>1. s \in Seq(T)
  BY SeqMonotonic DEF IsSeq
<1> HIDE DEF T
<1>2. x \in T
  BY DEF T
<1>3. Append(s, x) \in Seq(T)
  BY <1>1, <1>2, AppendProperties
<1>4. IsSeq(Append(s, x))
  BY <1>3, SeqOfRange DEF IsSeq
<1>5. QED
  BY <1>1, <1>2, <1>4, AppendProperties

(* A prefix has the elements of the sequence.                              *)
LEMMA PrefixFacts ==
  ASSUME NEW s, IsSeq(s), NEW n \in 0 .. Len(s)
  PROVE  /\ IsSeq(SubSeq(s, 1, n))
         /\ Len(SubSeq(s, 1, n)) = n
         /\ \A i \in 1 .. n : SubSeq(s, 1, n)[i] = s[i]
<1> DEFINE T == Range(s)
<1>1. Len(s) \in Nat
  BY SeqHasLen
<1>2. \A i \in 1 .. n : s[i] \in T
  BY <1>1, ElementOfSeq DEF IsSeq
<1> HIDE DEF T
<1>3. /\ SubSeq(s, 1, n) \in Seq(T)
      /\ Len(SubSeq(s, 1, n)) = IF 1 <= n THEN n - 1 + 1 ELSE 0
      /\ \A i \in 1 .. n - 1 + 1 : SubSeq(s, 1, n)[i] = s[1 + i - 1]
  BY <1>1, <1>2, SubSeqProperties
<1>4. IsSeq(SubSeq(s, 1, n))
  BY <1>3, SeqOfRange DEF IsSeq
<1>5. QED
  BY <1>1, <1>3, <1>4

(* Replacing a snapshot leaves the others.                                 *)
LEMMA ReplaceFacts ==
  ASSUME NEW s, IsSeq(s), NEW j \in 1 .. Len(s), NEW x
  PROVE  /\ IsSeq([s EXCEPT ![j] = x])
         /\ Len([s EXCEPT ![j] = x]) = Len(s)
         /\ \A i \in 1 .. Len(s) : [s EXCEPT ![j] = x][i] = IF i = j THEN x ELSE s[i]
<1> DEFINE T == Range(s) \cup {x}
<1>1. s \in Seq(T)
  BY SeqMonotonic DEF IsSeq
<1> HIDE DEF T
<1>2. x \in T
  BY DEF T
<1>3. [s EXCEPT ![j] = x] \in Seq(T)
  BY <1>1, <1>2, ExceptSeq
<1>4. IsSeq([s EXCEPT ![j] = x])
  BY <1>3, SeqOfRange DEF IsSeq
<1>5. QED
  BY <1>1, <1>2, <1>4, ExceptSeq

(* No snapshots are a sequence of them, too.                               *)
LEMMA EmptyIsSeq == IsSeq(<< >>) /\ Len(<< >>) = 0
BY EmptySeq, SeqOfRange DEF IsSeq

(* Replacing at a position that does not exist does nothing.               *)
LEMMA ReplaceIsSeq ==
  ASSUME NEW s, IsSeq(s), NEW j, NEW x
  PROVE  IsSeq([s EXCEPT ![j] = x])
<1>1. CASE j \in 1 .. Len(s)
  BY <1>1, ReplaceFacts
<1>2. CASE j \notin 1 .. Len(s)
  <2>1. s = [i \in 1 .. Len(s) |-> s[i]]
    BY LenProperties DEF IsSeq
  <2>2. [s EXCEPT ![j] = x] = s
    BY <1>2, <2>1
  <2>3. QED
    BY <2>2
<1>3. QED
  BY <1>1, <1>2

(* An iteration makes a sequence of a sequence.                            *)
LEMMA ProcessStepIsSeq ==
  ASSUME NEW s, IsSeq(s), NEW step, NEW kws
  PROVE  IsSeq(processStep(s, step, kws))
<1>1. CASE Len(s) = step
  BY <1>1, AppendFacts DEF processStep
<1>2. CASE Len(s) # step
  <2> DEFINE old == processBlock(s[step + 1], SelectSeq(kws, AddsToStep))
             new == handleKeywords(create(s, step), SelectSeq(kws, AddsToBack), {})
             r   == [s EXCEPT ![step + 1] = old]
             x   == IF IsFailed(old) THEN FAILED ELSE new
  <2>1. processStep(s, step, kws) = Append(r, x)
    BY <1>2 DEF processStep
  <2> HIDE DEF old, new, x
  <2>2. IsSeq(r)
    BY ReplaceIsSeq
  <2> HIDE DEF r
  <2>3. QED
    BY <2>1, <2>2, AppendFacts
<1>3. QED
  BY <1>1, <1>2

-----------------------------------------------------------------------------
(***************************************************************************)
(* addKeywords in the three ways it can end.                               *)
(***************************************************************************)
Rebuilt(step) ==
  /\ IsSeq(snapshots')
  /\ Len(snapshots') = step + 1
  /\ step < Len(snapshots)
  /\ \A i \in 1 .. step : snapshots'[i] = snapshots[i]
  /\ DOMAIN m_sched_deck' = DOMAIN m_sched_deck
  /\ DOMAIN input' = DOMAIN input
  /\ \A i \in Steps \ {step} : input'[i] = input[i]
  /\ m_sched_deck = input => m_sched_deck' = input'
  /\ edited' = {i \in edited : i < step} \cup {step}
  /\ exit_status' \in BOOLEAN
  /\ mode' = mode

(* addKeywords crashes, fails, or truncates and rebuilds one step.         *)
LEMMA AddKeywordsCases ==
  ASSUME TypeOK, NEW step \in Steps, NEW kws, NEW matches,
         NEW is_action \in BOOLEAN, NEW iterate \in BOOLEAN,
         addKeywords(step, kws, matches, is_action, iterate)
  PROVE  /\ ~Iterating
         /\ calls' \in 0 .. MaxCalls
         /\ UNCHANGED <<restart_output, current_report_step, load_end, sim>>
         /\ \/ /\ mode' = "crashed" /\ step >= Len(snapshots)
               /\ UNCHANGED <<m_sched_deck, snapshots, exit_status, report_step, input, edited>>
            \/ /\ mode' = "failed"
               /\ UNCHANGED <<m_sched_deck, snapshots, exit_status, report_step, input, edited>>
            \/ /\ Rebuilt(step)
               /\ report_step' = IF iterate /\ step < N - 1 THEN step + 1 ELSE N
<1> DEFINE new == amended(snapshots[step + 1], kws, matches, is_action)
<1>1. IsSeq(snapshots) /\ Len(snapshots) \in Nat /\ step \in Nat
  BY SeqHasLen, ConstantsAssumption DEF TypeOK, IsSeq, Steps
<1>2. CASE step >= Len(snapshots) \/ IsFailed(new)
  BY <1>2, ConstantsAssumption DEF addKeywords, TypeOK
<1>3. CASE ~(step >= Len(snapshots) \/ IsFailed(new))
  <2>1. /\ snapshots' = Append(SubSeq(snapshots, 1, step), new)
        /\ m_sched_deck' = [m_sched_deck EXCEPT ![step] = @ \o kws]
        /\ input' = [input EXCEPT ![step] = @ \o kws]
        /\ edited' = {i \in edited : i < step} \cup {step}
        /\ exit_status' = (exit_status \/ HasExit(kws))
        /\ report_step' = IF iterate /\ step < N - 1 THEN step + 1 ELSE N
        /\ mode' = mode
    BY <1>3 DEF addKeywords
  <2> HIDE DEF new
  <2>2. step < Len(snapshots) /\ step \in 0 .. Len(snapshots)
    BY <1>1, <1>3
  <2> DEFINE p == SubSeq(snapshots, 1, step)
  <2>3. IsSeq(p) /\ Len(p) = step /\ \A i \in 1 .. step : p[i] = snapshots[i]
    BY <1>1, <2>2, PrefixFacts
  <2> HIDE DEF p
  <2>4. snapshots' = Append(p, new)
    BY <2>1 DEF p
  <2>5. IsSeq(snapshots') /\ Len(snapshots') = step + 1
        /\ \A i \in 1 .. step : snapshots'[i] = snapshots[i]
    BY <2>3, <2>4, AppendFacts
  <2>6. /\ DOMAIN m_sched_deck' = DOMAIN m_sched_deck
        /\ DOMAIN input' = DOMAIN input
        /\ \A i \in Steps \ {step} : input'[i] = input[i]
        /\ m_sched_deck = input => m_sched_deck' = input'
    BY <2>1 DEF TypeOK
  <2>7. exit_status' \in BOOLEAN
    BY <2>1, Zenon DEF TypeOK
  <2>8. Rebuilt(step)
    BY <2>1, <2>2, <2>5, <2>6, <2>7 DEF Rebuilt
  <2>9. ~Iterating /\ calls' \in 0 .. MaxCalls
        /\ UNCHANGED <<restart_output, current_report_step, load_end, sim>>
    BY ConstantsAssumption DEF addKeywords, TypeOK
  <2>10. QED
    BY <2>1, <2>8, <2>9
<1>4. QED
  BY <1>2, <1>3

(* A rebuilt step leaves every variable its type.                          *)
LEMMA RebuiltType ==
  ASSUME TypeOK, NEW step \in Steps, Rebuilt(step), calls' \in 0 .. MaxCalls,
         report_step' \in 0 .. N, delayed_iteration' \in Delayed,
         UNCHANGED <<restart_output, current_report_step, load_end, sim>>
  PROVE  TypeOK'
BY DEF TypeOK, Rebuilt, IsSeq, Steps

(* So does an iteration.                                                   *)
LEMMA IteratedType ==
  ASSUME TypeOK, iterateScheduleSection
  PROVE  TypeOK'
<1>1. report_step \in Steps /\ report_step' \in 0 .. N
  BY ConstantsAssumption DEF TypeOK, iterateScheduleSection, Iterating, Steps
<1>2. IsSeq(snapshots')
  BY ProcessStepIsSeq DEF iterateScheduleSection, TypeOK, IsSeq
<1>3. restart_output' \subseteq Steps
  BY <1>1 DEF iterateScheduleSection, TypeOK
<1>4. exit_status' \in BOOLEAN
  BY Zenon DEF iterateScheduleSection, TypeOK
<1>5. DOMAIN m_sched_deck' = Steps
  BY DEF iterateScheduleSection, TypeOK
<1>6. UNCHANGED <<current_report_step, delayed_iteration, load_end, mode, sim, input, edited, calls>>
  BY DEF iterateScheduleSection
<1>7. QED
  BY <1>1, <1>2, <1>3, <1>4, <1>5, <1>6 DEF TypeOK, IsSeq

(* So does every operation that adds keywords.                             *)
LEMMA AddKeywordsType ==
  ASSUME TypeOK, NEW step \in Steps, NEW kws, NEW matches,
         NEW is_action \in BOOLEAN, NEW iterate \in BOOLEAN,
         addKeywords(step, kws, matches, is_action, iterate),
         delayed_iteration' \in Delayed
  PROVE  TypeOK'
<1>1. CASE Rebuilt(step) /\ report_step' = IF iterate /\ step < N - 1 THEN step + 1 ELSE N
  <2>1. report_step' \in 0 .. N
    BY <1>1, ConstantsAssumption DEF Steps
  <2>2. QED
    BY <1>1, <2>1, AddKeywordsCases, RebuiltType
<1>2. CASE /\ mode' \in {"crashed", "failed"}
           /\ UNCHANGED <<m_sched_deck, snapshots, exit_status, report_step, input, edited>>
  BY <1>2, AddKeywordsCases DEF TypeOK, Modes
<1>3. QED
  BY <1>1, <1>2, AddKeywordsCases

(* Every variable keeps its type, whatever the deck, the scripts and the   *)
(* discipline of the calls: snapshots stays a vector, the loop of          *)
(* iterateScheduleSection stays within the report steps.                   *)
THEOREM TypeCorrect == Spec => []TypeOK
<1>1. Init => TypeOK
  <2> SUFFICES ASSUME Init PROVE TypeOK
    OBVIOUS
  <2>1. /\ N \in Nat \ {0} /\ MaxCalls \in Nat /\ RestartStep \in 0 .. N - 1
        /\ DOMAIN m_sched_deck = Steps /\ DOMAIN input = Steps
    BY ConstantsAssumption DEF Init, Steps
  <2>2. snapshots \in Seq(Range(snapshots))
    BY EmptyIsSeq DEF Init, IsSeq
  <2> QED
    BY <2>1, <2>2 DEF Init, TypeOK, Steps, Delayed, Modes
<1>2. TypeOK /\ [Next]_vars => TypeOK'
  <2> SUFFICES ASSUME TypeOK, [Next]_vars PROVE TypeOK'
    OBVIOUS
  <2>1. CASE iterateScheduleSection
    BY <2>1, IteratedType
  <2>2. CASE IterationFails
    BY <2>2 DEF IterationFails, TypeOK, Modes
  <2>3. CASE load_rst
    <3>1. IsSeq(snapshots')
      BY <2>3, ReplaceIsSeq DEF load_rst, TypeOK, IsSeq
    <3>2. QED
      BY <2>3, <3>1, ConstantsAssumption DEF load_rst, TypeOK, IsSeq, Steps
  <2>4. CASE constructed
    <3>1. IsSeq(snapshots')
      BY <2>4, ReplaceIsSeq DEF constructed, TypeOK, IsSeq
    <3>2. QED
      BY <2>4, <3>1, ConstantsAssumption DEF constructed, TypeOK, IsSeq, Modes
  <2>5. CASE Advance
    BY <2>5, ConstantsAssumption DEF Advance, TypeOK, Steps
  <2>6. CASE \E act \in ActionNames, m \in SUBSET Wells : applyAction(act, m)
    BY <2>6, AddKeywordsType DEF applyAction, TypeOK
  <2>7. CASE runPyAction
    BY <2>7 DEF runPyAction, TypeOK, Modes, Delayed
  <2>8. CASE pyActionDone
    BY <2>8, ConstantsAssumption DEF pyActionDone, TypeOK, Modes, Steps
  <2>9. CASE \E w \in Wells, st \in WellStatus, i \in Steps : changeWellStatus(w, st, i)
    <3>1. PICK w \in Wells, st \in WellStatus, i \in Steps : changeWellStatus(w, st, i)
      BY <2>9
    <3>2. /\ addKeywords(i, <<WELOPEN(w, st)>>, {}, TRUE, delayed_iteration = "Off")
          /\ delayed_iteration' \in Delayed
      BY <3>1 DEF changeWellStatus, Delayed
    <3>3. QED
      BY <3>2, AddKeywordsType
  <2>10. CASE \E kws \in ScriptKeywords, i \in Steps : insert_keywords(kws, i)
    BY <2>10, AddKeywordsType DEF insert_keywords, TypeOK, Delayed
  <2>11. CASE \E act \in ActionNames, m \in SUBSET Wells : actionx_callback(act, m)
    BY <2>11, AddKeywordsType DEF actionx_callback, TypeOK
  <2>12. CASE UNCHANGED vars
    BY <2>12 DEF vars, TypeOK
  <2>13. QED
    BY <2>1, <2>2, <2>3, <2>4, <2>5, <2>6, <2>7, <2>8, <2>9, <2>10, <2>11, <2>12 DEF Next
<1>3. QED
  BY <1>1, <1>2, PTL DEF Spec

-----------------------------------------------------------------------------
(***************************************************************************)
(* The discipline under which the replays are complete: a script that has  *)
(* batched a status call makes no other call at another step, a batched    *)
(* status call names the current step, and no call is made outside a       *)
(* script once one has run.  The violation runs show that each part is     *)
(* needed.                                                                 *)
(***************************************************************************)
Discipline == ~MixedScripts /\ ~FutureStatusCalls /\ ~LateDirectCalls

(***************************************************************************)
(* The inductive invariant: how many snapshots there are in each mode.     *)
(***************************************************************************)
Constructing ==
  mode = "construct" =>
    /\ Len(snapshots) = report_step
    /\ sim = 0
    /\ current_report_step = 0
    /\ delayed_iteration = "Off"
    /\ load_end = N \/ (load_end = RestartStep /\ RestartStep > 0)

Simulating ==
  mode \in {"driver", "script"} =>
    /\ load_end = N
    /\ sim < Len(snapshots)
    /\ current_report_step <= sim
    /\ Iterating => Len(snapshots) = report_step
    /\ mode = "driver" /\ ~Iterating => Len(snapshots) = N

InScript ==
  mode = "script" =>
    /\ current_report_step = sim
    /\ Iterating => delayed_iteration # "On"
    /\ ~Iterating => Len(snapshots) = IF delayed_iteration = "On" THEN sim + 1 ELSE N

Shape ==
  /\ mode # "crashed"
  /\ sim <= Len(snapshots)
  /\ report_step <= load_end
  /\ Constructing
  /\ Simulating
  /\ InScript

(* An iteration at the end of the snapshots appends one.                   *)
LEMMA ProcessNextStep ==
  ASSUME NEW s, IsSeq(s), NEW kws
  PROVE  /\ Len(processStep(s, Len(s), kws)) = Len(s) + 1
         /\ \A i \in 1 .. Len(s) : processStep(s, Len(s), kws)[i] = s[i]
         /\ processStep(s, Len(s), kws)[Len(s) + 1] = processBlock(create(s, Len(s)), kws)
BY AppendFacts DEF processStep

(* There are no snapshots at first.                                        *)
LEMMA ShapeInit == Init => Shape
BY ConstantsAssumption, EmptyIsSeq
   DEF Init, Shape, Constructing, Simulating, InScript, Steps

(* An iteration appends the snapshot that the loop asks for.               *)
LEMMA ShapeIterate ==
  ASSUME TypeOK, Shape, iterateScheduleSection
  PROVE  Shape'
<1>1. IsSeq(snapshots) /\ Len(snapshots) \in Nat /\ sim \in Nat /\ report_step \in Nat
      /\ N \in Nat /\ load_end \in Nat
  BY SeqHasLen, ConstantsAssumption DEF TypeOK, IsSeq, Steps
<1>2. Len(snapshots) = report_step /\ Iterating
  BY DEF iterateScheduleSection, Shape, Constructing, Simulating
<1>3. Len(snapshots') = Len(snapshots) + 1
  BY <1>1, <1>2, ProcessNextStep DEF iterateScheduleSection
<1>4. UNCHANGED <<current_report_step, delayed_iteration, load_end, mode, sim>>
      /\ report_step' = report_step + 1
  BY DEF iterateScheduleSection
<1>5. report_step' <= load_end'
  BY <1>1, <1>2, <1>4 DEF Iterating
<1>6. Constructing' /\ Simulating'
  BY <1>1, <1>2, <1>3, <1>4 DEF Shape, Constructing, Simulating, Iterating
<1>7. InScript'
  BY <1>1, <1>2, <1>3, <1>4 DEF Shape, Simulating, InScript, Iterating
<1>8. QED
  BY <1>1, <1>3, <1>4, <1>5, <1>6, <1>7 DEF Shape

(* The operations that add keywords, from what the three callers ensure.   *)
LEMMA ShapeAddKeywords ==
  ASSUME TypeOK, Shape, NEW step \in Steps, NEW kws, NEW matches,
         NEW is_action \in BOOLEAN, NEW iterate \in BOOLEAN,
         addKeywords(step, kws, matches, is_action, iterate),
         mode \in {"driver", "script"},
         step >= sim,
         step < Len(snapshots),
         iterate \/ (mode = "script" /\ step = sim),
         mode = "script" /\ step < N - 1 /\ iterate => delayed_iteration' # "On",
         mode = "script" /\ delayed_iteration' = "On" => step = sim,
         mode = "script" /\ ~iterate => delayed_iteration' = "On"
  PROVE  Shape'
<1>1. /\ N \in Nat /\ step \in Nat /\ sim \in Nat /\ step <= N - 1
      /\ Len(snapshots) \in Nat
  BY SeqHasLen, ConstantsAssumption DEF TypeOK, IsSeq, Steps
<1>2. UNCHANGED <<current_report_step, load_end, sim>>
  BY AddKeywordsCases
<1>3. CASE mode' = "failed" /\ UNCHANGED <<snapshots, report_step>>
  BY <1>2, <1>3 DEF Shape, Constructing, Simulating, InScript
<1>4. CASE Rebuilt(step) /\ report_step' = IF iterate /\ step < N - 1 THEN step + 1 ELSE N
  <2>1. Len(snapshots') = step + 1 /\ mode' = mode
    BY <1>4 DEF Rebuilt
  <2>2. load_end = N /\ load_end' = N
    BY <1>2 DEF Shape, Simulating
  <2>3. CASE iterate /\ step < N - 1
    BY <1>1, <1>2, <1>4, <2>1, <2>2, <2>3
       DEF Shape, Constructing, Simulating, InScript, Iterating
  <2>4. CASE iterate /\ step = N - 1
    BY <1>1, <1>2, <1>4, <2>1, <2>2, <2>4
       DEF Shape, Constructing, Simulating, InScript, Iterating
  <2>5. CASE ~iterate
    BY <1>1, <1>2, <1>4, <2>1, <2>2, <2>5
       DEF Shape, Constructing, Simulating, InScript, Iterating
  <2>6. QED
    BY <1>1, <2>3, <2>4, <2>5
<1>5. QED
  BY <1>1, <1>3, <1>4, AddKeywordsCases

(* An action changes the current step only.                                *)
LEMMA ShapeApplyAction ==
  ASSUME TypeOK, Shape, NEW act, NEW m, applyAction(act, m)
  PROVE  Shape'
<1>1. /\ addKeywords(sim, snapshots[sim + 1].actions[act], m, TRUE, TRUE)
      /\ mode = "driver" /\ sim < Len(snapshots) /\ sim \in Steps
  BY DEF applyAction, PostStep, TypeOK
<1>2. sim >= sim
  BY <1>1, ConstantsAssumption DEF Steps
<1>3. QED
  BY <1>1, <1>2, ShapeAddKeywords

(* A batched status call leaves the replay to the end of the script.       *)
LEMMA ShapeStatusCall ==
  ASSUME Discipline, TypeOK, Shape, NEW w, NEW st, NEW i \in Steps,
         changeWellStatus(w, st, i)
  PROVE  Shape'
<1> DEFINE it == delayed_iteration = "Off"
<1>1. /\ addKeywords(i, <<WELOPEN(w, st)>>, {}, TRUE, it)
      /\ delayed_iteration' = IF delayed_iteration # "Off" THEN "On" ELSE "Off"
      /\ Calling(i)
      /\ i >= current_report_step
      /\ i = current_report_step \/ it
  BY DEF changeWellStatus, Discipline
<1>2. /\ N \in Nat /\ i \in Nat /\ sim \in Nat /\ i <= N - 1 /\ Len(snapshots) \in Nat
      /\ current_report_step \in Nat
  BY SeqHasLen, ConstantsAssumption DEF TypeOK, IsSeq, Steps
<1>3. ~Iterating
  BY <1>1, AddKeywordsCases
<1>4. /\ mode \in {"driver", "script"}
      /\ mode = "driver" => i >= sim /\ it
      /\ mode = "script" => sim = current_report_step
  BY <1>1 DEF Calling, Discipline, Shape, InScript
<1>5. i >= sim
  BY <1>1, <1>2, <1>4
<1>6. i < Len(snapshots)
  BY <1>1, <1>2, <1>3, <1>4 DEF Shape, Simulating, InScript
<1>7. it \/ (mode = "script" /\ i = sim)
  BY <1>1, <1>4
<1>8. /\ it => delayed_iteration' # "On"
      /\ ~it => delayed_iteration' = "On" /\ i = sim
  BY <1>1, <1>4, <1>7
<1> HIDE DEF it
<1>9. it \in BOOLEAN
  BY DEF it
<1>10. QED
  BY <1>1, <1>4, <1>5, <1>6, <1>7, <1>8, <1>9, ShapeAddKeywords

(* An insertion replays at once.                                           *)
LEMMA ShapeInsert ==
  ASSUME Discipline, TypeOK, Shape, NEW kws, NEW i \in Steps, insert_keywords(kws, i)
  PROVE  Shape'
<1>1. /\ addKeywords(i, kws, {}, FALSE, TRUE)
      /\ delayed_iteration' = IF i < N - 1 THEN "Off" ELSE delayed_iteration
      /\ Calling(i)
      /\ i >= current_report_step
      /\ i = current_report_step \/ delayed_iteration # "On"
  BY DEF insert_keywords, Discipline
<1>2. /\ N \in Nat /\ i \in Nat /\ sim \in Nat /\ i <= N - 1 /\ Len(snapshots) \in Nat
      /\ current_report_step \in Nat
  BY SeqHasLen, ConstantsAssumption DEF TypeOK, IsSeq, Steps
<1>3. ~Iterating
  BY <1>1, AddKeywordsCases
<1>4. /\ mode \in {"driver", "script"}
      /\ mode = "driver" => i >= sim
      /\ mode = "script" => sim = current_report_step
  BY <1>1 DEF Calling, Discipline, Shape, InScript
<1>5. i >= sim
  BY <1>1, <1>2, <1>4
<1>6. i < Len(snapshots)
  BY <1>1, <1>2, <1>3, <1>4 DEF Shape, Simulating, InScript
<1>7. mode = "script" /\ delayed_iteration' = "On" => i = sim
  BY <1>1, <1>4
<1>8. QED
  BY <1>1, <1>4, <1>5, <1>6, <1>7, ShapeAddKeywords

(* An action run by a script replays at once.                              *)
LEMMA ShapeCallback ==
  ASSUME Discipline, TypeOK, Shape, NEW act, NEW m, actionx_callback(act, m)
  PROVE  Shape'
<1>1. /\ addKeywords(sim, snapshots[sim + 1].actions[act],
                     m \cap DOMAIN snapshots[sim + 1].wells, TRUE, TRUE)
      /\ mode = "script" /\ sim < Len(snapshots) /\ sim \in Steps
      /\ delayed_iteration # "On" /\ delayed_iteration' = delayed_iteration
  BY DEF actionx_callback, TypeOK, Discipline
<1>2. sim >= sim
  BY <1>1, ConstantsAssumption DEF Steps
<1>3. QED
  BY <1>1, <1>2, ShapeAddKeywords

(* Every step leaves as many snapshots as its mode allows.                 *)
LEMMA ShapeNext ==
  ASSUME Discipline, TypeOK, Shape, [Next]_vars
  PROVE  Shape'
<1>0. /\ IsSeq(snapshots) /\ Len(snapshots) \in Nat /\ sim \in 0 .. N - 1 /\ report_step \in Nat
      /\ N \in Nat \ {0} /\ load_end \in 0 .. N /\ RestartStep \in 0 .. N - 1
      /\ current_report_step \in Nat
  BY SeqHasLen, ConstantsAssumption DEF TypeOK, IsSeq, Steps
<1>1. CASE iterateScheduleSection
  BY <1>1, ShapeIterate
<1>2. CASE IterationFails
  BY <1>2 DEF IterationFails, Shape, Constructing, Simulating, InScript
<1>3. CASE load_rst
  <2>1. Len(snapshots') = Len(snapshots)
    <3>1. Len(snapshots) \in 1 .. Len(snapshots)
      BY <1>0, <1>3 DEF load_rst, Shape, Constructing, Iterating
    <3>2. QED
      BY <1>0, <1>3, <3>1, ReplaceFacts DEF load_rst
  <2>2. QED
    BY <1>0, <1>3, <2>1 DEF load_rst, Shape, Constructing, Simulating, InScript, Iterating
<1>4. CASE constructed
  <2>1. Len(snapshots') = Len(snapshots)
    <3>1. RestartStep + 1 \in 1 .. Len(snapshots)
      BY <1>0, <1>4 DEF constructed, Shape, Constructing, Iterating
    <3>2. QED
      BY <1>0, <1>4, <3>1, ReplaceFacts DEF constructed
  <2>2. QED
    BY <1>0, <1>4, <2>1 DEF constructed, Shape, Constructing, Simulating, InScript, Iterating
<1>5. CASE Advance
  BY <1>0, <1>5 DEF Advance, Shape, Constructing, Simulating, InScript, Iterating
<1>6. CASE \E act \in ActionNames, m \in SUBSET Wells : applyAction(act, m)
  BY <1>6, ShapeApplyAction
<1>7. CASE runPyAction
  BY <1>0, <1>7 DEF runPyAction, PostStep, Shape, Constructing, Simulating, InScript, Iterating
<1>8. CASE pyActionDone
  BY <1>0, <1>8 DEF pyActionDone, Shape, Constructing, Simulating, InScript, Iterating
<1>9. CASE \E w \in Wells, st \in WellStatus, i \in Steps : changeWellStatus(w, st, i)
  BY <1>9, ShapeStatusCall
<1>10. CASE \E kws \in ScriptKeywords, i \in Steps : insert_keywords(kws, i)
  BY <1>10, ShapeInsert
<1>11. CASE \E act \in ActionNames, m \in SUBSET Wells : actionx_callback(act, m)
  BY <1>11, ShapeCallback
<1>12. CASE UNCHANGED vars
  BY <1>12 DEF vars, Shape, Constructing, Simulating, InScript, Iterating
<1>13. QED
  BY <1>1, <1>2, <1>3, <1>4, <1>5, <1>6, <1>7, <1>8, <1>9, <1>10, <1>11, <1>12 DEF Next

(* The shape is an invariant under the discipline.                         *)
LEMMA ShapeInvariant ==
  ASSUME Discipline
  PROVE  Spec => [](TypeOK /\ Shape)
<1>1. TypeOK /\ Shape /\ [Next]_vars => Shape'
  BY ShapeNext
<1>2. QED
  BY <1>1, ShapeInit, TypeCorrect, PTL DEF Spec

(* Under the discipline, every truncation is followed by the replay it     *)
(* needs, also when it is put off to the end of a script: the simulator    *)
(* finds a snapshot for every report step.                                 *)
THEOREM ReplaysComplete ==
  ASSUME Discipline
  PROVE  Spec => []SnapshotsComplete
<1>1. Shape => SnapshotsComplete
  BY DEF Shape, Simulating, SnapshotsComplete
<1>2. QED
  BY <1>1, ShapeInvariant, PTL

-----------------------------------------------------------------------------
(***************************************************************************)
(* Whatever calls are made: also by mixed scripts, for later report steps, *)
(* and directly on the schedule once scripts have run.  The snapshots are  *)
(* then neither complete nor aligned with the report steps, but they reach *)
(* as far as each replay begins, and no replay begins too early.           *)
(***************************************************************************)
(* The snapshots of the steps before p are there, and no replay under way  *)
(* touches them.                                                           *)
Behind(p) == p < Len(snapshots) /\ (Iterating => p < report_step)

CallsInv ==
  /\ Constructing
  /\ report_step <= load_end
  /\ current_report_step <= Len(snapshots)
  /\ current_report_step <= sim
  /\ ~LateDirectCalls => sim <= Len(snapshots)
  /\ mode \in {"driver", "script"} =>
       /\ load_end = N
       /\ mode = "script" => current_report_step = sim
       /\ Iterating => report_step <= Len(snapshots)
       /\ Behind(current_report_step)
       /\ ~LateDirectCalls => Behind(sim)
       /\ ~Iterating /\ ~Batched => N <= Len(snapshots)
       /\ ~Iterating /\ ~LateDirectCalls /\ mode = "driver" => N <= Len(snapshots)

(* The numbers among the variables.                                        *)
LEMMA Numbers ==
  ASSUME TypeOK
  PROVE  /\ IsSeq(snapshots) /\ Len(snapshots) \in Nat
         /\ N \in Nat \ {0} /\ RestartStep \in 0 .. N - 1
         /\ sim \in 0 .. N - 1 /\ current_report_step \in 0 .. N - 1
         /\ report_step \in Nat /\ load_end \in 0 .. N
BY SeqHasLen, ConstantsAssumption DEF TypeOK, IsSeq, Steps

(* An iteration anywhere in the snapshots, or at their end, makes them one *)
(* longer and leaves those before its step.                                *)
LEMMA ProcessAnyStep ==
  ASSUME NEW s, IsSeq(s), NEW step \in Nat, step <= Len(s), NEW kws
  PROVE  /\ Len(processStep(s, step, kws)) = Len(s) + 1
         /\ \A i \in 1 .. step : processStep(s, step, kws)[i] = s[i]
<1>1. Len(s) \in Nat
  BY SeqHasLen
<1>2. CASE Len(s) = step
  BY <1>2, ProcessNextStep
<1>3. CASE Len(s) # step
  <2> DEFINE old == processBlock(s[step + 1], SelectSeq(kws, AddsToStep))
             new == handleKeywords(create(s, step), SelectSeq(kws, AddsToBack), {})
             r   == [s EXCEPT ![step + 1] = old]
             x   == IF IsFailed(old) THEN FAILED ELSE new
  <2>1. processStep(s, step, kws) = Append(r, x)
    BY <1>3 DEF processStep
  <2>2. step + 1 \in 1 .. Len(s)
    BY <1>1, <1>3
  <2> HIDE DEF old, new, x
  <2>3. IsSeq(r) /\ Len(r) = Len(s) /\ \A i \in 1 .. Len(s) : i # step + 1 => r[i] = s[i]
    <3>1. PICK j \in 1 .. Len(s) : j = step + 1
      BY <2>2
    <3>2. r = [s EXCEPT ![j] = old]
      BY <3>1
    <3>3. /\ IsSeq([s EXCEPT ![j] = old])
          /\ Len([s EXCEPT ![j] = old]) = Len(s)
          /\ \A i \in 1 .. Len(s) : [s EXCEPT ![j] = old][i] = IF i = j THEN old ELSE s[i]
      BY ReplaceFacts
    <3> HIDE DEF r
    <3>4. IsSeq(r) /\ Len(r) = Len(s) /\ \A i \in 1 .. Len(s) : r[i] = IF i = j THEN old ELSE s[i]
      BY <3>2, <3>3, Zenon
    <3>5. QED
      BY <3>1, <3>4
  <2> HIDE DEF r
  <2>4. Len(Append(r, x)) = Len(s) + 1 /\ \A i \in 1 .. Len(s) : Append(r, x)[i] = r[i]
    BY <2>3, AppendFacts
  <2>5. ASSUME NEW i \in 1 .. step PROVE Append(r, x)[i] = s[i]
    <3>1. i \in 1 .. Len(s) /\ i # step + 1
      BY <1>1, <2>2
    <3>2. QED
      BY <2>3, <2>4, <3>1
  <2>6. QED
    BY <2>1, <2>4, <2>5
<1>4. QED
  BY <1>2, <1>3

(* An iteration of a replay goes on where the snapshots reach.             *)
LEMMA CallsIterate ==
  ASSUME TypeOK, CallsInv, iterateScheduleSection
  PROVE  CallsInv'
<1>1. Iterating /\ mode \in {"construct", "driver", "script"}
      /\ UNCHANGED <<current_report_step, delayed_iteration, load_end, mode, sim>>
      /\ report_step' = report_step + 1
  BY DEF iterateScheduleSection
<1>2. report_step <= Len(snapshots)
  BY <1>1, Numbers DEF CallsInv, Constructing
<1>3. Len(snapshots') = Len(snapshots) + 1
  BY <1>2, Numbers, ProcessAnyStep DEF iterateScheduleSection
<1>4. Constructing'
  BY <1>1, <1>3, Numbers DEF CallsInv, Constructing
<1>5. report_step' <= load_end'
  BY <1>1, Numbers DEF Iterating
<1>6. CASE mode = "construct"
  BY <1>1, <1>3, <1>4, <1>5, <1>6, Numbers DEF CallsInv
<1>7. CASE mode \in {"driver", "script"}
  <2>1. Behind(current_report_step)' /\ (~LateDirectCalls => Behind(sim)')
    BY <1>1, <1>3, <1>7, Numbers DEF CallsInv, Behind, Iterating
  <2>2. Iterating' => report_step' <= Len(snapshots')
    BY <1>1, <1>2, <1>3, Numbers
  <2>3. ~Iterating' => N <= Len(snapshots')
    BY <1>1, <1>2, <1>3, <1>5, <1>7, Numbers DEF CallsInv, Iterating
  <2>4. QED
    BY <1>1, <1>3, <1>4, <1>5, <1>7, <2>1, <2>2, <2>3, Numbers DEF CallsInv
<1>8. QED
  BY <1>1, <1>6, <1>7

(* New keywords: the snapshots end with the step that is replaced, and     *)
(* what is not replayed at once is marked as put off.                      *)
LEMMA CallsAddKeywords ==
  ASSUME TypeOK, CallsInv, NEW step \in Steps, NEW kws, NEW matches,
         NEW is_action \in BOOLEAN, NEW iterate \in BOOLEAN,
         addKeywords(step, kws, matches, is_action, iterate),
         mode \in {"driver", "script"},
         step >= current_report_step,
         ~LateDirectCalls => step >= sim,
         ~iterate => delayed_iteration' = "On",
         ~LateDirectCalls /\ mode = "driver" => iterate
  PROVE  CallsInv'
<1>1. step \in Nat /\ step <= N - 1
  BY ConstantsAssumption DEF Steps
<1>2. UNCHANGED <<current_report_step, load_end, sim>> /\ ~Iterating
  BY AddKeywordsCases
<1>3. CASE mode' \in {"failed", "crashed"} /\ UNCHANGED <<snapshots, report_step>>
  BY <1>2, <1>3 DEF CallsInv, Constructing
<1>4. CASE Rebuilt(step) /\ report_step' = IF iterate /\ step < N - 1 THEN step + 1 ELSE N
  <2>1. Len(snapshots') = step + 1 /\ mode' = mode
    BY <1>4 DEF Rebuilt
  <2>2. load_end = N /\ load_end' = N /\ Constructing'
    BY <1>2, <2>1 DEF CallsInv, Constructing
  <2>3. report_step' <= load_end'
    BY <1>1, <1>4, <2>2, Numbers
  <2>4. /\ Iterating' => report_step' = step + 1
        /\ iterate /\ ~Iterating' => step = N - 1
    <3>1. CASE iterate /\ step < N - 1
      BY <1>1, <1>4, <2>2, <3>1, Numbers DEF Iterating
    <3>2. CASE ~(iterate /\ step < N - 1)
      <4>1. report_step' = N
        BY <1>4, <3>2
      <4>2. ~Iterating'
        BY <2>2, <4>1, Numbers DEF Iterating
      <4>3. iterate => step = N - 1
        BY <1>1, <3>2, Numbers
      <4>4. QED
        BY <4>2, <4>3
    <3>3. QED
      BY <3>1, <3>2
  <2>5. Behind(current_report_step)' /\ (~LateDirectCalls => Behind(sim)')
    BY <1>1, <1>2, <2>1, <2>4, Numbers DEF Behind
  <2>6. ~Iterating' /\ ~Batched' => N <= Len(snapshots')
    BY <1>1, <2>1, <2>4, Numbers DEF Batched
  <2>7. ~Iterating' /\ ~LateDirectCalls /\ mode' = "driver" => N <= Len(snapshots')
    BY <1>1, <2>1, <2>4, Numbers
  <2>8. Iterating' => report_step' <= Len(snapshots')
    BY <1>1, <2>1, <2>4, Numbers
  <2>9. /\ current_report_step' <= Len(snapshots') /\ (~LateDirectCalls => sim' <= Len(snapshots'))
        /\ current_report_step' <= sim' /\ (mode' = "script" => current_report_step' = sim')
    BY <1>1, <1>2, <2>1, Numbers DEF CallsInv
  <2>10. QED
    BY <2>2, <2>3, <2>5, <2>6, <2>7, <2>8, <2>9 DEF CallsInv
<1>5. QED
  BY <1>3, <1>4, AddKeywordsCases

(* The call to change the status of a well, with or without its replay.    *)
LEMMA StatusCallReplays ==
  ASSUME NEW w, NEW st, NEW i \in Steps, changeWellStatus(w, st, i)
  PROVE  \E iterate \in BOOLEAN :
           /\ addKeywords(i, <<WELOPEN(w, st)>>, {}, TRUE, iterate)
           /\ iterate <=> delayed_iteration = "Off"
           /\ ~iterate => delayed_iteration' = "On"
<1> DEFINE it == delayed_iteration = "Off"
<1>1. addKeywords(i, <<WELOPEN(w, st)>>, {}, TRUE, it)
  BY DEF changeWellStatus
<1>2. ~it => delayed_iteration' = "On"
  BY DEF changeWellStatus
<1>3. it \in BOOLEAN /\ (it <=> delayed_iteration = "Off")
  OBVIOUS
<1> HIDE DEF it
<1>4. QED
  BY <1>1, <1>2, <1>3

(* A caller is a script, or calls at a step that is not checked.           *)
LEMMA CallerFacts ==
  ASSUME TypeOK, CallsInv, NEW step \in Steps, Calling(step), step >= current_report_step
  PROVE  /\ mode \in {"driver", "script"}
         /\ ~LateDirectCalls => step >= sim
         /\ ~LateDirectCalls /\ mode = "driver" => delayed_iteration = "Off"
BY Numbers, ConstantsAssumption DEF Calling, CallsInv, Steps

(* The invariant holds after every step.                                   *)
LEMMA CallsNext ==
  ASSUME TypeOK, CallsInv, [Next]_vars
  PROVE  CallsInv'
<1>0. mode \in {"driver", "script"} => Behind(current_report_step) /\ sim >= current_report_step
  BY Numbers DEF CallsInv
<1>1. CASE iterateScheduleSection
  BY <1>1, CallsIterate
<1>2. CASE IterationFails
  BY <1>2 DEF IterationFails, CallsInv, Constructing
<1>3. CASE load_rst
  <2>1. Len(snapshots) \in 1 .. Len(snapshots)
    BY <1>3, Numbers DEF load_rst, CallsInv, Constructing, Iterating
  <2>2. Len(snapshots') = Len(snapshots)
    BY <1>3, <2>1, Numbers, ReplaceFacts DEF load_rst
  <2>3. QED
    BY <1>3, <2>2, Numbers DEF load_rst, CallsInv, Constructing, Iterating
<1>4. CASE constructed
  <2>1. RestartStep + 1 \in 1 .. Len(snapshots) /\ Len(snapshots) = N
    BY <1>4, Numbers DEF constructed, CallsInv, Constructing, Iterating
  <2>2. Len(snapshots') = N
    BY <1>4, <2>1, Numbers, ReplaceFacts DEF constructed
  <2>3. QED
    BY <1>4, <2>1, <2>2, Numbers
       DEF constructed, CallsInv, Constructing, Behind, Batched, Iterating
<1>5. CASE Advance
  BY <1>5, Numbers DEF Advance, CallsInv, Constructing, Behind, Batched, Iterating
<1>6. CASE \E act \in ActionNames, m \in SUBSET Wells : applyAction(act, m)
  <2>1. PICK act, m : applyAction(act, m)
    BY <1>6
  <2>2. /\ addKeywords(sim, snapshots[sim + 1].actions[act], m, TRUE, TRUE)
        /\ mode = "driver" /\ sim \in Steps
    BY <2>1 DEF applyAction, PostStep, TypeOK
  <2>3. sim >= sim
    BY Numbers
  <2>4. QED
    BY <1>0, <2>2, <2>3, CallsAddKeywords
<1>7. CASE runPyAction
  BY <1>7, Numbers
     DEF runPyAction, PostStep, CallsInv, Constructing, Behind, Batched, Iterating
<1>8. CASE pyActionDone
  <2>1. /\ mode = "script" /\ mode' = "driver" /\ ~Iterating
        /\ report_step' = IF delayed_iteration = "On" /\ sim < N - 1 THEN sim + 1 ELSE N
        /\ UNCHANGED <<snapshots, current_report_step, delayed_iteration, load_end, sim>>
    BY <1>8 DEF pyActionDone
  <2>2. sim < Len(snapshots) /\ load_end = N /\ current_report_step = sim
    BY <2>1 DEF CallsInv, Behind
  <2>3. Iterating' => report_step' = sim + 1
    BY <2>1, <2>2, Numbers DEF Iterating
  <2>4. ~Iterating' /\ ~Batched => N <= Len(snapshots)
    BY <2>1 DEF CallsInv
  <2>5. ~Iterating' /\ Batched /\ ~LateDirectCalls => N <= Len(snapshots)
    BY <2>1, <2>2, Numbers DEF Batched, Iterating
  <2>6. Constructing' /\ report_step' <= load_end' /\ (Batched <=> Batched')
    BY <2>1, <2>2, Numbers DEF Constructing, Batched
  <2>7. Behind(current_report_step)' /\ Behind(sim)' /\ (Iterating' => report_step' <= Len(snapshots'))
    BY <2>1, <2>2, <2>3, Numbers DEF Behind
  <2>8. QED
    BY <2>1, <2>2, <2>4, <2>5, <2>6, <2>7, Numbers DEF CallsInv
<1>9. CASE \E w \in Wells, st \in WellStatus, i \in Steps : changeWellStatus(w, st, i)
  <2>1. PICK w \in Wells, st \in WellStatus, i \in Steps : changeWellStatus(w, st, i)
    BY <1>9
  <2>2. Calling(i) /\ i >= current_report_step
    BY <2>1 DEF changeWellStatus
  <2>3. QED
    BY <2>1, <2>2, StatusCallReplays, CallerFacts, CallsAddKeywords
<1>10. CASE \E kws \in ScriptKeywords, i \in Steps : insert_keywords(kws, i)
  <2>1. PICK kws \in ScriptKeywords, i \in Steps : insert_keywords(kws, i)
    BY <1>10
  <2>2. Calling(i) /\ i >= current_report_step /\ addKeywords(i, kws, {}, FALSE, TRUE)
    BY <2>1 DEF insert_keywords
  <2>3. QED
    BY <2>2, CallerFacts, CallsAddKeywords
<1>11. CASE \E act \in ActionNames, m \in SUBSET Wells : actionx_callback(act, m)
  <2>1. PICK act, m : actionx_callback(act, m)
    BY <1>11
  <2>2. /\ addKeywords(sim, snapshots[sim + 1].actions[act],
                       m \cap DOMAIN snapshots[sim + 1].wells, TRUE, TRUE)
        /\ mode = "script" /\ sim \in Steps
    BY <2>1 DEF actionx_callback, TypeOK
  <2>3. sim >= sim
    BY Numbers
  <2>4. QED
    BY <1>0, <2>2, <2>3, CallsAddKeywords
<1>12. CASE UNCHANGED vars
  BY <1>12 DEF vars, CallsInv, Constructing, Behind, Batched, Iterating
<1>13. QED
  BY <1>1, <1>2, <1>3, <1>4, <1>5, <1>6, <1>7, <1>8, <1>9, <1>10, <1>11, <1>12 DEF Next

(* The invariant holds for every sequence of calls.                        *)
LEMMA CallsInvariant == Spec => [](TypeOK /\ CallsInv)
<1>1. Init => CallsInv
  BY ConstantsAssumption, EmptyIsSeq DEF Init, CallsInv, Constructing, Steps
<1>2. TypeOK /\ CallsInv /\ [Next]_vars => CallsInv'
  BY CallsNext
<1>3. QED
  BY <1>1, <1>2, TypeCorrect, PTL DEF Spec

(* For every deck and every sequence of calls: vector::resize makes a      *)
(* default constructed ScheduleState only in a call that follows a batched *)
(* one, whose replay is still due.                                         *)
THEOREM BlankStatesNeedBatches == Spec => BlankNeedsBatch
<1>1. TypeOK /\ CallsInv /\ [Next]_vars
      => [mode # "crashed" /\ mode' = "crashed" => Batched]_vars
  <2> SUFFICES ASSUME TypeOK, CallsInv, Next, mode # "crashed", mode' = "crashed", ~Batched
               PROVE  FALSE
    OBVIOUS
  <2>1. ASSUME NEW step \in Steps, NEW kws, NEW matches,
               NEW is_action \in BOOLEAN, NEW iterate \in BOOLEAN,
               addKeywords(step, kws, matches, is_action, iterate),
               mode \in {"driver", "script"}
        PROVE  FALSE
    <3>1. ~Iterating /\ (step >= Len(snapshots) \/ mode' \in {"failed", mode})
      BY <2>1, AddKeywordsCases DEF Rebuilt
    <3>2. N <= Len(snapshots)
      BY <2>1, <3>1 DEF CallsInv
    <3>3. QED
      BY <3>1, <3>2, Numbers, ConstantsAssumption DEF Steps
  <2>2. CASE \E act \in ActionNames, m \in SUBSET Wells : applyAction(act, m)
    BY <2>1, <2>2 DEF applyAction, PostStep, TypeOK
  <2>3. CASE \E w \in Wells, st \in WellStatus, i \in Steps : changeWellStatus(w, st, i)
    <3>1. PICK w \in Wells, st \in WellStatus, i \in Steps : changeWellStatus(w, st, i)
      BY <2>3
    <3>2. mode \in {"driver", "script"}
      BY <3>1 DEF changeWellStatus, Calling
    <3>3. QED
      BY <2>1, <3>1, <3>2, StatusCallReplays
  <2>4. CASE \E kws \in ScriptKeywords, i \in Steps : insert_keywords(kws, i)
    BY <2>1, <2>4 DEF insert_keywords, Calling
  <2>5. CASE \E act \in ActionNames, m \in SUBSET Wells : actionx_callback(act, m)
    BY <2>1, <2>5 DEF actionx_callback, TypeOK
  <2>6. mode' \in {"failed", "driver", "script", mode}
        \/ (\E act \in ActionNames, m \in SUBSET Wells : applyAction(act, m))
        \/ (\E w \in Wells, st \in WellStatus, i \in Steps : changeWellStatus(w, st, i))
        \/ (\E kws \in ScriptKeywords, i \in Steps : insert_keywords(kws, i))
        \/ (\E act \in ActionNames, m \in SUBSET Wells : actionx_callback(act, m))
    BY DEF Next, iterateScheduleSection, IterationFails, load_rst, constructed, Advance,
           runPyAction, pyActionDone
  <2>7. QED
    BY <2>2, <2>3, <2>4, <2>5, <2>6
<1>2. QED
  BY <1>1, CallsInvariant, PTL DEF Spec, BlankNeedsBatch

KeepsPast(p) == /\ p <= Len(snapshots')
                /\ \A i \in 1 .. p : snapshots'[i] = snapshots[i]

(* New keywords leave the snapshots before their step.                     *)
LEMMA AddKeywordsKeepsPast ==
  ASSUME TypeOK, NEW p \in Nat, p <= Len(snapshots), NEW step \in Steps, NEW kws, NEW matches,
         NEW is_action \in BOOLEAN, NEW iterate \in BOOLEAN,
         addKeywords(step, kws, matches, is_action, iterate),
         step >= p
  PROVE  KeepsPast(p)
<1>1. step \in Nat
  BY ConstantsAssumption DEF Steps
<1>2. CASE Rebuilt(step)
  BY <1>1, <1>2 DEF Rebuilt, KeepsPast
<1>3. CASE UNCHANGED snapshots
  BY <1>1, <1>3 DEF KeepsPast
<1>4. QED
  BY <1>2, <1>3, AddKeywordsCases

(* No step of the run touches what lies before p, if no caller does.       *)
LEMMA NextKeepsPast ==
  ASSUME TypeOK, CallsInv, Next, NEW p \in Nat, p > 0 => mode # "construct",
         p <= Len(snapshots), p <= sim,
         mode \in {"driver", "script"} => Behind(p),
         \A i \in Steps : Calling(i) /\ i >= current_report_step => i >= p
  PROVE  KeepsPast(p)
<1>0. IsSeq(snapshots) /\ Len(snapshots) \in Nat /\ sim \in Steps
  BY Numbers DEF TypeOK
<1>1. CASE iterateScheduleSection
  <2>1. Iterating /\ mode \in {"construct", "driver", "script"} /\ report_step \in Nat
        /\ snapshots' = processStep(snapshots, report_step, m_sched_deck[report_step])
    BY <1>1, Numbers DEF iterateScheduleSection
  <2>2. report_step <= Len(snapshots) /\ p <= report_step
    BY <2>1, Numbers DEF CallsInv, Constructing, Behind
  <2>3. /\ Len(snapshots') = Len(snapshots) + 1
        /\ \A i \in 1 .. report_step : snapshots'[i] = snapshots[i]
    BY <1>0, <2>1, <2>2, ProcessAnyStep
  <2>4. QED
    BY <1>0, <2>1, <2>2, <2>3 DEF KeepsPast
<1>2. CASE UNCHANGED snapshots
  BY <1>0, <1>2 DEF KeepsPast
<1>3. CASE load_rst \/ constructed
  <2>1. p = 0
    BY <1>3 DEF load_rst, constructed
  <2>2. IsSeq(snapshots')
    <3>1. CASE load_rst
      BY <1>0, <3>1, ReplaceIsSeq DEF load_rst
    <3>2. CASE constructed
      BY <1>0, <3>2, ReplaceIsSeq DEF constructed
    <3>3. QED
      BY <1>3, <3>1, <3>2
  <2>3. QED
    BY <2>1, <2>2, SeqHasLen DEF KeepsPast
<1>4. CASE \E act \in ActionNames, m \in SUBSET Wells : applyAction(act, m)
  BY <1>0, <1>4, AddKeywordsKeepsPast DEF applyAction
<1>5. CASE \E act \in ActionNames, m \in SUBSET Wells : actionx_callback(act, m)
  BY <1>0, <1>5, AddKeywordsKeepsPast DEF actionx_callback
<1>6. CASE \E kws \in ScriptKeywords, i \in Steps : insert_keywords(kws, i)
  BY <1>0, <1>6, AddKeywordsKeepsPast DEF insert_keywords
<1>7. CASE \E w \in Wells, st \in WellStatus, i \in Steps : changeWellStatus(w, st, i)
  <2>1. PICK w \in Wells, st \in WellStatus, i \in Steps : changeWellStatus(w, st, i)
    BY <1>7
  <2>2. i >= p
    BY <2>1 DEF changeWellStatus
  <2>3. QED
    BY <1>0, <2>1, <2>2, StatusCallReplays, AddKeywordsKeepsPast
<1>8. QED
  BY <1>1, <1>2, <1>3, <1>4, <1>5, <1>6, <1>7
     DEF Next, IterationFails, Advance, runPyAction, pyActionDone

(* For every deck and every sequence of calls: no operation and no replay  *)
(* touches a report step before the one at which a PYACTION was last run.  *)
THEOREM RefusedStepsStayFixed == Spec => RefusedStepsFixed
<1> DEFINE Fixed == \A i \in 1 .. current_report_step : /\ i \in DOMAIN snapshots'
                                                        /\ snapshots'[i] = snapshots[i]
<1>1. TypeOK /\ TypeOK' /\ CallsInv /\ [Next]_vars => [Fixed]_vars
  <2> SUFFICES ASSUME TypeOK, TypeOK', CallsInv, Next
               PROVE  Fixed
    BY DEF vars
  <2>1. IsSeq(snapshots') /\ current_report_step \in Nat
    BY Numbers DEF TypeOK, IsSeq
  <2>2. Len(snapshots') \in Nat /\ DOMAIN snapshots' = 1 .. Len(snapshots')
    BY <2>1, SeqHasLen
  <2>3. /\ current_report_step <= Len(snapshots) /\ current_report_step <= sim
        /\ current_report_step > 0 => mode # "construct"
        /\ mode \in {"driver", "script"} => Behind(current_report_step)
    BY <2>1 DEF CallsInv, Constructing
  <2>4. KeepsPast(current_report_step)
    BY <2>1, <2>3, NextKeepsPast
  <2>5. QED
    BY <2>1, <2>2, <2>4 DEF KeepsPast
<1>2. QED
  BY <1>1, CallsInvariant, TypeCorrect, PTL DEF Spec, RefusedStepsFixed

(* Where no call is made from outside a script once the run is under way,  *)
(* no replay rewrites a report step that the simulator has left behind.    *)
THEOREM PastStaysFixed ==
  ASSUME ~LateDirectCalls
  PROVE  Spec => HistoryFixed
<1> DEFINE Fixed == sim > 0 => \A i \in 1 .. sim : /\ i \in DOMAIN snapshots'
                                                   /\ snapshots'[i] = snapshots[i]
<1>1. TypeOK /\ TypeOK' /\ CallsInv /\ [Next]_vars => [Fixed]_vars
  <2> SUFFICES ASSUME TypeOK, TypeOK', CallsInv, Next
               PROVE  Fixed
    BY DEF vars
  <2>1. IsSeq(snapshots') /\ sim \in Nat
    BY Numbers DEF TypeOK, IsSeq
  <2>2. Len(snapshots') \in Nat /\ DOMAIN snapshots' = 1 .. Len(snapshots')
    BY <2>1, SeqHasLen
  <2>3. /\ sim <= Len(snapshots) /\ sim <= sim
        /\ sim > 0 => mode # "construct"
        /\ mode \in {"driver", "script"} => Behind(sim)
    BY <2>1 DEF CallsInv, Constructing
  <2>4. \A i \in Steps : Calling(i) /\ i >= current_report_step => i >= sim
    BY CallerFacts
  <2>5. KeepsPast(sim)
    BY <2>1, <2>3, <2>4, NextKeepsPast
  <2>6. QED
    BY <2>1, <2>2, <2>5 DEF KeepsPast
<1>2. QED
  BY <1>1, CallsInvariant, TypeCorrect, PTL DEF Spec, HistoryFixed

-----------------------------------------------------------------------------
(***************************************************************************)
(* Nothing is forgotten.  The keywords must have been kept, which the      *)
(* constructor sees to when it is asked to or when the deck has an action. *)
(***************************************************************************)
KeywordsAreKept ==
  KeepKeywords \/ \A d \in Decks : \E i \in Steps : \E k \in DOMAIN d[i] :
                                     d[i][k].name \in {"ACTIONX", "PYACTION"}

(* The schedule still holds every keyword it was given.                    *)
NothingDropped ==
  /\ m_sched_deck = input
  /\ mode = "construct" => input \in Decks

(* The constructor keeps the keywords of its deck.                         *)
LEMMA KeptWhileConstructing ==
  ASSUME KeywordsAreKept, NothingDropped, mode = "construct"
  PROVE  keepKeywords
BY DEF KeywordsAreKept, NothingDropped, keepKeywords, HasKeyword

(* New keywords are recorded where they are handled.                       *)
LEMMA AddKeywordsDropsNothing ==
  ASSUME TypeOK, Shape, NothingDropped, mode # "construct",
         NEW step \in Steps, NEW kws, NEW matches,
         NEW is_action \in BOOLEAN, NEW iterate \in BOOLEAN,
         addKeywords(step, kws, matches, is_action, iterate)
  PROVE  NothingDropped'
BY AddKeywordsCases DEF NothingDropped, Rebuilt

(* No step loses a keyword.                                                *)
LEMMA NextDropsNothing ==
  ASSUME Discipline, KeywordsAreKept, TypeOK, Shape, NothingDropped, [Next]_vars
  PROVE  NothingDropped'
<1>1. CASE iterateScheduleSection
  BY <1>1, KeptWhileConstructing DEF iterateScheduleSection, NothingDropped
<1>2. CASE UNCHANGED <<m_sched_deck, input>> /\ (mode' = mode \/ mode' # "construct")
  BY <1>2 DEF NothingDropped
<1>3. CASE \E act \in ActionNames, m \in SUBSET Wells : applyAction(act, m)
  BY <1>3, AddKeywordsDropsNothing DEF applyAction, PostStep, TypeOK
<1>4. CASE \E act \in ActionNames, m \in SUBSET Wells : actionx_callback(act, m)
  BY <1>4, AddKeywordsDropsNothing DEF actionx_callback, TypeOK
<1>5. CASE \E kws \in ScriptKeywords, i \in Steps : insert_keywords(kws, i)
  BY <1>5, AddKeywordsDropsNothing DEF insert_keywords, Calling
<1>6. CASE \E w \in Wells, st \in WellStatus, i \in Steps : changeWellStatus(w, st, i)
  <2>1. PICK w \in Wells, st \in WellStatus, i \in Steps : changeWellStatus(w, st, i)
    BY <1>6
  <2> DEFINE it == delayed_iteration = "Off"
  <2>2. addKeywords(i, <<WELOPEN(w, st)>>, {}, TRUE, it) /\ mode # "construct"
    BY <2>1 DEF changeWellStatus, Calling
  <2>3. it \in BOOLEAN
    OBVIOUS
  <2> HIDE DEF it
  <2>4. QED
    BY <2>2, <2>3, AddKeywordsDropsNothing
<1>7. QED
  BY <1>1, <1>2, <1>3, <1>4, <1>5, <1>6
     DEF Next, IterationFails, load_rst, constructed, Advance, runPyAction, pyActionDone, vars

(* What a snapshot must be when its step was not edited.                   *)
Expected(snaps, keywords, i) ==
  processBlock(IF i = 1 THEN create_first ELSE create_next(snaps[i - 1], i - 1), keywords[i - 1])

(* A new snapshot starts from the last one.                                *)
LEMMA CreateFromPrevious ==
  ASSUME NEW s, IsSeq(s)
  PROVE  create(s, Len(s)) = IF Len(s) = 0 THEN create_first ELSE create_next(s[Len(s)], Len(s))
<1>1. s = << >> <=> Len(s) = 0
  BY EmptySeq DEF IsSeq
<1>2. QED
  BY <1>1 DEF create, Last

(* An iteration appends what is expected.                                  *)
LEMMA CoherentIterate ==
  ASSUME TypeOK, Shape, NothingDropped, Coherent, iterateScheduleSection
  PROVE  Coherent'
<1>1. /\ IsSeq(snapshots) /\ Len(snapshots) \in Nat /\ Len(snapshots) = report_step
      /\ DOMAIN snapshots = 1 .. Len(snapshots)
  BY SeqHasLen DEF TypeOK, IsSeq, iterateScheduleSection, Shape, Constructing, Simulating
<1>2. snapshots' = processStep(snapshots, report_step, input[report_step])
      /\ UNCHANGED <<input, edited>>
  BY DEF iterateScheduleSection, NothingDropped
<1>3. IsSeq(snapshots')
  BY <1>1, <1>2, ProcessStepIsSeq
<1>4. DOMAIN snapshots' = 1 .. Len(snapshots) + 1
  BY <1>1, <1>2, <1>3, SeqHasLen, ProcessNextStep
<1>5. ASSUME NEW i \in DOMAIN snapshots', i - 1 \notin edited'
      PROVE  snapshots'[i] = Expected(snapshots', input', i)
  <2>1. \A j \in 1 .. Len(snapshots) : snapshots'[j] = snapshots[j]
    BY <1>1, <1>2, ProcessNextStep
  <2>2. CASE i \in 1 .. Len(snapshots)
    <3>1. snapshots[i] = Expected(snapshots, input, i)
      BY <1>1, <1>2, <1>5, <2>2 DEF Coherent, Expected
    <3>2. i # 1 => snapshots'[i - 1] = snapshots[i - 1]
      BY <1>1, <2>1, <2>2
    <3>3. QED
      BY <1>2, <2>1, <2>2, <3>1, <3>2 DEF Expected
  <2>3. CASE i = Len(snapshots) + 1
    <3>1. snapshots'[i] = processBlock(create(snapshots, Len(snapshots)), input[Len(snapshots)])
      BY <1>1, <1>2, <2>3, ProcessNextStep
    <3>2. i # 1 => snapshots'[i - 1] = snapshots[i - 1]
      BY <1>1, <2>1, <2>3
    <3>3. i - 1 = Len(snapshots) /\ (i = 1 <=> Len(snapshots) = 0)
      BY <1>1, <2>3
    <3>4. QED
      BY <1>1, <1>2, <3>1, <3>2, <3>3, CreateFromPrevious DEF Expected
  <2>4. QED
    BY <1>1, <1>4, <2>2, <2>3
<1>6. QED
  BY <1>5 DEF Coherent, Expected

(* An operation edits its own step and keeps the earlier ones.             *)
LEMMA CoherentAddKeywords ==
  ASSUME TypeOK, Coherent, NEW step \in Steps, NEW kws, NEW matches,
         NEW is_action \in BOOLEAN, NEW iterate \in BOOLEAN,
         addKeywords(step, kws, matches, is_action, iterate)
  PROVE  Coherent'
<1>1. /\ IsSeq(snapshots) /\ Len(snapshots) \in Nat
      /\ DOMAIN snapshots = 1 .. Len(snapshots)
      /\ step \in Nat
  BY SeqHasLen, ConstantsAssumption DEF TypeOK, IsSeq, Steps
<1>2. CASE UNCHANGED <<snapshots, input, edited>>
  BY <1>2 DEF Coherent
<1>3. CASE Rebuilt(step)
  <2>1. /\ DOMAIN snapshots' = 1 .. step + 1
        /\ step < Len(snapshots)
        /\ \A j \in 1 .. step : snapshots'[j] = snapshots[j]
        /\ \A j \in Steps \ {step} : input'[j] = input[j]
        /\ edited' = {j \in edited : j < step} \cup {step}
    BY <1>3, SeqHasLen DEF Rebuilt
  <2>2. ASSUME NEW i \in DOMAIN snapshots', i - 1 \notin edited'
        PROVE  snapshots'[i] = Expected(snapshots', input', i)
    <3>1. i \in 1 .. step /\ i - 1 \in Steps \ {step}
      BY <1>1, <2>1, <2>2, ConstantsAssumption DEF Steps
    <3>2. i - 1 \notin edited /\ i \in DOMAIN snapshots
      BY <1>1, <2>1, <2>2, <3>1
    <3>3. snapshots[i] = Expected(snapshots, input, i)
      BY <3>2 DEF Coherent, Expected
    <3>4. i # 1 => snapshots'[i - 1] = snapshots[i - 1]
      BY <1>1, <2>1, <3>1
    <3>5. QED
      BY <2>1, <3>1, <3>3, <3>4 DEF Expected
  <2>3. QED
    BY <2>2 DEF Coherent, Expected
<1>4. QED
  BY <1>2, <1>3, AddKeywordsCases

-----------------------------------------------------------------------------
(***************************************************************************)
(* What the keywords do to a snapshot.                                     *)
(***************************************************************************)
IsSnapshot(s) == DOMAIN s = DOMAIN create_first

(* An action holds keywords that actions may hold. *)
BodiesLegal(s) == \A a \in DOMAIN s.actions : Listed(s.actions[a], actionx_allowed_list)

(* The place of a report step in time is given before its keywords. *)
SameDate(s, t) == /\ t.sim_step = s.sim_step /\ t.month = s.month
                  /\ t.first_in_month = s.first_in_month /\ t.first_in_year = s.first_in_year

(* A snapshot has all the wells, at the same date. *)
Continues(s, t) == /\ IsSnapshot(t)
                   /\ DOMAIN s.wells \subseteq DOMAIN t.wells
                   /\ SameDate(s, t)
                   /\ BodiesLegal(s) => BodiesLegal(t)

(* Wells and events may be different, nothing else. *)
Quiet(s, t) == /\ IsSnapshot(t)
               /\ DOMAIN s.wells \subseteq DOMAIN t.wells
               /\ SameDate(s, t)
               /\ t.actions = s.actions /\ t.rst_config = s.rst_config

(* The members of a snapshot.                                              *)
LEMMA SnapshotFields ==
  DOMAIN create_first = {"sim_step", "month", "first_in_month", "first_in_year", "wells", "events",
                         "wellgroup_events", "next_tstep", "actions", "pyaction", "rst_config", "save"}
  BY DEF create_first

(* Quiet changes add up.                                                   *)
LEMMA QuietTrans ==
  ASSUME NEW s, NEW t, NEW u, Quiet(s, t), Quiet(t, u)
  PROVE  Quiet(s, u)
  BY DEF Quiet, SameDate

(* Setting the status of wells is quiet.                                   *)
LEMMA StatusQuiet ==
  ASSUME NEW s, IsSnapshot(s), NEW names, NEW status
  PROVE  Quiet(s, updateWellStatus(s, names, status))
  BY SnapshotFields DEF Quiet, SameDate, IsSnapshot, updateWellStatus

(* Raising the events of a status is quiet.                                *)
LEMMA EventsQuiet ==
  ASSUME NEW s, IsSnapshot(s), NEW names
  PROVE  Quiet(s, updateOpenShutEvents(s, names))
  BY SnapshotFields DEF Quiet, SameDate, IsSnapshot, updateOpenShutEvents

(* Setting connections is quiet.                                           *)
LEMMA ConnectionsQuiet ==
  ASSUME NEW s, IsSnapshot(s), NEW names, NEW state
  PROVE  Quiet(s, setConnections(s, names, state))
  BY SnapshotFields DEF Quiet, SameDate, IsSnapshot, setConnections

(* WELSPECS adds a well and its events.                                    *)
LEMMA WELSPECSQuiet ==
  ASSUME NEW s, IsSnapshot(s), NEW w
  PROVE  Quiet(s, handleWELSPECS(s, w))
  BY SnapshotFields DEF Quiet, SameDate, IsSnapshot, handleWELSPECS

(* WELOPEN sets a status and raises events.                                *)
LEMMA WELOPENQuiet ==
  ASSUME NEW s, IsSnapshot(s), NEW names, NEW status
  PROVE  Quiet(s, handleWELOPEN(s, names, status))
<1>1. Quiet(s, updateWellStatus(s, names, status))
  BY StatusQuiet
<1>2. IsSnapshot(updateWellStatus(s, names, status))
  BY <1>1 DEF Quiet
<1> QED
  BY <1>1, <1>2, EventsQuiet, QuietTrans DEF handleWELOPEN

(* COMPDAT changes connections and events.                                 *)
LEMMA COMPDATQuiet ==
  ASSUME NEW s, IsSnapshot(s), NEW names, NEW state
  PROVE  Quiet(s, handleCOMPDAT(s, names, state))
<1> DEFINE changed == {w \in names : s.wells[w].conn # state}
           new == setConnections(s, changed, state)
           end == [new EXCEPT !.wellgroup_events = @ \cup {<<w, "COMPLETION_CHANGE">> : w \in changed}]
<1>1. Quiet(s, new)
  BY ConnectionsQuiet
<1>2. Quiet(new, end)
  <2> HIDE DEF new, changed
  <2> QED
    BY <1>1, SnapshotFields DEF Quiet, SameDate, IsSnapshot
<1>3. handleCOMPDAT(s, names, state) = end
  BY DEF handleCOMPDAT
<1> QED
  BY <1>1, <1>2, <1>3, QuietTrans

(* WELOPEN of connections changes these and events.                        *)
LEMMA WELOPENConnQuiet ==
  ASSUME NEW s, IsSnapshot(s), NEW names, NEW state
  PROVE  Quiet(s, handleWELOPENConn(s, names, state))
<1> DEFINE connected == {w \in names : s.wells[w].conn # NONE}
           new == setConnections(s, connected, state)
           end == [new EXCEPT !.events = @ \cup {"COMPLETION_CHANGE"}]
<1>1. Quiet(s, new)
  BY ConnectionsQuiet
<1>2. Quiet(new, end)
  <2> HIDE DEF new, connected
  <2> QED
    BY <1>1, SnapshotFields DEF Quiet, SameDate, IsSnapshot
<1>3. handleWELOPENConn(s, names, state) = IF names = {} THEN s ELSE end
  BY DEF handleWELOPENConn
<1>4. Quiet(s, s)
  BY DEF Quiet, SameDate
<1> QED
  BY <1>1, <1>2, <1>3, <1>4, QuietTrans

(* The restart output that a keyword configures. *)
Configured(c, kw) == IF kw.name = "RPTRST" THEN update_schedule(c, kw.basic, kw.freq) ELSE c

BlockNames == actionx_allowed_list \cup {"RPTRST", "SAVE", "PYACTION", "ACTIONX"}

(* A keyword leaves every well, the date, and the restart output unless it *)
(* configures it.                                                          *)
LEMMA KeywordContinues ==
  ASSUME NEW s, IsSnapshot(s), NEW kw, kw.name \in BlockNames,
         kw.name = "ACTIONX" => Listed(kw.body, actionx_allowed_list), NEW matches
  PROVE  /\ Continues(s, handleKeyword(s, kw, matches))
         /\ handleKeyword(s, kw, matches).rst_config = Configured(s.rst_config, kw)
<1> DEFINE t == handleKeyword(s, kw, matches)
<1>0. ASSUME Quiet(s, t), kw.name # "RPTRST"
      PROVE  Continues(s, t) /\ t.rst_config = Configured(s.rst_config, kw)
  <2> HIDE DEF t
  <2> QED
    BY <1>0 DEF Quiet, Continues, Configured, BodiesLegal
<1>1. CASE kw.name = "WELSPECS"
  <2>1. t = handleWELSPECS(s, kw.well)
    BY <1>1 DEF handleKeyword
  <2> QED
    BY <1>0, <1>1, <2>1, WELSPECSQuiet
<1>2. CASE kw.name = "COMPDAT"
  <2>1. t = handleCOMPDAT(s, wellNames(kw, matches), kw.state)
    BY <1>2 DEF handleKeyword
  <2> QED
    BY <1>0, <1>2, <2>1, COMPDATQuiet
<1>3. CASE kw.name = "WELOPEN"
  <2>1. t = handleWELOPEN(s, wellNames(kw, matches), kw.status)
    BY <1>3 DEF handleKeyword
  <2> QED
    BY <1>0, <1>3, <2>1, WELOPENQuiet
<1>4. CASE kw.name = "WELOPENConn"
  <2>1. t = handleWELOPENConn(s, wellNames(kw, matches), kw.state)
    BY <1>4 DEF handleKeyword
  <2> QED
    BY <1>0, <1>4, <2>1, WELOPENConnQuiet
<1>5. CASE kw.name = "NEXTSTEP"
  <2>1. t = handleNEXTSTEP(s, kw.apply_to_all)
    BY <1>5 DEF handleKeyword
  <2>2. Quiet(s, handleNEXTSTEP(s, kw.apply_to_all))
    BY SnapshotFields DEF Quiet, SameDate, IsSnapshot, handleNEXTSTEP
  <2> QED
    BY <1>0, <1>5, <2>1, <2>2
<1>6. CASE kw.name = "RPTRST"
  <2>1. t = [s EXCEPT !.rst_config = update_schedule(@, kw.basic, kw.freq)]
    BY <1>6 DEF handleKeyword
  <2> DEFINE u == [s EXCEPT !.rst_config = update_schedule(@, kw.basic, kw.freq)]
  <2>2. Continues(s, u) /\ u.rst_config = Configured(s.rst_config, kw)
    BY <1>6, SnapshotFields DEF Continues, SameDate, IsSnapshot, BodiesLegal, Configured
  <2> QED
    BY <2>1, <2>2
<1>7. CASE kw.name = "SAVE"
  <2>1. t = [s EXCEPT !.save = TRUE]
    BY <1>7 DEF handleKeyword
  <2>2. Quiet(s, [s EXCEPT !.save = TRUE])
    BY SnapshotFields DEF Quiet, SameDate, IsSnapshot
  <2> QED
    BY <1>0, <1>7, <2>1, <2>2
<1>8. CASE kw.name = "ACTIONX"
  <2>1. t = addACTIONX(s, kw.action, kw.body)
    BY <1>8 DEF handleKeyword
  <2>2. BodiesLegal(s) => BodiesLegal(addACTIONX(s, kw.action, kw.body))
    BY <1>8, SnapshotFields DEF BodiesLegal, addACTIONX, IsSnapshot
  <2>3. addACTIONX(s, kw.action, kw.body).rst_config = s.rst_config
    BY SnapshotFields DEF addACTIONX, IsSnapshot
  <2>4. Continues(s, addACTIONX(s, kw.action, kw.body))
    BY <2>2, SnapshotFields DEF Continues, SameDate, IsSnapshot, addACTIONX
  <2> QED
    BY <1>8, <2>1, <2>3, <2>4 DEF Configured
<1>9. CASE kw.name = "PYACTION"
  <2>1. t = [s EXCEPT !.pyaction = TRUE]
    BY <1>9 DEF handleKeyword
  <2>2. Quiet(s, [s EXCEPT !.pyaction = TRUE])
    BY SnapshotFields DEF Quiet, SameDate, IsSnapshot
  <2> QED
    BY <1>0, <1>9, <2>1, <2>2
<1>10. CASE kw.name = "EXIT"
  <2>1. t = s
    BY <1>10 DEF handleKeyword
  <2>2. Quiet(s, s)
    BY DEF Quiet, SameDate
  <2> QED
    BY <1>0, <1>10, <2>1, <2>2
<1> QED
  BY <1>1, <1>2, <1>3, <1>4, <1>5, <1>6, <1>7, <1>8, <1>9, <1>10
     DEF BlockNames, actionx_allowed_list, pyaction_allowed_list

(* A snapshot that continues another continues what that one did.          *)
LEMMA ContinuesTrans ==
  ASSUME NEW s, NEW t, NEW u, Continues(s, t), Continues(t, u)
  PROVE  Continues(s, u)
  BY DEF Continues, SameDate

(* A quiet change continues a snapshot.                                    *)
LEMMA QuietContinues ==
  ASSUME NEW s, NEW t, Quiet(s, t)
  PROVE  Continues(s, t) /\ t.rst_config = s.rst_config
  BY DEF Continues, Quiet, BodiesLegal

(* The mark of a failure is no snapshot.                                   *)
LEMMA SnapshotNotFailed == ASSUME NEW s, IsSnapshot(s) PROVE ~IsFailed(s)
  BY SnapshotFields DEF IsSnapshot, IsFailed

(* A list of keywords, and the restart output it configures. *)
HandleOp(p, t, kw) == IF IsFailed(t) \/ NameError(t, kw) THEN FAILED ELSE handleKeyword(t, kw, p.matches)

HandleInv(p, k, t) == IsFailed(t) \/ (Continues(p.state, t) /\ t.rst_config = p.configs[k])

Handling == INSTANCE Recursion WITH Op <- HandleOp, Inv <- HandleInv

ConfigOp(p, c, kw) == Configured(c, kw)

ConfigInv(p, k, c) == /\ k <= Len(p.kws) => c = p.configs[k]
                      /\ k >= Len(p.kws) => c = p.configs[Len(p.kws)]

Configuring == INSTANCE Recursion WITH Op <- ConfigOp, Inv <- ConfigInv

After(c, kws) == Configuring!Fold(<< >>, c, kws)

(* A list of keywords that does not fail continues the snapshot.           *)
LEMMA HandledContinues ==
  ASSUME NEW s, IsSnapshot(s), NEW kws, LegalBlock(kws), NEW matches,
         ~IsFailed(handleKeywords(s, kws, matches))
  PROVE  /\ Continues(s, handleKeywords(s, kws, matches))
         /\ handleKeywords(s, kws, matches).rst_config = After(s.rst_config, kws)
<1> DEFINE S == Range(kws)
<1>1. kws \in Seq(S) /\ Len(kws) \in Nat
      /\ \A k \in 1 .. Len(kws) : /\ kws[k].name \in BlockNames
                                  /\ kws[k].name = "ACTIONX" => Listed(kws[k].body, actionx_allowed_list)
  <2>1. kws \in Seq(S)
    BY DEF LegalBlock, Listed
  <2>2. \A k \in 1 .. Len(kws) : kws[k] \in S
    BY <2>1, ElementOfSeq
  <2> QED
    BY <2>1, <2>2, LenProperties DEF LegalBlock, Listed, BlockNames
<1> HIDE DEF S
<1>2. PICK F : Configuring!Values(<< >>, s.rst_config, kws, F)
  BY ONLY <1>1, Configuring!FoldHasValues
<1>3. /\ F = [k \in 0 .. Len(kws) |-> IF k = 0 THEN s.rst_config ELSE ConfigOp(<< >>, F[k - 1], kws[k])]
      /\ After(s.rst_config, kws) = F[Len(kws)]
  BY <1>2 DEF Configuring!Values, After
<1>10. \A k \in 1 .. Len(kws) : F[k] = ConfigOp(<< >>, F[k - 1], kws[k])
  <2>1. ASSUME NEW k \in 1 .. Len(kws) PROVE F[k] = ConfigOp(<< >>, F[k - 1], kws[k])
    <3>1. k \in 0 .. Len(kws) /\ k # 0
      BY <1>1
    <3> QED
      BY ONLY <1>3, <3>1
  <2> QED
    BY <2>1
<1> DEFINE p == [matches |-> matches, state |-> s, configs |-> F]
<1>4. HandleInv(p, 0, s)
  BY <1>1, <1>3 DEF HandleInv, Continues, SameDate
<1>5. ASSUME NEW k \in 1 .. Len(kws), NEW a, HandleInv(p, k - 1, a)
      PROVE  HandleInv(p, k, HandleOp(p, a, kws[k]))
  <2>1. CASE IsFailed(a) \/ NameError(a, kws[k])
    BY <2>1 DEF HandleOp, HandleInv, IsFailed, FAILED
  <2>2. CASE ~(IsFailed(a) \/ NameError(a, kws[k]))
    <3> DEFINE b == handleKeyword(a, kws[k], matches)
    <3>1. Continues(s, a) /\ a.rst_config = F[k - 1] /\ HandleOp(p, a, kws[k]) = b
      BY <1>5, <2>2 DEF HandleInv, HandleOp
    <3>2. IsSnapshot(a)
      BY <3>1 DEF Continues
    <3>5. kws[k].name \in BlockNames /\ (kws[k].name = "ACTIONX" => Listed(kws[k].body, actionx_allowed_list))
      BY <1>1
    <3>6. ASSUME NEW kw, kw = kws[k]
          PROVE  /\ Continues(a, handleKeyword(a, kw, matches))
                 /\ handleKeyword(a, kw, matches).rst_config = Configured(a.rst_config, kw)
      <4>1. kw.name \in BlockNames /\ (kw.name = "ACTIONX" => Listed(kw.body, actionx_allowed_list))
        BY <3>5, <3>6
      <4> QED
        BY ONLY <3>2, <4>1, KeywordContinues
    <3>3. Continues(a, b) /\ b.rst_config = Configured(a.rst_config, kws[k])
      BY <3>6
    <3>4. F[k] = Configured(F[k - 1], kws[k])
      BY <1>10 DEF ConfigOp
    <3> HIDE DEF b
    <3> QED
      BY <3>1, <3>3, <3>4, ContinuesTrans DEF HandleInv
  <2> QED
    BY <2>1, <2>2
<1>6. \A k \in 1 .. Len(kws) : \A a : HandleInv(p, k - 1, a) => HandleInv(p, k, HandleOp(p, a, kws[k]))
  BY <1>5
<1>7. handleKeywords(s, kws, matches) = Handling!Fold(p, s, kws)
  BY DEF handleKeywords, Handling!Fold, HandleOp, FoldLeft, MapThenFoldSet, Handling!MapThenFoldSet, Max, Handling!Max
<1> HIDE DEF p
<1>8. HandleInv(p, Len(kws), Handling!Fold(p, s, kws))
  BY ONLY <1>1, <1>4, <1>6, Handling!FoldKeeps
<1>9. p.state = s /\ p.configs = F
  BY DEF p
<1> QED
  BY <1>3, <1>7, <1>8, <1>9 DEF HandleInv

(* More keywords that configure no restart output change nothing. *)
LEMMA AfterMore ==
  ASSUME NEW c, NEW kws, LegalBlock(kws), NEW more, Listed(more, actionx_allowed_list)
  PROVE  LegalBlock(kws \o more) /\ After(c, kws \o more) = After(c, kws)
<1> DEFINE all == kws \o more
           S == Range(kws) \cup Range(more)
<1>1. kws \in Seq(S) /\ more \in Seq(S) /\ kws \in Seq(Range(kws)) /\ more \in Seq(Range(more))
  BY SeqMonotonic DEF LegalBlock, Listed
<1>2. /\ Len(kws) \in Nat /\ Len(more) \in Nat /\ Len(all) = Len(kws) + Len(more) /\ all \in Seq(S)
      /\ \A k \in 1 .. Len(kws) + Len(more) : all[k] = IF k <= Len(kws) THEN kws[k] ELSE more[k - Len(kws)]
  BY <1>1, ConcatProperties, LenProperties
<1>3. /\ \A k \in 1 .. Len(kws) : kws[k] \in Range(kws)
      /\ \A k \in 1 .. Len(more) : more[k] \in Range(more)
  BY <1>1, ElementOfSeq
<1> HIDE DEF all
<1>4. Range(all) \subseteq S
  BY <1>2, RangeOfSeq DEF Range
<1>5. LegalBlock(all)
  <2>1. all \in Seq(Range(all))
    BY <1>2, SeqOfRange
  <2>2. \A kw \in Range(more) : kw.name \in actionx_allowed_list /\ kw.name # "ACTIONX"
    BY DEF Listed, actionx_allowed_list, pyaction_allowed_list
  <2> QED
    BY <1>4, <2>1, <2>2 DEF LegalBlock, Listed
<1>6. PICK F : Configuring!Values(<< >>, c, kws, F)
  BY ONLY <1>1, Configuring!FoldHasValues
<1>7. /\ F = [k \in 0 .. Len(kws) |-> IF k = 0 THEN c ELSE ConfigOp(<< >>, F[k - 1], kws[k])]
      /\ After(c, kws) = F[Len(kws)]
  BY <1>6 DEF Configuring!Values, After
<1>15. \A k \in 1 .. Len(kws) : F[k] = ConfigOp(<< >>, F[k - 1], kws[k])
  <2>1. ASSUME NEW k \in 1 .. Len(kws) PROVE F[k] = ConfigOp(<< >>, F[k - 1], kws[k])
    <3>1. k \in 0 .. Len(kws) /\ k # 0
      BY <1>2
    <3> QED
      BY ONLY <1>7, <3>1
  <2> QED
    BY <2>1
<1> DEFINE p == [kws |-> kws, configs |-> F]
<1>8. ConfigInv(p, 0, c)
  BY <1>2, <1>7 DEF ConfigInv
<1>9. ASSUME NEW k \in 1 .. Len(all), NEW a, ConfigInv(p, k - 1, a)
      PROVE  ConfigInv(p, k, ConfigOp(p, a, all[k]))
  <2>1. CASE k <= Len(kws)
    <3>1. all[k] = kws[k] /\ a = F[k - 1]
      BY <1>2, <1>9, <2>1 DEF ConfigInv
    <3>2. F[k] = ConfigOp(<< >>, F[k - 1], kws[k])
      BY <1>2, <1>15, <2>1
    <3> QED
      BY <1>2, <2>1, <3>1, <3>2 DEF ConfigInv, ConfigOp
  <2>2. CASE k > Len(kws)
    <3>1. all[k] \in Range(more) /\ a = F[Len(kws)]
      BY <1>2, <1>3, <1>9, <2>2 DEF ConfigInv
    <3>2. all[k].name # "RPTRST"
      BY <3>1 DEF Listed, actionx_allowed_list, pyaction_allowed_list
    <3> QED
      BY <1>2, <2>2, <3>1, <3>2 DEF ConfigInv, ConfigOp, Configured
  <2> QED
    BY <1>2, <2>1, <2>2
<1>10. \A k \in 1 .. Len(all) : \A a : ConfigInv(p, k - 1, a) => ConfigInv(p, k, ConfigOp(p, a, all[k]))
  BY <1>9
<1>11. p.kws = kws /\ p.configs = F
  OBVIOUS
<1> HIDE DEF p
<1>12. ConfigInv(p, Len(all), Configuring!Fold(p, c, all))
  BY ONLY <1>2, <1>8, <1>10, Configuring!FoldKeeps
<1>13. Configuring!Fold(p, c, all) = Configuring!Fold(<< >>, c, all)
  <2>1. \A a : \A k \in 1 .. Len(all) : ConfigOp(p, a, all[k]) = ConfigOp(<< >>, a, all[k])
    BY DEF ConfigOp
  <2> QED
    BY ONLY <1>2, <2>1, Configuring!FoldAgree
<1>14. After(c, all) = F[Len(kws)]
  BY <1>2, <1>11, <1>12, <1>13 DEF ConfigInv, After
<1> QED
  BY <1>5, <1>7, <1>14 DEF all

-----------------------------------------------------------------------------
(***************************************************************************)
(* What a report step and an operation make of a snapshot.                 *)
(***************************************************************************)
LEMMA ListedLegal ==
  ASSUME NEW kws, Listed(kws, actionx_allowed_list)
  PROVE  LegalBlock(kws)
<1>1. "ACTIONX" \notin actionx_allowed_list
  BY DEF actionx_allowed_list, pyaction_allowed_list
<1> QED
  BY <1>1 DEF LegalBlock, Listed

(* A step may have no keywords.                                            *)
LEMMA NoKeywords == LegalBlock(<< >>)
<1>1. << >> \in Seq(Range(<< >>)) /\ Range(<< >>) = {}
  BY DEF Range
<1> QED
  BY <1>1 DEF LegalBlock, Listed

(* Keywords that an action may hold configure no restart output.           *)
LEMMA AfterNone ==
  ASSUME NEW c, NEW kws, Listed(kws, actionx_allowed_list)
  PROVE  After(c, kws) = c
<1>1. After(c, << >> \o kws) = After(c, << >>)
  BY ONLY NoKeywords, AfterMore, Listed(kws, actionx_allowed_list)
<1>2. After(c, << >>) = c
  BY ONLY Configuring!FoldNothing DEF After
<1>3. kws \in Seq(Range(kws))
  BY DEF Listed
<1>4. << >> \o kws = kws
  BY <1>3
<1> QED
  BY <1>1, <1>2, <1>4

(* The end of a report step is quiet.                                      *)
LEMMA EndQuiet ==
  ASSUME NEW s, IsSnapshot(s)
  PROVE  Quiet(s, end_report(s))
  BY StatusQuiet DEF end_report

(* The keywords of a report step continue its first state.                 *)
LEMMA BlockContinues ==
  ASSUME NEW s, IsSnapshot(s), NEW kws, LegalBlock(kws), ~IsFailed(processBlock(s, kws))
  PROVE  /\ Continues(s, processBlock(s, kws))
         /\ processBlock(s, kws).rst_config = After(s.rst_config, kws)
<1> DEFINE t == handleKeywords(s, kws, {})
<1>1. ~IsFailed(t) /\ processBlock(s, kws) = end_report(t)
  BY DEF processBlock, IsFailed, FAILED
<1>2. Continues(s, t) /\ t.rst_config = After(s.rst_config, kws)
  BY <1>1, HandledContinues
<1> HIDE DEF t
<1>3. Quiet(t, end_report(t))
  BY <1>2, EndQuiet DEF Continues
<1> QED
  BY <1>1, <1>2, <1>3, QuietContinues, ContinuesTrans

(* Keywords of an action continue a snapshot and its configuration.        *)
LEMMA AmendedContinues ==
  ASSUME NEW s, IsSnapshot(s), NEW kws, Listed(kws, actionx_allowed_list), NEW matches,
         NEW is_action \in BOOLEAN, ~IsFailed(amended(s, kws, matches, is_action))
  PROVE  /\ Continues(s, amended(s, kws, matches, is_action))
         /\ amended(s, kws, matches, is_action).rst_config = s.rst_config
<1> DEFINE t == handleKeywords(s, kws, matches)
           end == end_report(t)
           new == IF is_action THEN actionEvents(end, affectedWells(s, kws, matches)) ELSE end
<1>1. ~IsFailed(t) /\ amended(s, kws, matches, is_action) = new
  BY DEF amended, IsFailed, FAILED
<1>2. Continues(s, t) /\ t.rst_config = s.rst_config
  BY <1>1, HandledContinues, ListedLegal, AfterNone
<1> HIDE DEF t
<1>3. Quiet(t, end)
  BY <1>2, EndQuiet DEF Continues
<1> HIDE DEF end
<1>4. ASSUME NEW affected PROVE Quiet(end, actionEvents(end, affected))
  BY <1>3, SnapshotFields DEF Quiet, SameDate, IsSnapshot, actionEvents
<1>5. Quiet(end, new)
  BY <1>3, <1>4 DEF Quiet, SameDate
<1> HIDE DEF new
<1> QED
  BY <1>1, <1>2, <1>3, <1>5, QuietContinues, ContinuesTrans

(* The date of a report step. *)
Dated(s, k) ==
  /\ s.sim_step = k /\ s.month = Month[k]
  /\ k = 0 => s.first_in_month = TRUE /\ s.first_in_year = TRUE
  /\ k # 0 => /\ s.first_in_month = (Month[k] > Month[k - 1])
              /\ s.first_in_year = (Year(Month[k]) > Year(Month[k - 1]))

(* The snapshot of report step k, as it should be. *)
Proper(s, k) == IsSnapshot(s) /\ BodiesLegal(s) /\ Dated(s, k)

(* What continues the snapshot of a step is one.                           *)
LEMMA ProperContinues ==
  ASSUME NEW s, NEW t, NEW k, Proper(s, k), Continues(s, t)
  PROVE  Proper(t, k)
  BY DEF Proper, Continues, SameDate, Dated

(* The first snapshot is one of step 0.                                    *)
LEMMA FirstProper == Proper(create_first, 0) /\ create_first.rst_config = NoRstConfig
  BY DEF Proper, IsSnapshot, BodiesLegal, Dated, create_first

(* A snapshot of a step is made from one of the step before.               *)
LEMMA NextProper ==
  ASSUME NEW k \in Nat, k > 0, NEW s, Proper(s, k - 1)
  PROVE  /\ Proper(create_next(s, k), k)
         /\ create_next(s, k).rst_config = s.rst_config
         /\ create_next(s, k).wells = s.wells
<1> DEFINE t == create_next(s, k)
<1>0. DOMAIN s = DOMAIN create_first
  BY DEF Proper, IsSnapshot
<1>1. /\ DOMAIN t = DOMAIN s /\ t.actions = s.actions /\ t.rst_config = s.rst_config /\ t.wells = s.wells
      /\ t.sim_step = s.sim_step + 1 /\ t.month = Month[k]
  BY <1>0, SnapshotFields DEF create_next
<1>4. t.first_in_month = (Month[k] > s.month)
  BY <1>0, SnapshotFields DEF create_next
<1>5. t.first_in_year = (Year(Month[k]) > Year(s.month))
  BY <1>0, SnapshotFields DEF create_next
<1> HIDE DEF t
<1>2. t.sim_step = k /\ s.month = Month[k - 1]
  BY <1>1 DEF Proper, Dated
<1>6. t.first_in_month = (Month[k] > Month[k - 1])
  BY <1>2, <1>4
<1>7. t.first_in_year = (Year(Month[k]) > Year(Month[k - 1]))
  BY <1>2, <1>5
<1>3. Dated(t, k)
  BY <1>1, <1>2, <1>6, <1>7 DEF Dated
<1> QED
  BY <1>1, <1>3 DEF Proper, IsSnapshot, BodiesLegal, t

-----------------------------------------------------------------------------
(***************************************************************************)
(* The wells of the restart file.  The snapshots are what report steps and *)
(* operations make of one another, and a run that has been restarted never *)
(* looks at a step before the restart.                                     *)
(***************************************************************************)
SnapshotsProper == \A i \in DOMAIN snapshots : Proper(snapshots[i], i - 1)

DeckLegal == \A k \in Steps : LegalBlock(m_sched_deck[k])

FromRestart ==
  /\ mode \in {"driver", "script"} => sim >= RestartStep
  /\ mode = "construct" /\ load_end = N => report_step >= RestartStep

(* What a call does, as far as the snapshots are concerned.                *)
Added(step, new, kws) ==
  /\ snapshots' = Append(SubSeq(snapshots, 1, step), new)
  /\ m_sched_deck' = [m_sched_deck EXCEPT ![step] = @ \o kws]
  /\ ~IsFailed(new) /\ step < Len(snapshots)

(* A call adds its keywords or ends the run.                               *)
LEMMA AddKeywordsMakes ==
  ASSUME TypeOK, NEW step \in Steps, NEW kws, NEW matches,
         NEW is_action \in BOOLEAN, NEW iterate \in BOOLEAN,
         addKeywords(step, kws, matches, is_action, iterate)
  PROVE  \/ UNCHANGED <<snapshots, m_sched_deck>> /\ mode' \in {"failed", "crashed"}
         \/ /\ Added(step, amended(snapshots[step + 1], kws, matches, is_action), kws)
            /\ mode' = mode
<1> DEFINE new == amended(snapshots[step + 1], kws, matches, is_action)
<1>1. step \in Nat /\ Len(snapshots) \in Nat
  BY SeqHasLen, ConstantsAssumption DEF TypeOK, IsSeq, Steps
<1>2. CASE step >= Len(snapshots) \/ IsFailed(new)
  BY <1>2 DEF addKeywords
<1>3. CASE ~(step >= Len(snapshots) \/ IsFailed(new))
  BY <1>1, <1>3 DEF addKeywords, Added
<1> QED
  BY <1>2, <1>3

(* The operations that add keywords, as one: they add what actions and     *)
(* scripts may hold, never to a step of the past.                          *)
Adding(step, kws, matches, is_action, iterate) ==
  /\ addKeywords(step, kws, matches, is_action, iterate)
  /\ step >= sim /\ mode \in {"driver", "script"}
  /\ Listed(kws, actionx_allowed_list)

Operation ==
  \/ \E act \in ActionNames, m \in SUBSET Wells : applyAction(act, m) \/ actionx_callback(act, m)
  \/ \E w \in Wells, st \in WellStatus, i \in Steps : changeWellStatus(w, st, i)
  \/ \E kws \in ScriptKeywords, i \in Steps : insert_keywords(kws, i)

(* A call never names a step of the past.                                  *)
LEMMA CallingNow ==
  ASSUME Discipline, TypeOK, Shape, NEW step \in Steps, Calling(step), step >= current_report_step
  PROVE  step >= sim /\ mode \in {"driver", "script"}
  BY DEF Calling, Discipline, Shape, InScript

(* The keyword of a status call is one that actions may hold.              *)
LEMMA StatusCallAdds ==
  ASSUME Discipline, TypeOK, Shape, NEW w, NEW st, NEW i \in Steps, changeWellStatus(w, st, i),
         NEW it \in BOOLEAN, it = (delayed_iteration = "Off")
  PROVE  Adding(i, <<WELOPEN(w, st)>>, {}, TRUE, it)
<1>1. Listed(<<WELOPEN(w, st)>>, actionx_allowed_list)
  <2> DEFINE kws == <<WELOPEN(w, st)>>
  <2>1. kws \in Seq({WELOPEN(w, st)}) /\ Range(kws) = {WELOPEN(w, st)}
    BY DEF Range
  <2>2. WELOPEN(w, st).name \in actionx_allowed_list
    BY DEF WELOPEN, actionx_allowed_list, pyaction_allowed_list
  <2> QED
    BY <2>1, <2>2 DEF Listed
<1>2. i >= sim /\ mode \in {"driver", "script"}
  BY CallingNow DEF changeWellStatus
<1> QED
  BY <1>1, <1>2 DEF changeWellStatus, Adding

(* So are the keywords of an insertion.                                    *)
LEMMA InsertAdds ==
  ASSUME Discipline, TypeOK, Shape, NEW kws \in ScriptKeywords, NEW i \in Steps, insert_keywords(kws, i)
  PROVE  Adding(i, kws, {}, FALSE, TRUE)
<1>1. Listed(kws, actionx_allowed_list)
  BY ConstantsAssumption DEF Listed, actionx_allowed_list
<1>2. i >= sim /\ mode \in {"driver", "script"}
  BY CallingNow DEF insert_keywords
<1> QED
  BY <1>1, <1>2 DEF insert_keywords, Adding

(* And so are those of an action, from the deck or from a script.          *)
LEMMA OperationAdds ==
  ASSUME Discipline, TypeOK, Shape, SnapshotsProper, Operation
  PROVE  \E step \in Steps : \E kws, matches : \E is_action \in BOOLEAN, iterate \in BOOLEAN :
           Adding(step, kws, matches, is_action, iterate)
<1>0. sim \in Steps /\ sim >= sim /\ DOMAIN snapshots = 1 .. Len(snapshots) /\ Len(snapshots) \in Nat
      /\ sim \in Nat
  BY SeqHasLen, ConstantsAssumption DEF TypeOK, IsSeq, Steps
<1>1. ASSUME NEW act, act \in DOMAIN snapshots[sim + 1].actions, sim < Len(snapshots)
      PROVE  Listed(snapshots[sim + 1].actions[act], actionx_allowed_list)
  BY <1>0, <1>1 DEF SnapshotsProper, Proper, BodiesLegal
<1>2. ASSUME NEW act, NEW m, applyAction(act, m)
      PROVE  Adding(sim, snapshots[sim + 1].actions[act], m, TRUE, TRUE)
  BY <1>0, <1>1, <1>2 DEF applyAction, PostStep, Adding
<1>3. ASSUME NEW act, NEW m, actionx_callback(act, m)
      PROVE  Adding(sim, snapshots[sim + 1].actions[act],
                    m \cap DOMAIN snapshots[sim + 1].wells, TRUE, TRUE)
  BY <1>0, <1>1, <1>3 DEF actionx_callback, Adding
<1>4. ASSUME NEW w, NEW st, NEW i \in Steps, changeWellStatus(w, st, i),
             NEW it \in BOOLEAN, it = (delayed_iteration = "Off")
      PROVE  Adding(i, <<WELOPEN(w, st)>>, {}, TRUE, it)
  BY <1>4, StatusCallAdds
<1>5. ASSUME NEW kws \in ScriptKeywords, NEW i \in Steps, insert_keywords(kws, i)
      PROVE  Adding(i, kws, {}, FALSE, TRUE)
  BY <1>5, InsertAdds
<1>6. CASE \E act \in ActionNames, m \in SUBSET Wells : applyAction(act, m) \/ actionx_callback(act, m)
  <2>1. PICK act \in ActionNames, m \in SUBSET Wells : applyAction(act, m) \/ actionx_callback(act, m)
    BY <1>6
  <2> QED
    BY <1>0, <1>2, <1>3, <2>1
<1>7. CASE \E w \in Wells, st \in WellStatus, i \in Steps : changeWellStatus(w, st, i)
  <2>1. PICK w \in Wells, st \in WellStatus, i \in Steps : changeWellStatus(w, st, i)
    BY <1>7
  <2>2. \E it \in BOOLEAN : it = (delayed_iteration = "Off")
    OBVIOUS
  <2>3. PICK it \in BOOLEAN : it = (delayed_iteration = "Off")
    BY <2>2
  <2>4. Adding(i, <<WELOPEN(w, st)>>, {}, TRUE, it)
    BY <1>4, <2>1, <2>3
  <2> QED
    BY <2>4
<1>8. CASE \E kws \in ScriptKeywords, i \in Steps : insert_keywords(kws, i)
  BY <1>5, <1>8
<1> QED
  BY <1>6, <1>7, <1>8 DEF Operation
(* What one iteration of the loop appends. *)
Appended(new) ==
  /\ snapshots' = Append(snapshots, new)
  /\ Proper(new, Len(snapshots))
  /\ Len(snapshots) = 0 => new.rst_config = After(NoRstConfig, m_sched_deck[report_step])
  /\ Len(snapshots) > 0 =>
       /\ DOMAIN snapshots[Len(snapshots)].wells \subseteq DOMAIN new.wells
       /\ new.rst_config = After(snapshots[Len(snapshots)].rst_config, m_sched_deck[report_step])

(* An iteration appends a snapshot of the next step.                       *)
LEMMA IterationAppends ==
  ASSUME TypeOK, Shape, SnapshotsProper, DeckLegal, iterateScheduleSection
  PROVE  /\ Len(snapshots) = report_step /\ report_step \in Steps /\ report_step < load_end
         /\ \E new : Appended(new)
<1> DEFINE n == Len(snapshots)
           from == create(snapshots, n)
           kws == m_sched_deck[report_step]
           new == processBlock(from, kws)
<1>1. /\ IsSeq(snapshots) /\ n \in Nat /\ n = report_step /\ DOMAIN snapshots = 1 .. n
      /\ report_step < load_end /\ load_end \in 0 .. N /\ N \in Nat
  BY SeqHasLen, ConstantsAssumption
     DEF TypeOK, IsSeq, iterateScheduleSection, Shape, Constructing, Simulating, Iterating
<1>2. report_step \in Steps /\ LegalBlock(kws)
  BY <1>1 DEF Steps, DeckLegal
<1>3. processStep(snapshots, report_step, kws) = Append(snapshots, new)
  BY <1>1 DEF processStep
<1>4. snapshots' = Append(snapshots, new) /\ ~IsFailed(Last(Append(snapshots, new)))
  BY <1>3 DEF iterateScheduleSection
<1> HIDE DEF new
<1>5. Last(Append(snapshots, new)) = new
  <2>1. IsSeq(Append(snapshots, new)) /\ Len(Append(snapshots, new)) = n + 1
        /\ Append(snapshots, new)[n + 1] = new
    BY <1>1, AppendFacts
  <2> QED
    BY <2>1 DEF Last
<1>6. from = IF n = 0 THEN create_first ELSE create_next(snapshots[n], n)
  BY <1>1, CreateFromPrevious
<1> HIDE DEF from, n
<1>7. /\ Proper(from, n)
      /\ n = 0 => from.rst_config = NoRstConfig
      /\ n > 0 => from.rst_config = snapshots[n].rst_config /\ from.wells = snapshots[n].wells
  <2>1. CASE n = 0
    BY <1>6, <2>1, FirstProper
  <2>2. CASE n > 0
    <3>1. n \in DOMAIN snapshots /\ Proper(snapshots[n], n - 1)
      BY <1>1, <2>2 DEF SnapshotsProper
    <3> QED
      BY <1>1, <1>6, <2>2, <3>1, NextProper
  <2> QED
    BY <1>1, <2>1, <2>2
<1>8. Continues(from, new) /\ new.rst_config = After(from.rst_config, kws)
  <2>1. IsSnapshot(from)
    BY <1>7 DEF Proper
  <2> QED
    BY <1>2, <1>4, <1>5, <2>1, BlockContinues DEF new
<1> HIDE DEF kws
<1>9. Proper(new, n)
  BY <1>7, <1>8, ProperContinues
<1>10. Appended(new)
  <2>1. n > 0 => DOMAIN snapshots[n].wells \subseteq DOMAIN new.wells
    BY <1>7, <1>8 DEF Continues
  <2> QED
    BY <1>4, <1>7, <1>8, <1>9, <2>1 DEF Appended, n, kws
<1> QED
  BY <1>1, <1>2, <1>10 DEF n

(* An operation puts a snapshot in the place of another of the same step.  *)
LEMMA AddingMakes ==
  ASSUME TypeOK, SnapshotsProper, DeckLegal, NEW step \in Steps, NEW kws, NEW matches,
         NEW is_action \in BOOLEAN, NEW iterate \in BOOLEAN,
         Adding(step, kws, matches, is_action, iterate)
  PROVE  \/ UNCHANGED <<snapshots, m_sched_deck>> /\ mode' \in {"failed", "crashed"}
         \/ \E new : /\ Added(step, new, kws) /\ mode' = mode
                     /\ Proper(new, step)
                     /\ DOMAIN snapshots[step + 1].wells \subseteq DOMAIN new.wells
                     /\ new.rst_config = snapshots[step + 1].rst_config
<1> DEFINE new == amended(snapshots[step + 1], kws, matches, is_action)
<1>1. step \in Nat /\ Len(snapshots) \in Nat /\ DOMAIN snapshots = 1 .. Len(snapshots)
  BY SeqHasLen, ConstantsAssumption DEF TypeOK, IsSeq, Steps
<1>2. addKeywords(step, kws, matches, is_action, iterate) /\ Listed(kws, actionx_allowed_list)
  BY DEF Adding
<1>3. CASE UNCHANGED <<snapshots, m_sched_deck>> /\ mode' \in {"failed", "crashed"}
  BY <1>3
<1>4. CASE Added(step, new, kws) /\ mode' = mode
  <2>1. step + 1 \in DOMAIN snapshots /\ step + 1 - 1 = step /\ ~IsFailed(new)
    BY <1>1, <1>4 DEF Added
  <2>2. Proper(snapshots[step + 1], step)
    <3>1. ASSUME NEW i, i = step + 1 PROVE Proper(snapshots[i], step)
      <4>1. i \in DOMAIN snapshots /\ i - 1 = step
        BY <1>1, <2>1, <3>1
      <4> QED
        BY ONLY <4>1, SnapshotsProper DEF SnapshotsProper
    <3> QED
      BY <3>1
  <2>3. Continues(snapshots[step + 1], new) /\ new.rst_config = snapshots[step + 1].rst_config
    BY <1>2, <2>1, <2>2, AmendedContinues DEF Proper
  <2> HIDE DEF new
  <2>4. Proper(new, step) /\ DOMAIN snapshots[step + 1].wells \subseteq DOMAIN new.wells
    BY <2>2, <2>3, ProperContinues DEF Continues
  <2>5. \E x : /\ Added(step, x, kws) /\ mode' = mode
               /\ Proper(x, step)
               /\ DOMAIN snapshots[step + 1].wells \subseteq DOMAIN x.wells
               /\ x.rst_config = snapshots[step + 1].rst_config
    BY ONLY <1>4, <2>3, <2>4
  <2> QED
    BY <2>5
<1> QED
  BY <1>2, <1>3, <1>4, AddKeywordsMakes

(* The sequences after it. *)
LEMMA AddedFacts ==
  ASSUME TypeOK, NEW step \in Steps, NEW new, NEW kws, Added(step, new, kws)
  PROVE  /\ step \in Nat /\ step + 1 \in 1 .. Len(snapshots) /\ DOMAIN snapshots = 1 .. Len(snapshots)
         /\ DOMAIN snapshots' = 1 .. step + 1
         /\ \A i \in 1 .. step : snapshots'[i] = snapshots[i]
         /\ snapshots'[step + 1] = new
<1>1. IsSeq(snapshots) /\ Len(snapshots) \in Nat /\ step \in Nat /\ DOMAIN snapshots = 1 .. Len(snapshots)
  BY SeqHasLen, ConstantsAssumption DEF TypeOK, IsSeq, Steps
<1>2. step < Len(snapshots) /\ step \in 0 .. Len(snapshots)
  BY <1>1 DEF Added
<1> DEFINE p == SubSeq(snapshots, 1, step)
<1>3. IsSeq(p) /\ Len(p) = step /\ \A i \in 1 .. step : p[i] = snapshots[i]
  BY <1>1, <1>2, PrefixFacts
<1>4. snapshots' = Append(p, new)
  BY DEF Added
<1> HIDE DEF p
<1>5. /\ IsSeq(snapshots') /\ Len(snapshots') = step + 1
      /\ \A i \in 1 .. step : snapshots'[i] = snapshots[i]
      /\ snapshots'[step + 1] = new
  BY <1>3, <1>4, AppendFacts
<1> QED
  BY <1>1, <1>2, <1>5, SeqHasLen

(* The sequences after an iteration.                                       *)
LEMMA AppendedFacts ==
  ASSUME TypeOK, NEW new, snapshots' = Append(snapshots, new)
  PROVE  /\ Len(snapshots) \in Nat /\ DOMAIN snapshots = 1 .. Len(snapshots)
         /\ DOMAIN snapshots' = 1 .. Len(snapshots) + 1
         /\ \A i \in 1 .. Len(snapshots) : snapshots'[i] = snapshots[i]
         /\ snapshots'[Len(snapshots) + 1] = new
  BY AppendFacts, SeqHasLen DEF TypeOK, IsSeq
(* The steps that leave the schedule alone. *)
Steady ==
  /\ UNCHANGED <<m_sched_deck, snapshots, restart_output, load_end, input, edited>>
  /\ \/ UNCHANGED <<mode, report_step, sim>>
     \/ mode' = "failed" /\ UNCHANGED report_step
     \/ mode \in {"driver", "script"} /\ mode' \in {"driver", "script"} /\ sim' \in {sim, sim + 1}

(* Every step is of one of these kinds.                                    *)
LEMMA NextKinds ==
  ASSUME TypeOK, [Next]_vars
  PROVE  iterateScheduleSection \/ load_rst \/ constructed \/ Operation \/ Steady
<1>1. sim \in Nat
  BY ConstantsAssumption DEF TypeOK, Steps
<1>2. CASE IterationFails \/ Advance \/ runPyAction \/ pyActionDone \/ UNCHANGED vars
  BY <1>1, <1>2 DEF IterationFails, Advance, runPyAction, PostStep, pyActionDone, vars, Steady
<1> QED
  BY <1>2 DEF Next, Operation

(* Replacing one element, position by position.                            *)
LEMMA ReplacedIs ==
  ASSUME NEW s, IsSeq(s), NEW j, j \in 1 .. Len(s), NEW x, NEW t, t = [s EXCEPT ![j] = x]
  PROVE  /\ DOMAIN t = 1 .. Len(s) /\ DOMAIN s = 1 .. Len(s)
         /\ \A i \in 1 .. Len(s) : i # j => t[i] = s[i]
         /\ t[j] = x
<1>1. DOMAIN s = 1 .. Len(s)
  BY SeqHasLen
<1> QED
  BY <1>1

(* load_rst adds the wells of the file to the last snapshot.               *)
LEMMA LoadRstFacts ==
  ASSUME TypeOK, Shape, load_rst
  PROVE  /\ mode = "construct" /\ mode' = "construct" /\ UNCHANGED <<m_sched_deck, report_step, input>>
         /\ Len(snapshots) = RestartStep /\ report_step = RestartStep /\ RestartStep \in Nat \ {0}
         /\ load_end' = N
         /\ DOMAIN snapshots = 1 .. RestartStep /\ DOMAIN snapshots' = 1 .. RestartStep
         /\ \A i \in 1 .. RestartStep - 1 : snapshots'[i] = snapshots[i]
         /\ snapshots'[RestartStep] = addRstWells(snapshots[RestartStep])
<1>1. /\ IsSeq(snapshots) /\ Len(snapshots) = report_step /\ report_step >= load_end
      /\ load_end \in 0 .. N /\ N \in Nat /\ RestartStep \in Nat /\ report_step \in 0 .. N
  BY ConstantsAssumption DEF TypeOK, IsSeq, load_rst, Shape, Constructing, Iterating, Steps
<1>2. load_end = RestartStep /\ report_step <= load_end /\ RestartStep > 0
  BY <1>1 DEF load_rst, Shape, Constructing
<1>3. Len(snapshots) = RestartStep /\ Len(snapshots) \in 1 .. Len(snapshots)
  BY <1>1, <1>2
<1>4. snapshots' = [snapshots EXCEPT ![Len(snapshots)] = addRstWells(snapshots[Len(snapshots)])]
  BY DEF load_rst
<1>5. ASSUME NEW x, x = addRstWells(snapshots[Len(snapshots)])
      PROVE  /\ DOMAIN snapshots' = 1 .. Len(snapshots) /\ DOMAIN snapshots = 1 .. Len(snapshots)
             /\ \A i \in 1 .. Len(snapshots) : i # Len(snapshots) => snapshots'[i] = snapshots[i]
             /\ snapshots'[Len(snapshots)] = x
  <2>1. snapshots' = [snapshots EXCEPT ![Len(snapshots)] = x]
    BY <1>4, <1>5
  <2>2. IsSeq(snapshots) /\ Len(snapshots) \in 1 .. Len(snapshots)
    BY <1>1, <1>3
  <2> QED
    BY ONLY <2>1, <2>2, ReplacedIs
<1>6. DOMAIN snapshots = 1 .. RestartStep /\ DOMAIN snapshots' = 1 .. RestartStep
  BY <1>1, <1>3, <1>5
<1>7. /\ \A i \in 1 .. RestartStep - 1 : snapshots'[i] = snapshots[i]
      /\ snapshots'[RestartStep] = addRstWells(snapshots[RestartStep])
  BY <1>1, <1>2, <1>3, <1>5
<1>8. /\ mode = "construct" /\ mode' = "construct" /\ UNCHANGED <<m_sched_deck, report_step, input>>
      /\ load_end' = N
  BY DEF load_rst
<1>9. Len(snapshots) = RestartStep /\ report_step = RestartStep /\ RestartStep \in Nat \ {0}
  BY <1>1, <1>2, <1>3
<1> QED
  BY ONLY <1>6, <1>7, <1>8, <1>9, Zenon

(* The end of the constructor merges events into the restart step.         *)
LEMMA ConstructedFacts ==
  ASSUME TypeOK, Shape, constructed
  PROVE  /\ mode = "construct" /\ mode' = "driver" /\ sim' = RestartStep /\ load_end = N
         /\ UNCHANGED <<m_sched_deck, restart_output, report_step, load_end, input, edited>>
         /\ report_step = N /\ Len(snapshots) = N
         /\ DOMAIN snapshots = 1 .. N /\ DOMAIN snapshots' = 1 .. N
         /\ \A i \in 1 .. N : i # RestartStep + 1 \/ RestartStep = 0 => snapshots'[i] = snapshots[i]
         /\ RestartStep > 0 =>
              snapshots'[RestartStep + 1] = mergeEvents(snapshots[RestartStep + 1], snapshots[RestartStep])
<1>1. /\ IsSeq(snapshots) /\ Len(snapshots) = report_step /\ report_step >= load_end /\ load_end = N
      /\ N \in Nat /\ RestartStep \in 0 .. N - 1 /\ report_step \in 0 .. N
  BY ConstantsAssumption DEF TypeOK, IsSeq, constructed, Shape, Constructing, Iterating, Steps
<1>2. DOMAIN snapshots = 1 .. N /\ Len(snapshots) = N
  BY <1>1, SeqHasLen
<1>5. load_end = N /\ report_step = N
  BY <1>1
<1>3. CASE RestartStep = 0
  BY <1>1, <1>2, <1>3 DEF constructed
<1>4. CASE RestartStep > 0
  <2>1. RestartStep + 1 \in 1 .. Len(snapshots)
    BY <1>1, <1>2
  <2> DEFINE merged == mergeEvents(snapshots[RestartStep + 1], snapshots[RestartStep])
  <2>2. snapshots' = [snapshots EXCEPT ![RestartStep + 1] = merged]
    BY <1>4 DEF constructed
  <2> HIDE DEF merged
  <2>3. ASSUME NEW j, j = RestartStep + 1
        PROVE  /\ DOMAIN snapshots' = 1 .. N
               /\ \A i \in 1 .. N : i # j => snapshots'[i] = snapshots[i]
               /\ snapshots'[j] = merged
    <3>1. j \in 1 .. Len(snapshots) /\ snapshots' = [snapshots EXCEPT ![j] = merged] /\ IsSeq(snapshots)
      BY <1>1, <2>1, <2>2, <2>3
    <3> QED
      BY ONLY <1>2, <3>1, ReplacedIs
  <2>8. RestartStep # 0
    BY <1>1, <1>4
  <2>4. DOMAIN snapshots' = 1 .. N
    BY <2>3
  <2>5. /\ \A i \in 1 .. N : i # RestartStep + 1 => snapshots'[i] = snapshots[i]
        /\ snapshots'[RestartStep + 1] = merged
    BY <2>3
  <2>6. /\ mode = "construct" /\ mode' = "driver" /\ sim' = RestartStep
        /\ UNCHANGED <<m_sched_deck, restart_output, report_step, load_end, input, edited>>
    BY DEF constructed
  <2> QED
    BY ONLY <1>2, <1>5, <2>4, <2>5, <2>6, <2>8, Zenon DEF merged
<1> QED
  BY ONLY <1>1, <1>3, <1>4

(* Adding the wells of the file is quiet.                                  *)
LEMMA RstWellsContinue ==
  ASSUME NEW s, IsSnapshot(s)
  PROVE  Quiet(s, addRstWells(s)) /\ DOMAIN RstWells \subseteq DOMAIN addRstWells(s).wells
  BY SnapshotFields DEF Quiet, SameDate, IsSnapshot, addRstWells

(* Merging events is quiet.                                                *)
LEMMA MergedQuiet ==
  ASSUME NEW s, IsSnapshot(s), NEW prev
  PROVE  Quiet(s, mergeEvents(s, prev))
  BY SnapshotFields DEF Quiet, SameDate, IsSnapshot, mergeEvents

(* In every step a snapshot stays what it is for its report step. *)
LEMMA ProperNext ==
  ASSUME Discipline, TypeOK, Shape, SnapshotsProper, DeckLegal, [Next]_vars
  PROVE  SnapshotsProper' /\ DeckLegal'
<1>0. DOMAIN m_sched_deck = Steps
  BY DEF TypeOK
<1>1. CASE iterateScheduleSection
  <2>1. PICK new : Appended(new)
    BY <1>1, IterationAppends
  <2>2. snapshots' = Append(snapshots, new) /\ Proper(new, Len(snapshots))
    BY <2>1 DEF Appended
  <2>3. SnapshotsProper'
    <3>1. ASSUME NEW i \in DOMAIN snapshots' PROVE Proper(snapshots'[i], i - 1)
      <4>1. CASE i \in 1 .. Len(snapshots)
        BY <2>2, <4>1, AppendedFacts DEF SnapshotsProper
      <4>2. CASE i = Len(snapshots) + 1
        <5>1. i - 1 = Len(snapshots) /\ snapshots'[i] = new
          BY <2>2, <4>2, AppendedFacts
        <5> QED
          BY ONLY <2>2, <5>1
      <4> QED
        BY <2>2, <3>1, <4>1, <4>2, AppendedFacts
    <3> QED
      BY <3>1 DEF SnapshotsProper
  <2>4. m_sched_deck' \in {[m_sched_deck EXCEPT ![report_step] = << >>], m_sched_deck}
    BY <1>1 DEF iterateScheduleSection
  <2>5. DeckLegal'
    BY <1>0, <2>4, NoKeywords DEF DeckLegal
  <2> QED
    BY <2>3, <2>5
<1>2. CASE load_rst
  <2>1. DeckLegal'
    BY <1>2 DEF load_rst, DeckLegal
  <2>2. Proper(addRstWells(snapshots[RestartStep]), RestartStep - 1)
    <3>1. Proper(snapshots[RestartStep], RestartStep - 1)
      BY <1>2, LoadRstFacts DEF SnapshotsProper
    <3> QED
      BY <3>1, RstWellsContinue, QuietContinues, ProperContinues DEF Proper
  <2>3. ASSUME NEW i \in DOMAIN snapshots' PROVE Proper(snapshots'[i], i - 1)
    <3>1. CASE i = RestartStep
      <4>1. snapshots'[i] = addRstWells(snapshots[RestartStep]) /\ i - 1 = RestartStep - 1
        BY <1>2, <3>1, LoadRstFacts
      <4> QED
        BY ONLY <2>2, <4>1
    <3>2. CASE i # RestartStep
      <4>1. snapshots'[i] = snapshots[i] /\ i \in DOMAIN snapshots
        BY <1>2, <2>3, <3>2, LoadRstFacts
      <4> QED
        BY ONLY <4>1, SnapshotsProper DEF SnapshotsProper
    <3> QED
      BY <3>1, <3>2
  <2> QED
    BY <2>1, <2>3 DEF SnapshotsProper
<1>3. CASE constructed
  <2>1. DeckLegal'
    BY <1>3 DEF constructed, DeckLegal
  <2>2. ASSUME NEW i \in DOMAIN snapshots' PROVE Proper(snapshots'[i], i - 1)
    <3>1. i \in DOMAIN snapshots /\ Proper(snapshots[i], i - 1)
      BY <1>3, <2>2, ConstructedFacts DEF SnapshotsProper
    <3>2. CASE i = RestartStep + 1 /\ RestartStep # 0
      <4>1. snapshots'[i] = mergeEvents(snapshots[i], snapshots[RestartStep])
        BY <1>3, <3>2, ConstructedFacts, ConstantsAssumption DEF Steps
      <4> QED
        BY <3>1, <4>1, MergedQuiet, QuietContinues, ProperContinues DEF Proper
    <3>3. CASE ~(i = RestartStep + 1 /\ RestartStep # 0)
      <4>1. snapshots'[i] = snapshots[i]
        BY <1>3, <2>2, <3>3, ConstructedFacts
      <4> QED
        BY ONLY <3>1, <4>1
    <3> QED
      BY <3>2, <3>3
  <2> QED
    BY <2>1, <2>2 DEF SnapshotsProper
<1>4. CASE Operation
  <2>1. PICK step \in Steps : \E kws, matches : \E is_action \in BOOLEAN, iterate \in BOOLEAN :
          Adding(step, kws, matches, is_action, iterate)
    BY <1>4, OperationAdds
  <2>2. PICK kws, matches : \E is_action \in BOOLEAN, iterate \in BOOLEAN :
          Adding(step, kws, matches, is_action, iterate)
    BY <2>1
  <2>3. PICK is_action \in BOOLEAN, iterate \in BOOLEAN : Adding(step, kws, matches, is_action, iterate)
    BY <2>2
  <2>4. CASE UNCHANGED <<snapshots, m_sched_deck>>
    BY <2>4 DEF SnapshotsProper, DeckLegal
  <2>5. ASSUME NEW new, Added(step, new, kws), Proper(new, step)
        PROVE  SnapshotsProper' /\ DeckLegal'
    <3>1. ASSUME NEW i \in DOMAIN snapshots' PROVE Proper(snapshots'[i], i - 1)
      <4>1. CASE i = step + 1
        <5>1. snapshots'[i] = new /\ i - 1 = step
          BY <2>5, <4>1, AddedFacts
        <5> QED
          BY ONLY <2>5, <5>1
      <4>2. CASE i # step + 1
        <5>1. snapshots'[i] = snapshots[i] /\ i \in DOMAIN snapshots
          BY <2>5, <3>1, <4>2, AddedFacts
        <5> QED
          BY ONLY <5>1, SnapshotsProper DEF SnapshotsProper
      <4> QED
        BY <4>1, <4>2
    <3>2. m_sched_deck' = [m_sched_deck EXCEPT ![step] = @ \o kws] /\ Listed(kws, actionx_allowed_list)
      BY <2>3, <2>5 DEF Added, Adding
    <3>3. LegalBlock(m_sched_deck[step] \o kws)
      BY ONLY <3>2, step \in Steps, DeckLegal, AfterMore DEF DeckLegal
    <3>4. DeckLegal'
      BY <1>0, <3>2, <3>3 DEF DeckLegal
    <3> QED
      BY <3>1, <3>4 DEF SnapshotsProper
  <2> QED
    BY <2>3, <2>4, <2>5, AddingMakes
<1>5. CASE Steady
  BY <1>5 DEF Steady, SnapshotsProper, DeckLegal
<1> QED
  BY <1>1, <1>2, <1>3, <1>4, <1>5, NextKinds

(* A restarted run never goes back before the restart.                     *)
LEMMA FromRestartNext ==
  ASSUME Discipline, TypeOK, Shape, SnapshotsProper, FromRestart, [Next]_vars
  PROVE  FromRestart'
<1>0. /\ RestartStep \in Nat /\ sim \in Nat /\ report_step \in Nat /\ load_end \in Nat /\ N \in Nat
  BY ConstantsAssumption DEF TypeOK, Steps
<1>1. CASE iterateScheduleSection
  BY <1>0, <1>1 DEF iterateScheduleSection, FromRestart
<1>2. CASE load_rst
  BY <1>0, <1>2, LoadRstFacts DEF FromRestart
<1>3. CASE constructed
  BY <1>0, <1>3, ConstructedFacts DEF FromRestart
<1>4. CASE Operation
  <2>1. PICK step \in Steps : \E kws, matches : \E is_action \in BOOLEAN, iterate \in BOOLEAN :
          Adding(step, kws, matches, is_action, iterate)
    BY <1>4, OperationAdds
  <2>2. PICK kws, matches : \E is_action \in BOOLEAN, iterate \in BOOLEAN :
          Adding(step, kws, matches, is_action, iterate)
    BY <2>1
  <2>3. PICK is_action \in BOOLEAN, iterate \in BOOLEAN : Adding(step, kws, matches, is_action, iterate)
    BY <2>2
  <2>4. UNCHANGED sim /\ mode' \in {mode, "failed", "crashed"} /\ mode \in {"driver", "script"}
    BY <2>3, AddKeywordsMakes, AddKeywordsCases DEF Adding
  <2> QED
    BY <2>4 DEF FromRestart
<1>5. CASE Steady
  <2>1. CASE UNCHANGED <<mode, report_step, sim>>
    BY <1>5, <2>1 DEF Steady, FromRestart
  <2>2. CASE mode' = "failed"
    BY <2>2 DEF FromRestart
  <2>3. CASE mode \in {"driver", "script"} /\ mode' \in {"driver", "script"} /\ sim' \in {sim, sim + 1}
    BY <1>0, <2>3 DEF FromRestart
  <2> QED
    BY <1>5, <2>1, <2>2, <2>3 DEF Steady
<1> QED
  BY <1>1, <1>2, <1>3, <1>4, <1>5, NextKinds

(* No step loses a well of the restart file.                               *)
LEMMA RestartWellsNext ==
  ASSUME Discipline, TypeOK, Shape, SnapshotsProper, DeckLegal, FromRestart, RestartWellsKept, [Next]_vars
  PROVE  RestartWellsKept'
<1>0. /\ RestartStep \in Nat /\ sim \in Nat /\ report_step \in Nat /\ load_end \in 0 .. N /\ N \in Nat
  BY ConstantsAssumption DEF TypeOK, Steps
<1>1. CASE iterateScheduleSection
  <2>1. UNCHANGED load_end /\ Len(snapshots) = report_step /\ report_step < load_end
        /\ mode \in {"construct", "driver", "script"}
    BY <1>1, IterationAppends DEF iterateScheduleSection
  <2>2. PICK new : Appended(new)
    BY <1>1, IterationAppends
  <2>3. snapshots' = Append(snapshots, new)
    BY <2>2 DEF Appended
  <2>4. ASSUME load_end = N, RestartStep > 0, NEW i \in DOMAIN snapshots', i >= RestartStep
        PROVE  DOMAIN RstWells \subseteq DOMAIN snapshots'[i].wells
    <3>1. Len(snapshots) >= RestartStep
      BY <1>0, <2>1, <2>4 DEF FromRestart, Shape, Simulating
    <3>2. CASE i \in 1 .. Len(snapshots)
      <4>1. snapshots'[i] = snapshots[i] /\ i \in DOMAIN snapshots
        BY <2>3, <3>2, AppendedFacts
      <4> QED
        BY ONLY <2>4, <4>1, RestartWellsKept DEF RestartWellsKept
    <3>3. CASE i = Len(snapshots) + 1
      <4>1. snapshots'[i] = new /\ Len(snapshots) \in DOMAIN snapshots /\ Len(snapshots) > 0
        BY <1>0, <2>3, <2>4, <3>1, <3>3, AppendedFacts
      <4>2. DOMAIN RstWells \subseteq DOMAIN snapshots[Len(snapshots)].wells
        BY ONLY <2>4, <3>1, <4>1, RestartWellsKept DEF RestartWellsKept
      <4>3. DOMAIN snapshots[Len(snapshots)].wells \subseteq DOMAIN new.wells
        BY <2>2, <4>1 DEF Appended
      <4> QED
        BY <4>1, <4>2, <4>3
    <3> QED
      BY <2>3, <2>4, <3>2, <3>3, AppendedFacts
  <2> QED
    BY <2>1, <2>4 DEF RestartWellsKept
<1>2. CASE load_rst
  <2>1. ASSUME NEW i \in DOMAIN snapshots', i >= RestartStep
        PROVE  DOMAIN RstWells \subseteq DOMAIN snapshots'[i].wells
    <3>1. i = RestartStep /\ snapshots'[i] = addRstWells(snapshots[i]) /\ i \in DOMAIN snapshots
      BY <1>2, <2>1, LoadRstFacts
    <3>2. IsSnapshot(snapshots[i])
      BY <3>1 DEF SnapshotsProper, Proper
    <3> QED
      BY <3>1, <3>2, RstWellsContinue
  <2> QED
    BY <2>1 DEF RestartWellsKept
<1>3. CASE constructed
  <2>1. UNCHANGED load_end /\ DOMAIN snapshots' = DOMAIN snapshots
    BY <1>3, ConstructedFacts
  <2>2. ASSUME NEW i \in DOMAIN snapshots' PROVE DOMAIN snapshots[i].wells \subseteq DOMAIN snapshots'[i].wells
    <3>1. CASE i = RestartStep + 1 /\ RestartStep > 0
      <4>1. snapshots'[i] = mergeEvents(snapshots[i], snapshots[RestartStep])
        BY <1>3, <3>1, ConstructedFacts
      <4>2. IsSnapshot(snapshots[i])
        BY <2>1, <2>2 DEF SnapshotsProper, Proper
      <4> QED
        BY <4>1, <4>2, MergedQuiet DEF Quiet
    <3>2. CASE ~(i = RestartStep + 1 /\ RestartStep > 0)
      <4>1. snapshots'[i] = snapshots[i]
        BY <1>0, <1>3, <2>2, <3>2, ConstructedFacts
      <4> QED
        BY <4>1
    <3> QED
      BY <3>1, <3>2
  <2> QED
    BY <2>1, <2>2 DEF RestartWellsKept
<1>4. CASE Operation
  <2>1. PICK step \in Steps : \E kws, matches : \E is_action \in BOOLEAN, iterate \in BOOLEAN :
          Adding(step, kws, matches, is_action, iterate)
    BY <1>4, OperationAdds
  <2>2. PICK kws, matches : \E is_action \in BOOLEAN, iterate \in BOOLEAN :
          Adding(step, kws, matches, is_action, iterate)
    BY <2>1
  <2>3. PICK is_action \in BOOLEAN, iterate \in BOOLEAN : Adding(step, kws, matches, is_action, iterate)
    BY <2>2
  <2>4. UNCHANGED load_end /\ step >= sim /\ mode \in {"driver", "script"}
    BY <2>3, AddKeywordsCases DEF Adding
  <2>5. CASE UNCHANGED snapshots
    BY <2>4, <2>5 DEF RestartWellsKept
  <2>6. ASSUME NEW new, Added(step, new, kws), DOMAIN snapshots[step + 1].wells \subseteq DOMAIN new.wells
        PROVE  RestartWellsKept'
    <3>1. ASSUME load_end = N, RestartStep > 0, NEW i \in DOMAIN snapshots', i >= RestartStep
          PROVE  DOMAIN RstWells \subseteq DOMAIN snapshots'[i].wells
      <4>1. i \in DOMAIN snapshots /\ snapshots'[i] = IF i = step + 1 THEN new ELSE snapshots[i]
        BY <2>6, <3>1, AddedFacts
      <4>2. DOMAIN RstWells \subseteq DOMAIN snapshots[i].wells
        BY ONLY <3>1, <4>1, RestartWellsKept DEF RestartWellsKept
      <4> QED
        BY <2>6, <4>1, <4>2
    <3> QED
      BY <2>4, <3>1 DEF RestartWellsKept
  <2> QED
    BY <2>3, <2>5, <2>6, AddingMakes
<1>5. CASE Steady
  BY <1>5 DEF Steady, RestartWellsKept
<1> QED
  BY <1>1, <1>2, <1>3, <1>4, <1>5, NextKinds

(* The inductive invariant of a schedule with its decks and restart file. *)
ReplayInv == SnapshotsProper /\ DeckLegal /\ FromRestart

(* Snapshots, decks and the restart are invariantly as they should be.     *)
LEMMA ReplayInvariant ==
  ASSUME Discipline
  PROVE  Spec => [](TypeOK /\ Shape /\ ReplayInv)
<1>1. Init => ReplayInv
  <2> SUFFICES ASSUME Init PROVE ReplayInv
    OBVIOUS
  <2>1. DeckLegal
    BY ConstantsAssumption DEF Init, DeckLegal
  <2>2. SnapshotsProper
    BY EmptyIsSeq DEF Init, SnapshotsProper
  <2>3. FromRestart
    BY ConstantsAssumption DEF Init, FromRestart, Steps
  <2> QED
    BY <2>1, <2>2, <2>3 DEF ReplayInv
<1>2. TypeOK /\ Shape /\ ReplayInv /\ [Next]_vars => ReplayInv'
  BY ProperNext, FromRestartNext DEF ReplayInv
<1> QED
  BY <1>1, <1>2, ShapeInvariant, PTL DEF Spec

(* The wells of the restart file are entered in one snapshot only, and no  *)
(* replay, action or script ever loses them: every replay starts from a    *)
(* snapshot that has them, and no keyword removes a well.                  *)
THEOREM RestartWellsStay ==
  ASSUME Discipline
  PROVE  Spec => []RestartWellsKept
<1>1. Init => RestartWellsKept
  BY EmptyIsSeq DEF Init, RestartWellsKept
<1>2. TypeOK /\ Shape /\ ReplayInv /\ RestartWellsKept /\ [Next]_vars => RestartWellsKept'
  BY RestartWellsNext DEF ReplayInv
<1> QED
  BY <1>1, <1>2, ReplayInvariant, PTL DEF Spec

-----------------------------------------------------------------------------
(***************************************************************************)
(* Coherence.  With a restart file the constructor itself edits two steps, *)
(* the one whose snapshot takes the wells of the file and the restart step *)
(* that takes over its events.                                             *)
(***************************************************************************)
EditedByConstructor ==
  mode = "construct" =>
    edited = IF load_end = N /\ RestartStep > 0 THEN {RestartStep - 1, RestartStep} ELSE {}

(* Nothing is edited while the constructor reads the deck.                 *)
LEMMA EditedNext ==
  ASSUME Discipline, TypeOK, Shape, SnapshotsProper, EditedByConstructor, [Next]_vars
  PROVE  EditedByConstructor'
<1>0. /\ RestartStep \in Nat /\ N \in Nat /\ load_end \in Nat
  BY ConstantsAssumption DEF TypeOK, Steps
<1>1. CASE iterateScheduleSection
  BY <1>1 DEF iterateScheduleSection, EditedByConstructor
<1>2. CASE load_rst
  BY <1>2, <1>0 DEF load_rst, EditedByConstructor
<1>3. CASE constructed
  BY <1>3 DEF constructed, EditedByConstructor
<1>4. CASE Operation
  <2>1. PICK step \in Steps : \E kws, matches : \E is_action \in BOOLEAN, iterate \in BOOLEAN :
          Adding(step, kws, matches, is_action, iterate)
    BY <1>4, OperationAdds
  <2>2. PICK kws, matches : \E is_action \in BOOLEAN, iterate \in BOOLEAN :
          Adding(step, kws, matches, is_action, iterate)
    BY <2>1
  <2>3. PICK is_action \in BOOLEAN, iterate \in BOOLEAN : Adding(step, kws, matches, is_action, iterate)
    BY <2>2
  <2>4. mode' \in {mode, "failed", "crashed"} /\ mode \in {"driver", "script"}
    BY <2>3, AddKeywordsMakes DEF Adding
  <2> QED
    BY <2>4 DEF EditedByConstructor
<1>5. CASE Steady
  BY <1>5 DEF Steady, EditedByConstructor
<1> QED
  BY <1>1, <1>2, <1>3, <1>4, <1>5, NextKinds

(* The events a snapshot has do not persist. *)
LEMMA MergedNext ==
  ASSUME NEW s, IsSnapshot(s), NEW prev, NEW k
  PROVE  create_next(mergeEvents(s, prev), k) = create_next(s, k)
<1> DEFINE m == mergeEvents(s, prev)
<1>1. DOMAIN s = {"sim_step", "month", "first_in_month", "first_in_year", "wells", "events",
                  "wellgroup_events", "next_tstep", "actions", "pyaction", "rst_config", "save"}
  BY SnapshotFields DEF IsSnapshot
<1>2. /\ DOMAIN m = DOMAIN s
      /\ \A f \in DOMAIN s : f \notin {"events", "wellgroup_events"} => m[f] = s[f]
  BY <1>1 DEF mergeEvents
<1>3. m.month = s.month /\ m.next_tstep = s.next_tstep /\ m.sim_step = s.sim_step
  BY <1>1, <1>2
<1> HIDE DEF m
<1>4. create_next(m, k) = create_next(s, k)
  BY <1>1, <1>2, <1>3 DEF create_next
<1> QED
  BY <1>4 DEF m

(* The snapshot that takes the wells counts as edited.                     *)
LEMMA CoherentLoadRst ==
  ASSUME TypeOK, Shape, EditedByConstructor, Coherent, load_rst
  PROVE  Coherent'
<1>1. edited = {} /\ edited' = {RestartStep - 1, RestartStep} /\ UNCHANGED input
  BY ConstantsAssumption DEF load_rst, EditedByConstructor, TypeOK, Steps
<1>2. ASSUME NEW i \in DOMAIN snapshots', i - 1 \notin edited'
      PROVE  snapshots'[i] = Expected(snapshots', input', i)
  <2>1. RestartStep \in Nat /\ i \in 1 .. RestartStep - 1 /\ i \in DOMAIN snapshots
    BY <1>1, <1>2, LoadRstFacts
  <2>2. snapshots[i] = Expected(snapshots, input, i)
    BY <1>1, <2>1 DEF Coherent, Expected
  <2>3. snapshots'[i] = snapshots[i] /\ (i # 1 => snapshots'[i - 1] = snapshots[i - 1])
    BY <2>1, LoadRstFacts
  <2> QED
    BY <1>1, <2>2, <2>3 DEF Expected
<1> QED
  BY <1>2 DEF Coherent, Expected

(* So does the one that takes over the events; the next does not see them. *)
LEMMA CoherentConstructed ==
  ASSUME TypeOK, Shape, SnapshotsProper, EditedByConstructor, Coherent, constructed
  PROVE  Coherent'
<1>0. RestartStep \in Nat
  BY ConstantsAssumption DEF Steps
<1>1. UNCHANGED <<edited, input>> /\ (RestartStep > 0 => edited = {RestartStep - 1, RestartStep})
  BY DEF constructed, EditedByConstructor
<1>2. ASSUME NEW i \in DOMAIN snapshots', i - 1 \notin edited'
      PROVE  snapshots'[i] = Expected(snapshots', input', i)
  <2>1. i \in Nat /\ i \in DOMAIN snapshots /\ i \in 1 .. N /\ DOMAIN snapshots = 1 .. N /\ N \in Nat
    BY <1>2, ConstructedFacts, ConstantsAssumption
  <2>2. RestartStep = 0 \/ i \notin {RestartStep, RestartStep + 1}
    BY <1>0, <1>1, <1>2, <2>1
  <2>3. snapshots'[i] = snapshots[i]
    BY <2>1, <2>2, ConstructedFacts
  <2>4. snapshots[i] = Expected(snapshots, input, i)
    BY <1>1, <1>2, <2>1 DEF Coherent, Expected
  <2>5. ASSUME i # 1
        PROVE  create_next(snapshots'[i - 1], i - 1) = create_next(snapshots[i - 1], i - 1)
    <3> DEFINE j == i - 1
    <3>1. j \in 1 .. N
      BY <2>1, <2>5
    <3> HIDE DEF j
    <3>2. CASE j = RestartStep + 1 /\ RestartStep > 0
      <4>1. IsSnapshot(snapshots[j])
        BY <2>1, <3>1 DEF SnapshotsProper, Proper
      <4>2. snapshots'[j] = mergeEvents(snapshots[j], snapshots[RestartStep])
        BY <3>2, ConstructedFacts
      <4>3. create_next(snapshots'[j], j) = create_next(snapshots[j], j)
        BY <4>1, <4>2, MergedNext
      <4> QED
        BY <4>3 DEF j
    <3>3. CASE ~(j = RestartStep + 1 /\ RestartStep > 0)
      <4>1. snapshots'[j] = snapshots[j]
        BY <1>0, <3>1, <3>3, ConstructedFacts
      <4> QED
        BY <4>1 DEF j
    <3> QED
      BY <3>2, <3>3
  <2> QED
    BY <1>1, <2>3, <2>4, <2>5 DEF Expected
<1> QED
  BY <1>2 DEF Coherent, Expected

(* Every step leaves the snapshots coherent.                               *)
LEMMA CoherentNext ==
  ASSUME Discipline, TypeOK, Shape, SnapshotsProper, NothingDropped, EditedByConstructor,
         Coherent, [Next]_vars
  PROVE  Coherent'
<1>1. CASE iterateScheduleSection
  BY <1>1, CoherentIterate
<1>2. CASE load_rst
  BY <1>2, CoherentLoadRst
<1>3. CASE constructed
  BY <1>3, CoherentConstructed
<1>4. CASE Operation
  <2>1. PICK step \in Steps : \E kws, matches : \E is_action \in BOOLEAN, iterate \in BOOLEAN :
          Adding(step, kws, matches, is_action, iterate)
    BY <1>4, OperationAdds
  <2>2. PICK kws, matches : \E is_action \in BOOLEAN, iterate \in BOOLEAN :
          Adding(step, kws, matches, is_action, iterate)
    BY <2>1
  <2>3. PICK is_action \in BOOLEAN, iterate \in BOOLEAN : Adding(step, kws, matches, is_action, iterate)
    BY <2>2
  <2> QED
    BY <2>3, CoherentAddKeywords DEF Adding
<1>5. CASE Steady
  BY <1>5 DEF Steady, Coherent
<1> QED
  BY <1>1, <1>2, <1>3, <1>4, <1>5, NextKinds

(* The schedule always holds every keyword it was given.                   *)
LEMMA KeptInvariant ==
  ASSUME Discipline, KeywordsAreKept
  PROVE  Spec => []NothingDropped
<1>1. Init => NothingDropped
  BY DEF Init, NothingDropped
<1>2. TypeOK /\ Shape /\ NothingDropped /\ [Next]_vars => NothingDropped'
  BY NextDropsNothing
<1> QED
  BY <1>1, <1>2, ShapeInvariant, PTL DEF Spec

(* When the keywords are kept and the calls respect the discipline, every  *)
(* snapshot that was not edited itself is its predecessor taken through    *)
(* all the keywords ever given for its step: whatever sequence of actions, *)
(* scripts, insertions and replays led to it, from a deck alone or from a  *)
(* restart file, nothing is forgotten and nothing is handled twice.        *)
THEOREM ReplaysCoherent ==
  ASSUME Discipline, KeywordsAreKept
  PROVE  Spec => []Coherent
<1>1. Init => EditedByConstructor /\ Coherent
  <2> SUFFICES ASSUME Init PROVE EditedByConstructor /\ Coherent
    OBVIOUS
  <2>1. Coherent
    BY EmptyIsSeq DEF Init, Coherent
  <2>2. EditedByConstructor
    BY ConstantsAssumption DEF Init, EditedByConstructor, Steps
  <2> QED
    BY <2>1, <2>2
<1>2. TypeOK /\ Shape /\ ReplayInv /\ EditedByConstructor /\ [Next]_vars => EditedByConstructor'
  BY EditedNext DEF ReplayInv
<1>3. TypeOK /\ Shape /\ ReplayInv /\ NothingDropped /\ EditedByConstructor /\ Coherent /\ [Next]_vars
      => Coherent'
  BY CoherentNext DEF ReplayInv
<1> QED
  BY <1>1, <1>2, <1>3, ReplayInvariant, KeptInvariant, PTL DEF Spec

-----------------------------------------------------------------------------
(***************************************************************************)
(* Restart output.  Whether a restart file is due at a step depends on the *)
(* restart output that the keywords up to the step before configure, on    *)
(* dates, and on the previous restart file.  A replay finds them as the    *)
(* constructor did.                                                        *)
(***************************************************************************)
LEMMA HasLargest ==
  ASSUME NEW n \in Nat, NEW S \in SUBSET (0 .. n), S # {}
  PROVE  Max(S) \in S
<1> DEFINE T == {n - x : x \in S}
<1>1. T \in SUBSET Nat /\ T # {}
  <2>1. \A x \in S : x \in 0 .. n
    OBVIOUS
  <2>2. \A x \in S : n - x \in Nat
    BY <2>1
  <2> QED
    BY <2>2
<1> HIDE DEF T
<1>2. PICK y \in T : \A z \in T : y <= z
  BY ONLY <1>1, Configuring!Least
<1>3. PICK x \in S : y = n - x
  BY DEF T
<1>4. \A z \in S : x >= z
  <2>1. ASSUME NEW z \in S PROVE x >= z
    <3>1. n - z \in T
      BY DEF T
    <3> QED
      BY <1>2, <1>3, <3>1
  <2> QED
    BY <2>1
<1>5. \E m \in S : \A z \in S : m >= z
  BY <1>4
<1> QED
  BY <1>5 DEF Max

(* The previous restart file belongs to an earlier step.                   *)
LEMMA LastBefore ==
  ASSUME NEW out, out \subseteq Steps, NEW k \in Nat, k > 0
  PROVE  previous_restart_output_step(out, k) \in 0 .. k - 1
<1> DEFINE before == {i \in out : i < k}
<1>1. before \in SUBSET (0 .. k)
  <2>1. \A i \in before : i \in Nat /\ i < k
    BY ConstantsAssumption DEF Steps
  <2> QED
    BY <2>1
<1>2. before # {} => Max(before) \in before
  BY <1>1, HasLargest
<1> QED
  BY <1>1, <1>2 DEF previous_restart_output_step

(* Later restart files are not looked at.                                  *)
LEMMA SameBefore ==
  ASSUME NEW out, out \subseteq Steps, NEW more, NEW k \in Nat, NEW i \in Nat, k <= i,
         more \subseteq out \cup {i}, out \subseteq more
  PROVE  previous_restart_output_step(more, k) = previous_restart_output_step(out, k)
<1>1. \A j \in more : j < k => j \in out
  BY ConstantsAssumption DEF Steps
<1>2. {j \in more : j < k} = {j \in out : j < k}
  BY <1>1
<1> QED
  BY <1>2 DEF previous_restart_output_step

(* The dates of a report step. *)
Date(k) == [sim_step |-> k, month |-> Month[k],
            first_in_month |-> IF k = 0 THEN TRUE ELSE Month[k] > Month[k - 1],
            first_in_year |-> IF k = 0 THEN TRUE ELSE Year(Month[k]) > Year(Month[k - 1])]

(* The restart output that the keywords up to each step configure. *)
Configures(configs, deck) ==
  /\ configs[0] = After(NoRstConfig, deck[0])
  /\ \A k \in Steps : k # 0 => configs[k] = After(configs[k - 1], deck[k])

Due(configs, out, k) ==
  CASE OutputInterval > 0 /\ k > 0 -> k % OutputInterval = 0
    [] k = 0 -> SolutionOutput
    [] OTHER -> rst_file(Date(k), configs[k - 1], Month[previous_restart_output_step(out, k)])

(* The constructor comes to the steps one by one. *)
Decided(k) == mode \in {"driver", "script"} \/ (mode = "construct" /\ k < report_step)

OutputsDecided(configs) ==
  /\ Configures(configs, m_sched_deck)
  /\ \A i \in DOMAIN snapshots : snapshots[i].rst_config = configs[i - 1]
  /\ \A k \in Steps : Decided(k) /\ Due(configs, restart_output, k) => k \in restart_output

(* Only the dates of a snapshot count.                                     *)
LEMMA RstFileDated ==
  ASSUME NEW k \in Nat, k # 0, NEW s, Dated(s, k), NEW cfg, NEW month
  PROVE  rst_file(s, cfg, month) = rst_file(Date(k), cfg, month)
<1> DEFINE d == Date(k)
<1>1. d.sim_step = k /\ d.month = Month[k]
      /\ d.first_in_month = (Month[k] > Month[k - 1])
      /\ d.first_in_year = (Year(Month[k]) > Year(Month[k - 1]))
  BY DEF Date
<1> HIDE DEF d
<1>2. /\ s.sim_step = d.sim_step /\ s.month = d.month
      /\ s.first_in_month = d.first_in_month /\ s.first_in_year = d.first_in_year
  BY <1>1 DEF Dated
<1>3. rst_file(s, cfg, month) = rst_file(d, cfg, month)
  BY <1>2, Zenon DEF rst_file
<1> QED
  BY <1>3 DEF d

(* The decision of iterateScheduleSection. *)
LEMMA WrittenWhenDue ==
  ASSUME TypeOK, NEW configs, NEW k \in Steps, NEW snaps, IsSeq(snaps), Len(snaps) = k + 1,
         \A i \in DOMAIN snaps : Proper(snaps[i], i - 1),
         \A i \in DOMAIN snaps : snaps[i].rst_config = configs[i - 1]
  PROVE  must_write_rst_file(snaps, restart_output, k) <=> Due(configs, restart_output, k)
<1>1. k \in Nat /\ DOMAIN snaps = 1 .. k + 1 /\ OutputInterval \in Nat
  BY SeqHasLen, ConstantsAssumption DEF Steps
<1>2. CASE k = 0
  BY <1>1, <1>2 DEF must_write_rst_file, Due
<1>3. CASE OutputInterval > 0 /\ k > 0
  BY <1>1, <1>3 DEF must_write_rst_file, Due
<1>4. CASE k > 0 /\ ~(OutputInterval > 0)
  <2> DEFINE last == previous_restart_output_step(restart_output, k)
  <2>1. last \in 0 .. k - 1
    BY <1>1, <1>4, LastBefore DEF TypeOK
  <2> HIDE DEF last
  <2>2. snaps[last + 1].month = Month[last]
    <3>1. ASSUME NEW i, i = last + 1 PROVE snaps[i].month = Month[last]
      <4>1. i \in DOMAIN snaps /\ i - 1 = last
        BY <1>1, <2>1, <3>1
      <4>2. Proper(snaps[i], last)
        BY <4>1
      <4> QED
        BY <4>2 DEF Proper, Dated
    <3> QED
      BY <3>1
  <2>3. Dated(snaps[k + 1], k)
    <3>1. ASSUME NEW i, i = k + 1 PROVE Dated(snaps[i], k)
      <4>1. i \in DOMAIN snaps /\ i - 1 = k
        BY <1>1, <3>1
      <4> QED
        BY <4>1 DEF Proper
    <3> QED
      BY <3>1
  <2>4. snaps[k].rst_config = configs[k - 1]
    BY <1>1, <1>4
  <2>5. must_write_rst_file(snaps, restart_output, k)
          = rst_file(snaps[k + 1], snaps[k].rst_config, snaps[last + 1].month)
    BY <1>1, <1>4 DEF must_write_rst_file, last
  <2>6. Due(configs, restart_output, k) = rst_file(Date(k), configs[k - 1], Month[last])
    BY <1>1, <1>4 DEF Due, last
  <2>7. rst_file(snaps[k + 1], configs[k - 1], Month[last]) = rst_file(Date(k), configs[k - 1], Month[last])
    BY <1>1, <1>4, <2>3, RstFileDated
  <2> QED
    BY <2>2, <2>4, <2>5, <2>6, <2>7
<1> QED
  BY <1>1, <1>2, <1>3, <1>4

(* An iteration decides on a step, or repeats the decision.                *)
LEMMA OutputsIterate ==
  ASSUME TypeOK, Shape, SnapshotsProper, SnapshotsProper', TypeOK', DeckLegal, KeywordsAreKept,
         NothingDropped, NEW configs, OutputsDecided(configs), iterateScheduleSection
  PROVE  /\ OutputsDecided(configs)'
         /\ mode # "construct" => restart_output' = restart_output
<1> DEFINE k == report_step
<1>1. /\ Len(snapshots) = k /\ k \in Steps /\ k \in Nat /\ N \in Nat
      /\ DOMAIN snapshots = 1 .. k /\ mode \in {"construct", "driver", "script"}
  BY IterationAppends, SeqHasLen, ConstantsAssumption DEF TypeOK, IsSeq, Steps, iterateScheduleSection
<1>2. m_sched_deck' = m_sched_deck /\ mode' = mode /\ report_step' = k + 1
  BY KeptWhileConstructing DEF iterateScheduleSection
<1>3. PICK new : Appended(new)
  BY IterationAppends
<1>4. /\ DOMAIN snapshots' = 1 .. k + 1
      /\ \A i \in 1 .. k : snapshots'[i] = snapshots[i]
      /\ snapshots'[k + 1] = new
  BY <1>1, <1>3, AppendedFacts DEF Appended
<1>5. new.rst_config = configs[k]
  <2>1. CASE k = 0
    BY <1>1, <1>3, <2>1 DEF Appended, OutputsDecided, Configures
  <2>2. CASE k # 0
    <3>1. new.rst_config = After(snapshots[k].rst_config, m_sched_deck[k])
      BY <1>1, <1>3, <2>2 DEF Appended
    <3>2. snapshots[k].rst_config = configs[k - 1]
      BY <1>1, <2>2 DEF OutputsDecided
    <3>3. configs[k] = After(configs[k - 1], m_sched_deck[k])
      BY <1>1, <2>2 DEF OutputsDecided, Configures
    <3> QED
      BY <3>1, <3>2, <3>3
  <2> QED
    BY <2>1, <2>2
<1>6. \A i \in DOMAIN snapshots' : snapshots'[i].rst_config = configs[i - 1]
  <2>1. ASSUME NEW i \in DOMAIN snapshots' PROVE snapshots'[i].rst_config = configs[i - 1]
    <3>1. CASE i = k + 1
      <4>1. i - 1 = k /\ snapshots'[i] = new
        BY <1>1, <1>4, <3>1
      <4> QED
        BY <1>5, <4>1
    <3>2. CASE i # k + 1
      <4>1. snapshots'[i] = snapshots[i] /\ i \in DOMAIN snapshots
        BY <1>1, <1>4, <2>1, <3>2
      <4> QED
        BY <4>1 DEF OutputsDecided
    <3> QED
      BY <3>1, <3>2
  <2> QED
    BY <2>1
<1>7. must_write_rst_file(snapshots', restart_output, k) <=> Due(configs, restart_output, k)
  <2>1. IsSeq(snapshots') /\ Len(snapshots') = k + 1
    BY <1>1, <1>4, SeqHasLen DEF TypeOK, IsSeq
  <2>2. \A i \in DOMAIN snapshots' : Proper(snapshots'[i], i - 1)
    BY DEF SnapshotsProper
  <2> QED
    BY <1>1, <1>6, <2>1, <2>2, WrittenWhenDue
<1>8. restart_output' = IF Due(configs, restart_output, k) THEN restart_output \cup {k} ELSE restart_output
  BY <1>7 DEF iterateScheduleSection
<1>9. ASSUME NEW i \in Steps, i <= k PROVE Due(configs, restart_output', i) <=> Due(configs, restart_output, i)
  <2>1. CASE i = 0
    BY <2>1 DEF Due
  <2>2. CASE i # 0
    <3>1. previous_restart_output_step(restart_output', i) = previous_restart_output_step(restart_output, i)
      <4>1. i \in Nat /\ restart_output \subseteq Steps
        BY ConstantsAssumption DEF Steps, TypeOK
      <4> QED
        BY <1>1, <1>8, <1>9, <4>1, SameBefore
    <3> QED
      BY <3>1 DEF Due
  <2> QED
    BY <2>1, <2>2
<1>10. CASE mode = "construct"
  <2>1. ASSUME NEW i \in Steps, Decided(i)', Due(configs, restart_output', i)
        PROVE  i \in restart_output'
    <3>1. i \in Nat /\ i <= k /\ Due(configs, restart_output, i)
      BY <1>1, <1>2, <1>9, <1>10, <2>1, ConstantsAssumption DEF Decided, Steps
    <3>2. CASE i = k
      BY <1>8, <3>1, <3>2
    <3>3. CASE i # k
      <4>1. Decided(i)
        BY <1>1, <1>10, <3>1, <3>3 DEF Decided
      <4>2. i \in restart_output
        BY <3>1, <4>1 DEF OutputsDecided
      <4> QED
        BY <1>8, <4>2
    <3> QED
      BY <3>2, <3>3
  <2> QED
    BY <1>2, <1>6, <1>10, <2>1 DEF OutputsDecided
<1>11. CASE mode # "construct"
  <2>1. \A i \in Steps : Decided(i)
    BY <1>1, <1>11 DEF Decided
  <2>2. restart_output' = restart_output
    BY <1>1, <1>8, <2>1 DEF OutputsDecided
  <2> QED
    BY <1>2, <1>6, <2>1, <2>2 DEF OutputsDecided
<1> QED
  BY <1>10, <1>11

(* The restart file of the previous run changes no decision.               *)
LEMMA OutputsLoadRst ==
  ASSUME TypeOK, Shape, SnapshotsProper, NEW configs, OutputsDecided(configs), load_rst
  PROVE  OutputsDecided(configs)'
<1>1. ASSUME NEW i \in DOMAIN snapshots' PROVE snapshots'[i].rst_config = configs[i - 1]
  <2>1. i \in DOMAIN snapshots /\ RestartStep \in Nat
    BY <1>1, LoadRstFacts
  <2>2. snapshots[i].rst_config = configs[i - 1] /\ IsSnapshot(snapshots[i])
    BY <2>1 DEF OutputsDecided, SnapshotsProper, Proper
  <2>3. CASE i = RestartStep
    <3>1. snapshots'[i] = addRstWells(snapshots[i])
      BY <2>3, LoadRstFacts
    <3> QED
      BY <2>2, <3>1, RstWellsContinue DEF Quiet
  <2>4. CASE i # RestartStep
    <3>1. snapshots'[i] = snapshots[i]
      BY <2>1, <2>4, LoadRstFacts
    <3> QED
      BY <2>2, <3>1
  <2> QED
    BY <2>3, <2>4
<1>2. /\ mode = "construct" /\ mode' = "construct" /\ UNCHANGED <<m_sched_deck, report_step>>
      /\ restart_output' = restart_output \cup {RestartStep} /\ report_step = RestartStep
      /\ RestartStep \in Nat /\ restart_output \subseteq Steps
  BY LoadRstFacts DEF load_rst, TypeOK
<1>3. ASSUME NEW i \in Steps, Decided(i)', Due(configs, restart_output', i)
      PROVE  i \in restart_output'
  <2>1. i \in Nat /\ i <= RestartStep /\ Decided(i)
    BY <1>2, <1>3, ConstantsAssumption DEF Decided, Steps
  <2>2. previous_restart_output_step(restart_output', i) = previous_restart_output_step(restart_output, i)
    BY <1>2, <2>1, SameBefore
  <2>3. Due(configs, restart_output, i)
    BY <1>3, <2>2 DEF Due
  <2>4. i \in restart_output
    BY <2>1, <2>3 DEF OutputsDecided
  <2> QED
    BY <1>2, <2>4
<1> QED
  BY <1>1, <1>2, <1>3 DEF OutputsDecided

(* When the schedule is constructed every step has been decided on.        *)
LEMMA OutputsConstructed ==
  ASSUME TypeOK, Shape, SnapshotsProper, NEW configs, OutputsDecided(configs), constructed
  PROVE  OutputsDecided(configs)'
<1>1. ASSUME NEW i \in DOMAIN snapshots' PROVE snapshots'[i].rst_config = configs[i - 1]
  <2>1. i \in DOMAIN snapshots /\ i \in 1 .. N /\ RestartStep \in Nat
    BY <1>1, ConstructedFacts, ConstantsAssumption DEF Steps
  <2>2. snapshots[i].rst_config = configs[i - 1] /\ IsSnapshot(snapshots[i])
    BY <2>1 DEF OutputsDecided, SnapshotsProper, Proper
  <2>3. CASE i = RestartStep + 1 /\ RestartStep > 0
    <3>1. snapshots'[i] = mergeEvents(snapshots[i], snapshots[RestartStep])
      BY <2>3, ConstructedFacts
    <3> QED
      BY <2>2, <3>1, MergedQuiet DEF Quiet
  <2>4. CASE ~(i = RestartStep + 1 /\ RestartStep > 0)
    <3>1. snapshots'[i] = snapshots[i]
      BY <2>1, <2>4, ConstructedFacts
    <3> QED
      BY <2>2, <3>1
  <2> QED
    BY <2>3, <2>4
<1>2. UNCHANGED <<m_sched_deck, restart_output>> /\ mode = "construct" /\ report_step = N
  BY ConstructedFacts
<1>3. \A i \in Steps : Decided(i)
  BY <1>2, ConstantsAssumption DEF Decided, Steps
<1> QED
  BY <1>1, <1>2, <1>3 DEF OutputsDecided

(* An operation changes no decision.                                       *)
LEMMA OutputsOperation ==
  ASSUME Discipline, TypeOK, Shape, SnapshotsProper, DeckLegal, NEW configs, OutputsDecided(configs),
         NEW step \in Steps, NEW kws, NEW matches, NEW is_action \in BOOLEAN, NEW iterate \in BOOLEAN,
         Adding(step, kws, matches, is_action, iterate)
  PROVE  /\ OutputsDecided(configs)'
         /\ restart_output' = restart_output
<1>1. restart_output' = restart_output /\ mode \in {"driver", "script"}
  BY AddKeywordsCases DEF Adding
<1>2. \A i \in Steps : Decided(i)
  BY <1>1 DEF Decided
<1>3. \A i \in Steps : Due(configs, restart_output', i) => i \in restart_output'
  BY <1>1, <1>2 DEF OutputsDecided
<1>4. CASE UNCHANGED <<snapshots, m_sched_deck>>
  BY <1>1, <1>3, <1>4 DEF OutputsDecided
<1>5. ASSUME NEW new, Added(step, new, kws), new.rst_config = snapshots[step + 1].rst_config
      PROVE  OutputsDecided(configs)'
  <2>1. ASSUME NEW i \in DOMAIN snapshots' PROVE snapshots'[i].rst_config = configs[i - 1]
    <3>1. i \in DOMAIN snapshots /\ snapshots'[i] = IF i = step + 1 THEN new ELSE snapshots[i]
      BY <1>5, <2>1, AddedFacts
    <3>2. snapshots[i].rst_config = configs[i - 1]
      BY <3>1 DEF OutputsDecided
    <3> QED
      BY <1>5, <3>1, <3>2
  <2>2. ASSUME NEW k \in Steps, NEW c PROVE After(c, m_sched_deck'[k]) = After(c, m_sched_deck[k])
    <3>1. m_sched_deck' = [m_sched_deck EXCEPT ![step] = @ \o kws] /\ DOMAIN m_sched_deck = Steps
      BY <1>5 DEF Added, TypeOK
    <3>2. LegalBlock(m_sched_deck[k]) /\ Listed(kws, actionx_allowed_list)
      BY DEF DeckLegal, Adding
    <3>3. After(c, m_sched_deck[k] \o kws) = After(c, m_sched_deck[k])
      BY ONLY <3>2, AfterMore
    <3> QED
      BY <3>1, <3>3
  <2>3. Configures(configs, m_sched_deck')
    <3>1. 0 \in Steps
      BY ConstantsAssumption DEF Steps
    <3> QED
      BY <2>2, <3>1 DEF OutputsDecided, Configures
  <2> QED
    BY <1>3, <2>1, <2>3 DEF OutputsDecided
<1> QED
  BY <1>1, <1>4, <1>5, AddingMakes

(* The simulator changes no decision.                                      *)
LEMMA OutputsSteady ==
  ASSUME TypeOK, NEW configs, OutputsDecided(configs), Steady
  PROVE  OutputsDecided(configs)' /\ restart_output' = restart_output
<1>1. UNCHANGED <<m_sched_deck, snapshots, restart_output>>
  BY DEF Steady
<1>2. \A k \in Steps : Decided(k)' => Decided(k)
  BY DEF Steady, Decided
<1> QED
  BY <1>1, <1>2 DEF OutputsDecided

(* No step changes a decision, and no replay the restart files.            *)
LEMMA OutputsNext ==
  ASSUME Discipline, KeywordsAreKept, TypeOK, TypeOK', Shape, ReplayInv, ReplayInv', NothingDropped,
         NEW configs, OutputsDecided(configs), [Next]_vars
  PROVE  /\ OutputsDecided(configs)'
         /\ mode # "construct" => restart_output' = restart_output
<1>1. SnapshotsProper /\ SnapshotsProper' /\ DeckLegal
  BY DEF ReplayInv
<1>2. CASE iterateScheduleSection
  BY <1>1, <1>2, OutputsIterate
<1>3. CASE load_rst
  BY <1>1, <1>3, OutputsLoadRst, LoadRstFacts
<1>4. CASE constructed
  BY <1>1, <1>4, OutputsConstructed, ConstructedFacts
<1>5. CASE Operation
  <2>1. PICK step \in Steps : \E kws, matches : \E is_action \in BOOLEAN, iterate \in BOOLEAN :
          Adding(step, kws, matches, is_action, iterate)
    BY <1>1, <1>5, OperationAdds
  <2>2. PICK kws, matches : \E is_action \in BOOLEAN, iterate \in BOOLEAN :
          Adding(step, kws, matches, is_action, iterate)
    BY <2>1
  <2>3. PICK is_action \in BOOLEAN, iterate \in BOOLEAN : Adding(step, kws, matches, is_action, iterate)
    BY <2>2
  <2> QED
    BY <1>1, <2>3, OutputsOperation
<1>6. CASE Steady
  BY <1>6, OutputsSteady
<1> QED
  BY <1>2, <1>3, <1>4, <1>5, <1>6, NextKinds

(* The deck, as far as it is known, decides on all restart output. *)
OutputsInv == \E configs : OutputsDecided(configs)

ConfiguringOp(deck, c, k) == After(c, deck[k])
Configurations == INSTANCE Recursion WITH Op <- ConfiguringOp, Inv <- ConfigInv

(* The deck determines what is configured at each step.                    *)
LEMMA OutputsInit == Init => OutputsInv
<1> SUFFICES ASSUME Init PROVE OutputsInv
  OBVIOUS
<1> DEFINE hi == N - 1
           base == After(NoRstConfig, m_sched_deck[0])
           C == Configurations!Chain(m_sched_deck, base, 0, hi)
<1>1. hi \in Nat /\ Steps = 0 .. hi
  BY ConstantsAssumption DEF Steps
<1> HIDE DEF hi, base
<1>2. C = [k \in 0 .. hi |-> IF k = 0 THEN base ELSE ConfiguringOp(m_sched_deck, C[k - 1], k)]
  BY ONLY <1>1, Configurations!ChainSteps
<1> HIDE DEF C
<1>3. Configures(C, m_sched_deck)
  BY <1>1, <1>2 DEF base, ConfiguringOp, Configures
<1>4. \A k \in Steps : ~Decided(k)
  BY ConstantsAssumption DEF Init, Decided, Steps
<1>5. DOMAIN snapshots = {}
  BY DEF Init
<1>6. OutputsDecided(C)
  BY <1>3, <1>4, <1>5 DEF OutputsDecided
<1> QED
  BY <1>6 DEF OutputsInv

(* When the keywords are kept and the calls respect the discipline, every  *)
(* replay asks for the restart files of the constructor and for no others, *)
(* although it decides on each of them anew: no keyword that an action or  *)
(* a script may hold configures restart output.                            *)
THEOREM RestartOutputKept ==
  ASSUME Discipline, KeywordsAreKept
  PROVE  Spec => RestartOutputStable
<1> DEFINE Kept == mode # "construct" => restart_output' = restart_output
<1>1. TypeOK /\ TypeOK' /\ Shape /\ ReplayInv /\ ReplayInv' /\ NothingDropped /\ OutputsInv /\ [Next]_vars
      => OutputsInv' /\ [Kept]_vars
  <2> SUFFICES ASSUME TypeOK, TypeOK', Shape, ReplayInv, ReplayInv', NothingDropped, OutputsInv, [Next]_vars
               PROVE  OutputsInv' /\ Kept
    OBVIOUS
  <2>1. PICK configs : OutputsDecided(configs)
    BY DEF OutputsInv
  <2>2. OutputsDecided(configs)' /\ Kept
    BY <2>1, OutputsNext
  <2>3. OutputsInv'
    BY <2>2 DEF OutputsInv
  <2> QED
    BY <2>2, <2>3
<1> QED
  BY <1>1, OutputsInit, ReplayInvariant, KeptInvariant, PTL DEF Spec, RestartOutputStable

-----------------------------------------------------------------------------
(***************************************************************************)
(* The timeline.  ScheduleTimeline has the keyword handlers of its own     *)
(* copy of ScheduleState; they are the same, operator by operator.  The    *)
(* completion of a schedule is the one sequence of N states that begins    *)
(* with its snapshots and in which each later state follows from the one   *)
(* before; what a replay appends is the next of these states.  Until the   *)
(* restart file is read, that is the first part of the timeline, up to the *)
(* restart step.                                                           *)
(***************************************************************************)
ExtendOp(p, t, i) ==
  Append(t, IF t # << >> /\ Timeline!IsFailed(Timeline!Last(t)) THEN Timeline!FAILED
            ELSE Timeline!processBlock(Timeline!create(t, i), p.kws[i]))

(* The state of the step after the first i - 1 of t. *)
Following(t, i, kws) ==
  IF i > 1 /\ IsFailed(t[i - 1]) THEN FAILED
  ELSE processBlock(IF i = 1 THEN create_first ELSE create_next(t[i - 1], i - 1), kws[i - 1])

Extends(t, n, prefix, kws) ==
  /\ IsSeq(t) /\ Len(t) = n
  /\ \A i \in 1 .. Len(prefix) : t[i] = prefix[i]
  /\ \A i \in Len(prefix) + 1 .. n : t[i] = Following(t, i, kws)

ExtendInv(p, k, t) == Extends(t, Len(p.prefix) + k, p.prefix, p.kws)

Extending == INSTANCE Recursion WITH Op <- ExtendOp, Inv <- ExtendInv

Missing(prefix, n) == [j \in 1 .. n - Len(prefix) |-> Len(prefix) + j - 1]

(* The completion is a fold over the missing steps.                        *)
LEMMA CompleteFolds ==
  ASSUME NEW prefix, NEW kws, NEW n
  PROVE  Timeline!Extend(prefix, kws, n)
           = Extending!Fold([kws |-> kws, prefix |-> prefix], prefix, Missing(prefix, n))
BY DEF Timeline!Extend, Extending!Fold, Missing, ExtendOp, 
  FoldLeft, MapThenFoldSet, Max, Timeline!FoldLeft, Timeline!MapThenFoldSet, Timeline!Max,
  Extending!MapThenFoldSet, Extending!Max

(* The two copies of ScheduleState start a step alike.                     *)
LEMMA SameStart ==
  ASSUME NEW t, NEW i
  PROVE  Timeline!create(t, i) = create(t, i)
  BY DEF Timeline!create, create, Timeline!create_next, create_next, Timeline!Last, Last,
         Timeline!create_first, create_first, Timeline!NoRstConfig, NoRstConfig,
         Timeline!Year, Year, Timeline!NONE, NONE, Timeline!NotSet, NotSet

(* They mark failures alike.                                               *)
LEMMA SameFailed ==
  /\ \A s : Timeline!IsFailed(s) <=> IsFailed(s)
  /\ Timeline!FAILED = FAILED
  /\ \A t : Timeline!Last(t) = Last(t)
  BY DEF Timeline!IsFailed, IsFailed, Timeline!FAILED, FAILED, Timeline!Last, Last

(* They handle keywords alike.                                             *)
LEMMA SameHandled ==
  ASSUME NEW s, NEW kws, NEW matches
  PROVE  Timeline!handleKeywords(s, kws, matches) = handleKeywords(s, kws, matches)
  BY DEF Timeline!handleKeywords, handleKeywords, Timeline!handleKeyword, handleKeyword,
         Timeline!FAILED, FAILED, Timeline!IsFailed, IsFailed,
         Timeline!NameError, NameError, Timeline!NamesWell, NamesWell,
         Timeline!handleWELSPECS, handleWELSPECS, Timeline!handleCOMPDAT, handleCOMPDAT,
         Timeline!handleWELOPEN, handleWELOPEN, Timeline!handleWELOPENConn, handleWELOPENConn,
         Timeline!handleNEXTSTEP, handleNEXTSTEP, Timeline!update_schedule, update_schedule,
         Timeline!addACTIONX, addACTIONX, Timeline!wellNames, wellNames,
         Timeline!updateWellStatus, updateWellStatus, Timeline!setConnections, setConnections,
         Timeline!updateOpenShutEvents, updateOpenShutEvents,
         Timeline!NONE, NONE, Timeline!NotSet, NotSet,
         Timeline!FoldLeft, FoldLeft, Timeline!MapThenFoldSet, MapThenFoldSet, Timeline!Max, Max

(* They end a report step alike.                                           *)
LEMMA SameEnd == \A s : Timeline!end_report(s) = end_report(s)
  BY DEF Timeline!end_report, end_report, Timeline!updateWellStatus, updateWellStatus,
         Timeline!NONE, NONE

(* They process the keywords of a report step alike.                       *)
LEMMA SameBlock ==
  ASSUME NEW s, NEW kws
  PROVE  Timeline!processBlock(s, kws) = processBlock(s, kws)
  BY SameHandled, SameEnd, SameFailed DEF Timeline!processBlock, processBlock

(* They amend a snapshot alike.                                            *)
LEMMA SameAmended ==
  ASSUME NEW s, NEW kws, NEW matches, NEW is_action
  PROVE  Timeline!amended(s, kws, matches, is_action) = amended(s, kws, matches, is_action)
<1>1. Timeline!affectedWells(s, kws, matches) = affectedWells(s, kws, matches)
  BY DEF Timeline!affectedWells, affectedWells, Timeline!ToSet, ToSet, Timeline!wellNames, wellNames
<1>2. \A t, w : Timeline!actionEvents(t, w) = actionEvents(t, w)
  BY DEF Timeline!actionEvents, actionEvents
<1> QED
  BY <1>1, <1>2, SameHandled, SameEnd, SameFailed DEF Timeline!amended, amended

(* Sequences with the same elements are equal.                             *)
LEMMA SeqsEqual ==
  ASSUME NEW s, NEW t, IsSeq(s), IsSeq(t), Len(s) = Len(t), \A i \in 1 .. Len(s) : s[i] = t[i]
  PROVE  s = t
<1>1. /\ s = [i \in 1 .. Len(s) |-> s[i]]
      /\ t = [i \in 1 .. Len(t) |-> t[i]]
  BY LenProperties DEF IsSeq
<1> QED
  BY <1>1

(* The step of the fold, in terms of this schedule.                        *)
LEMMA AppendFollowing ==
  ASSUME NEW t, IsSeq(t), NEW kws, NEW i, i = Len(t), NEW p, p.kws = kws
  PROVE  ExtendOp(p, t, i) = Append(t, IF i > 0 /\ IsFailed(t[i]) THEN FAILED
                                       ELSE processBlock(create(t, i), kws[i]))
<1>1. t # << >> <=> i > 0
  <2>1. Len(t) \in Nat
    BY SeqHasLen
  <2>2. t = << >> <=> Len(t) = 0
    BY EmptySeq DEF IsSeq
  <2> QED
    BY <2>1, <2>2
<1>2. Last(t) = t[i]
  BY DEF Last
<1>3. Timeline!create(t, i) = create(t, i)
  BY SameStart
<1>4. Timeline!processBlock(create(t, i), kws[i]) = processBlock(create(t, i), kws[i])
  BY SameBlock
<1> QED
  BY <1>1, <1>2, <1>3, <1>4, SameFailed DEF ExtendOp

(* It appends the state that follows.                                      *)
LEMMA ExtendedStep ==
  ASSUME NEW prefix, NEW n \in Nat, NEW kws, NEW t, Extends(t, n, prefix, kws), Len(prefix) \in 0 .. n,
         NEW p, p.kws = kws
  PROVE  Extends(ExtendOp(p, t, n), n + 1, prefix, kws)
<1> DEFINE x == IF n > 0 /\ IsFailed(t[n]) THEN FAILED ELSE processBlock(create(t, n), kws[n])
           u == Append(t, x)
<1>1. IsSeq(t) /\ Len(t) = n
  BY DEF Extends
<1>2. ExtendOp(p, t, n) = u
  BY <1>1, AppendFollowing
<1>3. create(t, n) = IF n = 0 THEN create_first ELSE create_next(t[n], n)
  BY <1>1, CreateFromPrevious
<1> HIDE DEF x
<1>4. IsSeq(u) /\ Len(u) = n + 1 /\ u[n + 1] = x /\ \A i \in 1 .. n : u[i] = t[i]
  BY <1>1, AppendFacts
<1> HIDE DEF u
<1>5. ASSUME NEW i \in Len(prefix) + 1 .. n + 1 PROVE u[i] = Following(u, i, kws)
  <2>1. CASE i = n + 1
    <3>1. i - 1 = n /\ (i > 1 <=> n > 0) /\ (i = 1 <=> n = 0)
      BY <2>1
    <3>2. n > 0 => u[n] = t[n]
      BY <1>4
    <3>3. u[i] = x
      BY <1>4, <2>1
    <3>4. CASE n = 0
      BY <1>3, <3>1, <3>3, <3>4 DEF Following, x
    <3>5. CASE n > 0
      BY <1>3, <3>1, <3>2, <3>3, <3>5 DEF Following, x
    <3> QED
      BY <3>4, <3>5
  <2>2. CASE i # n + 1
    <3>1. i \in Len(prefix) + 1 .. n /\ i \in 1 .. n
      BY <1>5, <2>2
    <3>2. u[i] = t[i] /\ (i > 1 => u[i - 1] = t[i - 1])
      BY <1>4, <3>1
    <3>3. t[i] = Following(t, i, kws)
      BY <3>1 DEF Extends
    <3>4. i = 1 \/ i > 1
      BY <3>1
    <3> QED
      BY <3>2, <3>3, <3>4 DEF Following
  <2> QED
    BY <2>1, <2>2
<1>6. \A i \in 1 .. Len(prefix) : u[i] = prefix[i]
  BY <1>4 DEF Extends
<1> QED
  BY <1>2, <1>4, <1>5, <1>6 DEF Extends

(* The completion is what its steps make of one another. *)
LEMMA CompleteExtends ==
  ASSUME NEW end \in Nat, NEW prefix, IsSeq(prefix), Len(prefix) <= end, NEW kws
  PROVE  Extends(Timeline!Extend(prefix, kws, end), end, prefix, kws)
<1> DEFINE p == [kws |-> kws, prefix |-> prefix]
           m == Missing(prefix, end)
           l == Len(prefix)
<1>1. l \in Nat /\ end - l \in Nat /\ l + (end - l) = end
  BY SeqHasLen
<1>2. m \in Seq(Int) /\ Len(m) = end - l /\ \A k \in 1 .. Len(m) : m[k] = l + k - 1
  BY <1>1 DEF Missing
<1>3. Timeline!Extend(prefix, kws, end) = Extending!Fold(p, prefix, m)
  BY CompleteFolds
<1>4. p.kws = kws /\ p.prefix = prefix
  OBVIOUS
<1> HIDE DEF p, m
<1>5. ExtendInv(p, 0, prefix)
  BY <1>1, <1>4 DEF ExtendInv, Extends
<1>6. ASSUME NEW k \in 1 .. Len(m), NEW t, ExtendInv(p, k - 1, t)
      PROVE  ExtendInv(p, k, ExtendOp(p, t, m[k]))
  <2> DEFINE n == l + (k - 1)
  <2>1. n \in Nat /\ l \in 0 .. n /\ n + 1 = l + k /\ m[k] = n
    BY <1>1, <1>2
  <2>2. Extends(t, n, prefix, kws)
    BY <1>4, <1>6 DEF ExtendInv
  <2> HIDE DEF n
  <2>3. Extends(ExtendOp(p, t, n), n + 1, prefix, kws)
    BY <1>4, <2>1, <2>2, ExtendedStep
  <2> QED
    BY <1>4, <2>1, <2>3 DEF ExtendInv
<1>7. \A k \in 1 .. Len(m) : \A t : ExtendInv(p, k - 1, t) => ExtendInv(p, k, ExtendOp(p, t, m[k]))
  BY <1>6
<1>8. m \in Seq(Int)
  BY <1>2
<1>9. ExtendInv(p, Len(m), Extending!Fold(p, prefix, m))
  BY ONLY <1>5, <1>7, <1>8, Extending!FoldKeeps
<1> QED
  BY <1>1, <1>2, <1>3, <1>4, <1>9 DEF ExtendInv

(* There is only one. *)
LEMMA ExtendsOnce ==
  ASSUME NEW end \in Nat, NEW prefix, Len(prefix) \in Nat, NEW kws,
         NEW t, Extends(t, end, prefix, kws), NEW u, Extends(u, end, prefix, kws)
  PROVE  t = u
<1> DEFINE T == {n \in Nat : n <= end => \A i \in 1 .. n : t[i] = u[i]}
<1>1. 0 \in T
  OBVIOUS
<1>2. ASSUME NEW n \in Nat, n \in T PROVE n + 1 \in T
  <2> SUFFICES ASSUME n + 1 <= end PROVE \A i \in 1 .. n + 1 : t[i] = u[i]
    OBVIOUS
  <2>1. \A i \in 1 .. n : t[i] = u[i]
    BY <1>2
  <2> HIDE DEF T
  <2>2. ASSUME NEW j, j = n + 1 PROVE t[j] = u[j]
    <3>1. CASE j \in 1 .. Len(prefix)
      BY <3>1 DEF Extends
    <3>2. CASE j \in Len(prefix) + 1 .. end
      <4>1. t[j] = Following(t, j, kws) /\ u[j] = Following(u, j, kws)
        BY <3>2 DEF Extends
      <4>2. j > 1 => t[j - 1] = u[j - 1]
        BY <2>1, <2>2
      <4>3. j = 1 \/ j > 1
        BY <2>2
      <4> QED
        BY <4>1, <4>2, <4>3 DEF Following
    <3> QED
      BY <2>2, <3>1, <3>2
  <2> QED
    BY <2>1, <2>2
<1> HIDE DEF T
<1>3. end \in T
  BY ONLY end \in Nat, <1>1, <1>2, Extending!NatSetInduction
<1>4. \A i \in 1 .. end : t[i] = u[i]
  BY <1>3 DEF T
<1> QED
  BY <1>4, SeqsEqual DEF Extends

(* One replayed step changes nothing of the completion. *)
LEMMA CompleteOneMore ==
  ASSUME NEW end \in Nat, NEW s, IsSeq(s), Len(s) < end, NEW kws, Len(s) > 0 => ~IsFailed(s[Len(s)]),
         NEW x, x = processBlock(create(s, Len(s)), kws[Len(s)])
  PROVE  Timeline!Extend(Append(s, x), kws, end) = Timeline!Extend(s, kws, end)
<1> DEFINE n == Len(s)
           u == Append(s, x)
           t == Timeline!Extend(s, kws, end)
           v == Timeline!Extend(u, kws, end)
<1>0. n \in Nat
  BY SeqHasLen
<1>1. IsSeq(u) /\ Len(u) = n + 1 /\ u[n + 1] = x /\ \A i \in 1 .. n : u[i] = s[i]
  BY AppendFacts
<1>2. create(s, n) = IF n = 0 THEN create_first ELSE create_next(s[n], n)
  BY CreateFromPrevious
<1> HIDE DEF u
<1>3. Extends(t, end, s, kws)
  BY <1>0, CompleteExtends
<1>4. Extends(v, end, u, kws)
  BY <1>0, <1>1, CompleteExtends
<1> HIDE DEF t, v
<1>5. Extends(v, end, s, kws)
  <2>1. \A i \in 1 .. n : v[i] = s[i]
    BY <1>0, <1>1, <1>4 DEF Extends
  <2>2. ASSUME NEW i \in n + 1 .. end PROVE v[i] = Following(v, i, kws)
    <3>1. CASE i = n + 1
      <4>1. v[i] = x
        BY <1>0, <1>1, <1>4, <3>1 DEF Extends
      <4>2. i - 1 = n /\ (i > 1 <=> n > 0) /\ (i = 1 <=> n = 0)
        BY <1>0, <3>1
      <4>3. n > 0 => v[n] = s[n]
        BY <1>0, <2>1
      <4>4. CASE n = 0
        BY <1>2, <4>1, <4>2, <4>4 DEF Following
      <4>5. CASE n > 0
        BY <1>2, <4>1, <4>2, <4>3, <4>5 DEF Following
      <4> QED
        BY <1>0, <4>4, <4>5
    <3>2. CASE i # n + 1
      <4>1. i \in Len(u) + 1 .. end
        BY <1>0, <1>1, <2>2, <3>2
      <4> QED
        BY <1>4, <4>1 DEF Extends
    <3> QED
      BY <3>1, <3>2
  <2> QED
    BY <1>4, <2>1, <2>2 DEF Extends
<1>6. v = t
  BY <1>0, <1>3, <1>5, ExtendsOnce
<1> QED
  BY <1>6 DEF t, u, v

(* There is nothing to complete any more.                                  *)
LEMMA CompleteItself ==
  ASSUME NEW s, IsSeq(s), NEW kws
  PROVE  Timeline!Extend(s, kws, Len(s)) = s
<1> DEFINE t == Timeline!Extend(s, kws, Len(s))
<1>1. Len(s) \in Nat
  BY SeqHasLen
<1>2. Extends(t, Len(s), s, kws)
  BY <1>1, CompleteExtends
<1> HIDE DEF t
<1>3. IsSeq(t) /\ Len(t) = Len(s) /\ \A i \in 1 .. Len(t) : t[i] = s[i]
  BY <1>2 DEF Extends
<1>4. t = s
  BY <1>3, SeqsEqual
<1> QED
  BY <1>4 DEF t

(* The history variable is what the deck, and the restart file, determine  *)
(* as long as the schedule is constructed; what there are of the snapshots *)
(* leads to it.  It is the completion of the snapshots from then on.       *)
Beginning ==
  IF load_end = N THEN Timeline!Complete(snapshots, input) = Timeline!Complete(Timeline!Loaded(input), input)
  ELSE Timeline!Extend(snapshots, input, RestartStep) = Timeline!Extend(<< >>, input, RestartStep)

Completed ==
  /\ mode = "construct" => timeline = Timeline!Started(input) /\ Beginning
  /\ mode \in {"driver", "script"} => timeline = Timeline!Complete(snapshots, input)

(* What a step records in the history variable.                            *)
Recorded == timeline' = Timeline!Complete(snapshots', input')

(* The constructor starts from nothing.                                    *)
LEMMA CompletedInit == TimelineInit => Completed
<1> SUFFICES ASSUME TimelineInit PROVE Completed
  OBVIOUS
<1>1. /\ snapshots = << >> /\ mode = "construct" /\ timeline = Timeline!Started(input)
      /\ load_end = IF RestartStep = 0 THEN N ELSE RestartStep
  BY DEF TimelineInit, Init
<1>2. N \in Nat /\ RestartStep \in 0 .. N - 1
  BY ConstantsAssumption DEF Steps
<1>3. CASE RestartStep = 0
  <2>1. Timeline!Extend(<< >>, input, 0) = << >>
    BY CompleteItself, EmptyIsSeq
  <2>2. Timeline!Loaded(input) = << >>
    BY <1>3, <2>1 DEF Timeline!Loaded
  <2> QED
    BY <1>1, <1>3, <2>2 DEF Completed, Beginning
<1>4. CASE RestartStep # 0
  BY <1>1, <1>2, <1>4 DEF Completed, Beginning
<1> QED
  BY <1>3, <1>4

(* An iteration leaves the completion as it is.                            *)
LEMMA IterateCompletes ==
  ASSUME TypeOK, Shape, SnapshotsProper, DeckLegal, NothingDropped, iterateScheduleSection,
         NEW end \in Nat, report_step < end
  PROVE  /\ UNCHANGED <<input, sim, mode, load_end>>
         /\ Timeline!Extend(snapshots', input', end) = Timeline!Extend(snapshots, input, end)
<1> DEFINE n == Len(snapshots)
<1>1. /\ IsSeq(snapshots) /\ n \in Nat /\ n = report_step /\ n < end /\ DOMAIN snapshots = 1 .. n
      /\ UNCHANGED <<input, sim, mode, load_end>>
  BY SeqHasLen, IterationAppends DEF TypeOK, IsSeq, iterateScheduleSection
<1>2. snapshots' = Append(snapshots, processBlock(create(snapshots, n), input[n]))
  BY <1>1 DEF iterateScheduleSection, processStep, NothingDropped
<1>3. n > 0 => ~IsFailed(snapshots[n])
  BY <1>1, SnapshotNotFailed DEF SnapshotsProper, Proper
<1>4. Timeline!Extend(snapshots', input, end) = Timeline!Extend(snapshots, input, end)
  BY <1>1, <1>2, <1>3, CompleteOneMore
<1> QED
  BY <1>1, <1>4

(* The two copies of ScheduleState use the restart file alike.             *)
LEMMA SameRestart ==
  /\ \A s : Timeline!addRstWells(s) = addRstWells(s)
  /\ \A s, t : Timeline!mergeEvents(s, t) = mergeEvents(s, t)
  BY DEF Timeline!addRstWells, addRstWells, Timeline!mergeEvents, mergeEvents

(* The snapshots are those of the restart file once it has been read.      *)
LEMMA LoadRstCompletes ==
  ASSUME TypeOK, Shape, SnapshotsProper, Completed, load_rst
  PROVE  Timeline!Loaded(input) = snapshots'
<1>1. /\ mode = "construct" /\ Len(snapshots) = RestartStep /\ RestartStep \in Nat \ {0}
      /\ DOMAIN snapshots = 1 .. RestartStep /\ IsSeq(snapshots)
  BY LoadRstFacts DEF TypeOK, IsSeq
<1>2. load_end # N
  BY ConstantsAssumption DEF load_rst, TypeOK
<1>3. Timeline!Extend(snapshots, input, RestartStep) = Timeline!Extend(<< >>, input, RestartStep)
  BY <1>1, <1>2 DEF Completed, Beginning
<1>4. Timeline!Extend(<< >>, input, RestartStep) = snapshots
  BY <1>1, <1>3, CompleteItself
<1>5. ~IsFailed(snapshots[RestartStep])
  BY <1>1, SnapshotNotFailed DEF SnapshotsProper, Proper
<1>6. ~Timeline!IsFailed(Timeline!Last(snapshots))
  BY <1>1, <1>5, SameFailed DEF Last
<1>7. Timeline!Loaded(input) = [snapshots EXCEPT ![RestartStep] = Timeline!addRstWells(snapshots[RestartStep])]
  BY <1>1, <1>4, <1>6 DEF Timeline!Loaded
<1>8. snapshots' = [snapshots EXCEPT ![RestartStep] = addRstWells(snapshots[RestartStep])]
  BY <1>1 DEF load_rst
<1> QED
  BY <1>7, <1>8, SameRestart

(* The constructor ends with the schedule that was promised.               *)
LEMMA ConstructedTimeline ==
  ASSUME TypeOK, Shape, SnapshotsProper, Completed, constructed, Recorded
  PROVE  UNCHANGED <<input, timeline>>
<1>0. N \in Nat /\ RestartStep \in 0 .. N - 1
  BY ConstantsAssumption DEF Steps
<1>1. /\ mode = "construct" /\ load_end = N /\ input' = input
      /\ Len(snapshots) = N /\ IsSeq(snapshots) /\ DOMAIN snapshots = 1 .. N
      /\ snapshots' = IF RestartStep = 0 THEN snapshots
                      ELSE [snapshots EXCEPT ![RestartStep + 1] =
                              mergeEvents(snapshots[RestartStep + 1], snapshots[RestartStep])]
  BY ConstructedFacts DEF TypeOK, IsSeq, constructed
<1>2. Timeline!Complete(Timeline!Loaded(input), input) = snapshots
  BY <1>1, CompleteItself DEF Completed, Beginning, Timeline!Complete
<1>3. ~IsFailed(snapshots[RestartStep + 1])
  <2>1. RestartStep + 1 \in DOMAIN snapshots
    BY <1>0, <1>1
  <2> QED
    BY <2>1, SnapshotNotFailed DEF SnapshotsProper, Proper
<1>4. Timeline!Started(input) =
        IF RestartStep = 0 THEN snapshots
        ELSE [snapshots EXCEPT ![RestartStep + 1] =
                Timeline!mergeEvents(snapshots[RestartStep + 1], snapshots[RestartStep])]
  BY <1>2, <1>3, SameFailed DEF Timeline!Started
<1>5. timeline = snapshots'
  BY <1>1, <1>4, SameRestart DEF Completed
<1>6. IsSeq(snapshots') /\ Len(snapshots') = N
  <2>1. CASE RestartStep = 0
    BY <1>1, <2>1
  <2>2. CASE RestartStep # 0
    <3> DEFINE j == RestartStep + 1
               x == mergeEvents(snapshots[RestartStep + 1], snapshots[RestartStep])
    <3>1. snapshots' = [snapshots EXCEPT ![j] = x]
      BY ONLY <1>1, <2>2
    <3>2. j \in 1 .. Len(snapshots)
      BY <1>0, <1>1
    <3> HIDE DEF j, x
    <3>3. IsSeq([snapshots EXCEPT ![j] = x]) /\ Len([snapshots EXCEPT ![j] = x]) = Len(snapshots)
      BY ONLY <1>1, <3>2, ReplaceFacts
    <3> QED
      BY ONLY <1>1, <3>1, <3>3
  <2> QED
    BY <2>1, <2>2
<1>7. timeline' = snapshots'
  BY <1>6, CompleteItself DEF Recorded, Timeline!Complete
<1> QED
  BY <1>1, <1>5, <1>7

(* Operations are not called before the schedule is constructed.           *)
LEMMA OperationMode == Operation => mode \in {"driver", "script"} /\ mode' # "construct"
<1>1. ASSUME mode \in {"driver", "script"}, NEW step, NEW kws, NEW matches, NEW is_action, NEW iterate,
             addKeywords(step, kws, matches, is_action, iterate)
      PROVE  mode' # "construct"
  BY <1>1 DEF addKeywords
<1> QED
  BY <1>1 DEF Operation, applyAction, PostStep, actionx_callback, changeWellStatus, insert_keywords, Calling

(* The history variable is kept.                                           *)
LEMMA CompletedNext ==
  ASSUME TypeOK, Shape, ReplayInv, NothingDropped, Completed, [TimelineNext]_<<vars, timeline>>
  PROVE  Completed'
<1>1. SnapshotsProper /\ DeckLegal
  BY DEF ReplayInv
<1>2. CASE UNCHANGED <<vars, timeline>>
  BY <1>2 DEF vars, Completed, Beginning
<1>3. CASE TimelineNext /\ Constructed
  <2>1. Recorded
    BY <1>3 DEF TimelineNext, Recorded
  <2>2. mode' # "construct"
    <3>1. mode # "construct" => mode' # "construct"
      <4> SUFFICES ASSUME mode # "construct" PROVE mode' # "construct"
        OBVIOUS
      <4>1. CASE iterateScheduleSection
        BY <4>1 DEF iterateScheduleSection
      <4>2. CASE Operation
        BY <4>2, OperationMode
      <4>3. CASE load_rst \/ constructed \/ IterationFails \/ Advance \/ runPyAction \/ pyActionDone
        BY <4>3 DEF load_rst, constructed, IterationFails, Advance, runPyAction, pyActionDone
      <4> QED
        BY <1>3, <4>1, <4>2, <4>3 DEF TimelineNext, Next, Operation
    <3> QED
      BY <1>3, <3>1 DEF Constructed
  <2> QED
    BY <2>1, <2>2 DEF Completed, Recorded
<1>4. CASE TimelineNext /\ ~Constructed
  <2>1. mode = "construct" /\ mode' # "driver" /\ timeline' = timeline
    BY <1>4 DEF TimelineNext, Constructed
  <2>2. CASE iterateScheduleSection
    <3>1. /\ load_end \in Nat /\ report_step < load_end /\ mode' = mode
          /\ load_end = N \/ load_end = RestartStep
      BY <2>1, <2>2, ConstantsAssumption
         DEF iterateScheduleSection, Iterating, TypeOK, Shape, Constructing
    <3>2. /\ UNCHANGED <<input, load_end>>
          /\ Timeline!Extend(snapshots', input', load_end) = Timeline!Extend(snapshots, input, load_end)
      BY <1>1, <2>2, <3>1, IterateCompletes
    <3> QED
      BY <2>1, <3>1, <3>2 DEF Completed, Beginning, Timeline!Complete
  <2>3. CASE load_rst
    <3>1. Timeline!Loaded(input) = snapshots' /\ load_end' = N /\ UNCHANGED <<mode, input>>
      BY <1>1, <2>3, LoadRstCompletes DEF load_rst
    <3> QED
      BY <2>1, <3>1 DEF Completed, Beginning
  <2>4. CASE IterationFails
    BY <2>4 DEF IterationFails, Completed
  <2>5. CASE constructed
    BY <2>1, <2>5 DEF constructed
  <2>6. CASE Operation
    <3>1. mode \in {"driver", "script"}
      BY <2>6, OperationMode
    <3> QED
      BY <2>1, <3>1
  <2>7. CASE Advance \/ runPyAction \/ pyActionDone
    BY <2>1, <2>7 DEF Advance, runPyAction, PostStep, pyActionDone
  <2> QED
    BY <1>4, <2>2, <2>3, <2>4, <2>5, <2>6, <2>7 DEF TimelineNext, Next, Operation
<1> QED
  BY <1>2, <1>3, <1>4

(* The timeline begins with the snapshots.                                 *)
LEMMA TimelineIs ==
  ASSUME TypeOK, Shape, Completed, mode \in {"driver", "script"}
  PROVE  /\ IsSeq(timeline) /\ Len(timeline) = N
         /\ Len(snapshots) <= N
         /\ \A i \in 1 .. Len(snapshots) : timeline[i] = snapshots[i]
<1>1. /\ IsSeq(snapshots) /\ Len(snapshots) \in Nat /\ N \in Nat /\ report_step \in 0 .. N
      /\ sim \in 0 .. N - 1
  BY SeqHasLen, ConstantsAssumption DEF TypeOK, IsSeq, Steps
<1>2. Len(snapshots) <= N
  BY <1>1 DEF Shape, Simulating, InScript
<1>3. Extends(timeline, N, snapshots, input)
  BY <1>1, <1>2, CompleteExtends DEF Completed, Timeline!Complete
<1> QED
  BY <1>2, <1>3 DEF Extends

(* An operation amends the timeline, or leaves it when it fails.           *)
LEMMA AmendTimeline ==
  ASSUME TypeOK, Shape, SnapshotsProper, NothingDropped, NothingDropped', FromRestart, Completed, Recorded,
         NEW step \in Steps, NEW kws, NEW matches,
         NEW is_action \in BOOLEAN, NEW iterate \in BOOLEAN,
         Adding(step, kws, matches, is_action, iterate)
  PROVE  UNCHANGED <<input, timeline, Reached>> \/ Timeline!Amend(step, kws, matches, is_action)
<1> DEFINE old == snapshots[step + 1]
           new == amended(old, kws, matches, is_action)
<1>1. /\ addKeywords(step, kws, matches, is_action, iterate) /\ step >= sim
      /\ mode \in {"driver", "script"}
  BY DEF Adding
<1>2. Reached = sim /\ Reached' = sim
  <2>1. UNCHANGED sim
    BY <1>1, AddKeywordsCases
  <2>2. sim \in Nat /\ RestartStep \in Nat /\ sim >= RestartStep
    BY <1>1, ConstantsAssumption DEF FromRestart, TypeOK, Steps
  <2> QED
    BY <2>1, <2>2 DEF Reached
<1>3. CASE UNCHANGED <<snapshots, m_sched_deck>>
  <2>1. input' = input
    BY <1>3 DEF NothingDropped
  <2> QED
    BY <1>1, <1>2, <1>3, <2>1 DEF Completed, Recorded
<1>4. CASE Added(step, new, kws)
  <2>1. /\ step \in Nat /\ step + 1 \in 1 .. Len(snapshots) /\ IsSeq(snapshots) /\ Len(snapshots) \in Nat
        /\ step \in 0 .. Len(snapshots)
    BY <1>4, AddedFacts, SeqHasLen DEF TypeOK, IsSeq
  <2>2. input' = [input EXCEPT ![step] = @ \o kws]
    BY <1>4 DEF Added, NothingDropped
  <2>3. /\ snapshots' = Append(SubSeq(snapshots, 1, step), new)
        /\ ~IsFailed(new)
    BY <1>4 DEF Added
  <2>4. /\ IsSeq(timeline) /\ Len(timeline) = N /\ Len(snapshots) <= N
        /\ \A i \in 1 .. Len(snapshots) : timeline[i] = snapshots[i]
    BY <1>1, TimelineIs
  <2>5. timeline[step + 1] = old
    BY <2>1, <2>4
  <2>6. IsSnapshot(old)
    <3>1. ASSUME NEW i, i = step + 1 PROVE IsSnapshot(snapshots[i])
      <4>1. i \in DOMAIN snapshots
        BY <2>1, <3>1, SeqHasLen
      <4> QED
        BY <4>1 DEF SnapshotsProper, Proper
    <3> QED
      BY <3>1
  <2>7. ~IsFailed(old)
    BY <2>6, SnapshotNotFailed
  <2>8. SubSeq(timeline, 1, step) = SubSeq(snapshots, 1, step)
    <3>1. N \in Nat /\ step \in 0 .. Len(timeline)
      BY <2>1, <2>4, ConstantsAssumption
    <3>2. /\ IsSeq(SubSeq(timeline, 1, step)) /\ Len(SubSeq(timeline, 1, step)) = step
          /\ \A i \in 1 .. step : SubSeq(timeline, 1, step)[i] = timeline[i]
      BY <2>4, <3>1, PrefixFacts
    <3>3. /\ IsSeq(SubSeq(snapshots, 1, step)) /\ Len(SubSeq(snapshots, 1, step)) = step
          /\ \A i \in 1 .. step : SubSeq(snapshots, 1, step)[i] = snapshots[i]
      BY <2>1, PrefixFacts
    <3>4. \A i \in 1 .. step : timeline[i] = snapshots[i]
      BY <2>1, <2>4
    <3> QED
      BY <3>2, <3>3, <3>4, SeqsEqual
  <2>9. Timeline!amended(timeline[step + 1], kws, matches, is_action) = new
    BY <2>5, SameAmended
  <2> HIDE DEF new, old
  <2>10. timeline' = Timeline!Complete(Append(SubSeq(timeline, 1, step), new), input')
    BY <2>3, <2>8 DEF Recorded
  <2> QED
    BY <1>1, <1>2, <2>2, <2>3, <2>5, <2>7, <2>9, <2>10, SameFailed DEF Timeline!Amend
<1> QED
  BY <1>1, <1>3, <1>4, AddKeywordsMakes

(* The operations are those of the timeline. *)
LEMMA OperationTimeline ==
  ASSUME Discipline, TypeOK, Shape, SnapshotsProper, NothingDropped, NothingDropped', FromRestart,
         Completed, Recorded, Operation
  PROVE  UNCHANGED <<input, timeline, Reached>> \/ Timeline!Next
<1>0. /\ sim \in Steps /\ sim \in Nat /\ Len(snapshots) \in Nat /\ DOMAIN snapshots = 1 .. Len(snapshots)
      /\ sim >= sim /\ RestartStep \in Nat
  BY SeqHasLen, ConstantsAssumption DEF TypeOK, IsSeq, Steps
<1>7. Reached = sim
  BY <1>0, OperationMode DEF FromRestart, Reached
<1>1. ASSUME mode \in {"driver", "script"}, sim < Len(snapshots)
      PROVE  timeline[sim + 1] = snapshots[sim + 1]
  BY <1>0, <1>1, TimelineIs
<1>2. ASSUME NEW act, act \in DOMAIN snapshots[sim + 1].actions, sim < Len(snapshots)
      PROVE  Listed(snapshots[sim + 1].actions[act], actionx_allowed_list)
  BY <1>0, <1>2 DEF SnapshotsProper, Proper, BodiesLegal
<1>3. ASSUME NEW act, NEW m, m \in SUBSET Wells, m \subseteq DOMAIN snapshots[sim + 1].wells,
             act \in DOMAIN snapshots[sim + 1].actions, sim < Len(snapshots), mode \in {"driver", "script"},
             addKeywords(sim, snapshots[sim + 1].actions[act], m, TRUE, TRUE)
      PROVE  UNCHANGED <<input, timeline, Reached>> \/ Timeline!Next
  <2>1. Adding(sim, snapshots[sim + 1].actions[act], m, TRUE, TRUE)
    BY <1>0, <1>2, <1>3 DEF Adding
  <2>2. UNCHANGED <<input, timeline, Reached>> \/ Timeline!Amend(sim, snapshots[sim + 1].actions[act], m, TRUE)
    BY <1>0, <2>1, AmendTimeline
  <2>3. Timeline!Amend(sim, snapshots[sim + 1].actions[act], m, TRUE) => Timeline!RunAction(act, m)
    BY <1>1, <1>3, <1>7 DEF Timeline!RunAction
  <2>4. act \in DOMAIN timeline[sim + 1].actions
    BY <1>1, <1>3
  <2> QED
    BY <1>3, <1>7, <2>2, <2>3, <2>4 DEF Timeline!Next
<1>4. CASE \E act \in ActionNames, m \in SUBSET Wells : applyAction(act, m) \/ actionx_callback(act, m)
  <2>1. PICK act \in ActionNames, m \in SUBSET Wells : applyAction(act, m) \/ actionx_callback(act, m)
    BY <1>4
  <2>2. CASE applyAction(act, m)
    BY <1>3, <2>2 DEF applyAction, PostStep
  <2>3. CASE actionx_callback(act, m)
    <3> DEFINE mm == m \cap DOMAIN snapshots[sim + 1].wells
    <3>1. /\ mm \in SUBSET Wells /\ mm \subseteq DOMAIN snapshots[sim + 1].wells
          /\ act \in DOMAIN snapshots[sim + 1].actions /\ sim < Len(snapshots) /\ mode \in {"driver", "script"}
          /\ addKeywords(sim, snapshots[sim + 1].actions[act], mm, TRUE, TRUE)
      BY <2>3 DEF actionx_callback
    <3> HIDE DEF mm
    <3> QED
      BY <1>3, <3>1
  <2> QED
    BY <2>1, <2>2, <2>3
<1>5. CASE \E w \in Wells, st \in WellStatus, i \in Steps : changeWellStatus(w, st, i)
  <2>1. PICK w \in Wells, st \in WellStatus, i \in Steps : changeWellStatus(w, st, i)
    BY <1>5
  <2>2. PICK it \in BOOLEAN : it = (delayed_iteration = "Off")
    OBVIOUS
  <2>3. Adding(i, <<WELOPEN(w, st)>>, {}, TRUE, it)
    BY <2>1, <2>2, StatusCallAdds
  <2>4. UNCHANGED <<input, timeline, Reached>> \/ Timeline!Amend(i, <<WELOPEN(w, st)>>, {}, TRUE)
    BY <2>3, AmendTimeline
  <2>5. Timeline!Amend(i, <<WELOPEN(w, st)>>, {}, TRUE) => Timeline!SetStatus(w, st, i)
    BY DEF Timeline!SetStatus, Timeline!WELOPEN, WELOPEN
  <2>6. i \in Timeline!Steps /\ st \in Timeline!WellStatus
    BY <2>1 DEF Timeline!Steps, Steps, Timeline!WellStatus, WellStatus
  <2> QED
    BY <2>1, <2>4, <2>5, <2>6 DEF Timeline!Next
<1>6. CASE \E kws \in ScriptKeywords, i \in Steps : insert_keywords(kws, i)
  <2>1. PICK kws \in ScriptKeywords, i \in Steps : insert_keywords(kws, i)
    BY <1>6
  <2>2. Adding(i, kws, {}, FALSE, TRUE)
    BY <2>1, InsertAdds
  <2>3. UNCHANGED <<input, timeline, Reached>> \/ Timeline!Amend(i, kws, {}, FALSE)
    BY <2>2, AmendTimeline
  <2>4. Timeline!Amend(i, kws, {}, FALSE) => Timeline!Insert(kws, i)
    BY DEF Timeline!Insert
  <2>5. i \in Timeline!Steps
    BY <2>1 DEF Timeline!Steps, Steps
  <2> QED
    BY <2>1, <2>3, <2>4, <2>5 DEF Timeline!Next
<1> QED
  BY <1>4, <1>5, <1>6 DEF Operation

(* While the schedule is constructed the timeline is what it is.           *)
LEMMA ConstructTimeline ==
  ASSUME TypeOK, Shape, SnapshotsProper, Completed, mode = "construct", TimelineNext
  PROVE  UNCHANGED <<input, timeline, Reached>>
<1>1. RestartStep \in Nat /\ sim = 0
  BY ConstantsAssumption DEF Steps, Shape, Constructing
<1>2. CASE iterateScheduleSection \/ load_rst \/ IterationFails
  <2>1. UNCHANGED <<input, sim>> /\ mode' # "driver"
    BY <1>2 DEF iterateScheduleSection, load_rst, IterationFails
  <2> QED
    BY <2>1 DEF TimelineNext, Constructed, Reached
<1>3. CASE constructed
  <2>1. mode' = "driver" /\ sim' = RestartStep
    BY <1>3 DEF constructed
  <2>2. Recorded
    BY <2>1 DEF TimelineNext, Constructed, Recorded
  <2>3. UNCHANGED <<input, timeline>>
    BY <1>3, <2>2, ConstructedTimeline
  <2>4. Reached' = Reached
    BY <1>1, <2>1 DEF Reached
  <2> QED
    BY <2>3, <2>4
<1>4. ~Operation
  BY OperationMode
<1>5. ~(Advance \/ runPyAction \/ pyActionDone)
  BY DEF Advance, runPyAction, PostStep, pyActionDone
<1> QED
  BY <1>2, <1>3, <1>4, <1>5 DEF TimelineNext, Next, Operation

(* Every step is one of the timeline or leaves it.                         *)
LEMMA TimelineStep ==
  ASSUME Discipline, TypeOK, Shape, ReplayInv, NothingDropped, NothingDropped',
         Completed, [TimelineNext]_<<vars, timeline>>
  PROVE  UNCHANGED <<input, timeline, Reached>> \/ Timeline!Next
<1>0. SnapshotsProper /\ DeckLegal /\ FromRestart
  BY DEF ReplayInv
<1>1. CASE UNCHANGED <<vars, timeline>>
  BY <1>1 DEF vars, Reached
<1>2. CASE TimelineNext /\ mode = "construct"
  BY <1>0, <1>2, ConstructTimeline
<1>3. CASE TimelineNext /\ mode # "construct"
  <2>1. Recorded
    BY <1>3 DEF TimelineNext, Constructed, Recorded
  <2>2. mode \in {"driver", "script"} => Reached = sim /\ sim \in Nat /\ RestartStep \in Nat
                                          /\ timeline = Timeline!Complete(snapshots, input)
    BY <1>0, ConstantsAssumption DEF FromRestart, Reached, TypeOK, Steps, Completed
  <2>3. CASE iterateScheduleSection
    <3>1. N \in Nat /\ report_step < N /\ mode \in {"driver", "script"}
      BY <1>3, <2>3, ConstantsAssumption DEF iterateScheduleSection, Iterating, Shape, Simulating
    <3>2. /\ UNCHANGED <<input, sim>>
          /\ Timeline!Extend(snapshots', input', N) = Timeline!Extend(snapshots, input, N)
      BY <1>0, <2>3, <3>1, IterateCompletes
    <3>3. timeline' = timeline
      BY <2>1, <2>2, <3>1, <3>2 DEF Recorded, Timeline!Complete
    <3> QED
      BY <3>2, <3>3 DEF Reached
  <2>4. CASE Operation
    BY <1>0, <2>1, <2>4, OperationTimeline
  <2>5. CASE Advance
    <3>1. /\ UNCHANGED <<snapshots, input>> /\ sim < N - 1 /\ sim' = sim + 1
          /\ mode = "driver" /\ sim >= RestartStep
      BY <1>0, <2>5 DEF Advance, FromRestart
    <3>2. timeline' = timeline
      BY <2>1, <2>2, <3>1 DEF Recorded
    <3>3. Reached = sim /\ Reached' = sim + 1
      BY <2>2, <3>1 DEF Reached
    <3> QED
      BY <3>1, <3>2, <3>3 DEF Timeline!Next, Timeline!Advance
  <2>6. CASE IterationFails \/ runPyAction \/ pyActionDone
    <3>1. UNCHANGED <<snapshots, input, sim>> /\ mode \in {"driver", "script"}
      BY <1>3, <2>6 DEF IterationFails, runPyAction, PostStep, pyActionDone
    <3>2. timeline' = timeline
      BY <2>1, <2>2, <3>1 DEF Recorded
    <3> QED
      BY <3>1, <3>2 DEF Reached
  <2>7. ~(load_rst \/ constructed)
    BY <1>3 DEF load_rst, constructed
  <2> QED
    BY <1>3, <2>3, <2>4, <2>5, <2>6, <2>7 DEF TimelineNext, Next, Operation
<1> QED
  BY <1>1, <1>2, <1>3

(* When the keywords are kept and the calls respect the discipline, the    *)
(* replaying schedule implements the timeline, whether the run starts from *)
(* the deck or continues from a restart file: each operation of an action, *)
(* of a script or of the driver is one change that takes effect on its     *)
(* report step and all the later ones at once.                             *)
THEOREM ReplayImplementsTimeline ==
  ASSUME Discipline, KeywordsAreKept
  PROVE  TimelineSpec => ImplementsTimeline
<1>1. TimelineSpec => Spec
  <2>1. TimelineInit => Init
    BY DEF TimelineInit
  <2>2. [TimelineNext]_<<vars, timeline>> => [Next]_vars
    BY DEF TimelineNext
  <2> QED
    BY <2>1, <2>2, PTL DEF TimelineSpec, Spec
<1>2. TimelineInit => Completed
  BY CompletedInit
<1>3. TypeOK /\ Shape /\ ReplayInv /\ NothingDropped /\ Completed /\ [TimelineNext]_<<vars, timeline>>
      => Completed'
  BY CompletedNext
<1>4. TimelineInit => Timeline!Init
  <2> SUFFICES ASSUME TimelineInit PROVE Timeline!Init
    OBVIOUS
  <2>1. input \in Decks /\ sim = 0 /\ timeline = Timeline!Started(input) /\ RestartStep \in Nat
    BY ConstantsAssumption DEF TimelineInit, Init, Steps
  <2> QED
    BY <2>1 DEF Timeline!Init, Reached
<1>5. /\ TypeOK /\ Shape /\ ReplayInv /\ NothingDropped /\ NothingDropped' /\ Completed
      /\ [TimelineNext]_<<vars, timeline>>
      => [Timeline!Next]_(Timeline!vars)
  BY TimelineStep DEF Timeline!vars
<1> QED
  BY <1>1, <1>2, <1>3, <1>4, <1>5, ReplayInvariant, KeptInvariant, PTL
     DEF TimelineSpec, ImplementsTimeline, Timeline!Spec

-----------------------------------------------------------------------------
(***************************************************************************)
(* The report steps with restart output, as the class stores them: the     *)
(* vector of words behaves as a set of report steps, for every set of      *)
(* report steps and every sequence of operations, at the width of the code.*)
(***************************************************************************)

Words == Seq(SUBSET Positions)

(* The positions in a word. *)
LEMMA PositionsAre == Positions = 0 .. 63
BY DEF Positions, nbits

(* A report step is its word and its bit. *)
LEMMA DivMod ==
  ASSUME NEW i \in Nat
  PROVE  /\ Word(i) \in Nat
         /\ Bit(i) \in Positions
         /\ i = 64 * Word(i) + Bit(i)
BY SMT DEF Word, Bit, nbits, Positions

(* A word and a bit are those of one report step. *)
LEMMA DivModOf ==
  ASSUME NEW k \in Nat, NEW b \in Positions
  PROVE  Word(64 * k + b) = k /\ Bit(64 * k + b) = b
BY SMT DEF Word, Bit, nbits, Positions

-----------------------------------------------------------------------------
(***************************************************************************)
(* The operations return vectors of words.                                 *)
(***************************************************************************)
LEMMA WordsSeq ==
  ASSUME NEW n \in Nat, NEW v, v = [k \in 1 .. n |-> v[k]],
         \A k \in 1 .. n : v[k] \in SUBSET Positions
  PROVE  v \in Words /\ Len(v) = n /\ DOMAIN v = 1 .. n
BY DEF Words

(* A longer vector: the words it had, then empty ones. *)
LEMMA ResizedFacts ==
  ASSUME NEW v \in Words, NEW n \in Nat
  PROVE  /\ resized(v, n) \in Words
         /\ Len(resized(v, n)) = IF Word(n) < Len(v) THEN Len(v) ELSE Word(n) + 1
         /\ \A k \in 1 .. Len(resized(v, n)) : resized(v, n)[k] = IF k <= Len(v) THEN v[k] ELSE zero
<1>1. Len(v) \in Nat /\ \A k \in 1 .. Len(v) : v[k] \in SUBSET Positions
  BY DEF Words
<1>2. Word(n) \in Nat
  BY DivMod
<1>3. CASE Word(n) < Len(v)
  BY <1>1, <1>3 DEF resized
<1>4. CASE ~(Word(n) < Len(v))
  <2> DEFINE r == [k \in 1 .. Word(n) + 1 |-> IF k <= Len(v) THEN v[k] ELSE zero]
  <2>1. resized(v, n) = r
    BY <1>4 DEF resized
  <2>2. \A k \in 1 .. Word(n) + 1 : r[k] \in SUBSET Positions
    BY <1>1 DEF zero
  <2>3. r \in Words /\ Len(r) = Word(n) + 1
    BY <1>2, <2>2, WordsSeq
  <2>4. QED
    BY <1>4, <2>1, <2>3
<1>5. QED
  BY <1>3, <1>4

(* A vector in which one word was replaced. *)
LEMMA SetWordFacts ==
  ASSUME NEW v \in Words, NEW j \in 1 .. Len(v), NEW x \in SUBSET Positions
  PROVE  /\ [v EXCEPT ![j] = x] \in Words
         /\ Len([v EXCEPT ![j] = x]) = Len(v)
         /\ \A k \in 1 .. Len(v) : [v EXCEPT ![j] = x][k] = IF k = j THEN x ELSE v[k]
BY ExceptSeq DEF Words

(* A vector in which the words from a step on were cleared. *)
LEMMA ClearedFacts ==
  ASSUME NEW v \in Words, NEW start \in Nat
  PROVE  LET w == Word(start) + 1
             r == [k \in DOMAIN v |-> IF k < w THEN v[k]
                                      ELSE IF k = w THEN clear_bits(Bit(start), v[k])
                                      ELSE zero]
         IN r \in Words /\ Len(r) = Len(v)
<1> DEFINE w == Word(start) + 1
           r == [k \in DOMAIN v |-> IF k < w THEN v[k]
                                    ELSE IF k = w THEN clear_bits(Bit(start), v[k])
                                    ELSE zero]
<1>1. Len(v) \in Nat /\ DOMAIN v = 1 .. Len(v) /\ \A k \in 1 .. Len(v) : v[k] \in SUBSET Positions
  BY DEF Words
<1>2. \A k \in 1 .. Len(v) : r[k] \in SUBSET Positions
  BY <1>1 DEF clear_bits, zero
<1>3. r = [k \in 1 .. Len(v) |-> r[k]]
  BY <1>1
<1> HIDE DEF r
<1>4. r \in Words /\ Len(r) = Len(v)
  BY <1>1, <1>2, <1>3, WordsSeq
<1>5. QED
  BY <1>4 DEF r

(* addRestartOutput on a vector v.                                         *)
added(v, i) ==
  [resized(v, i + 1) EXCEPT ![Word(i) + 1] = resized(v, i + 1)[Word(i) + 1] \cup {Bit(i)}]

(* A vector in which one step was entered. *)
LEMMA OneAddedFacts ==
  ASSUME NEW v \in Words, NEW i \in Nat
  PROVE  /\ added(v, i) \in Words
         /\ Len(added(v, i)) >= Len(v)
         /\ Len(added(v, i)) > Word(i)
         /\ \A k \in 1 .. Len(added(v, i)) :
              added(v, i)[k] = (IF k <= Len(v) THEN v[k] ELSE zero)
                                 \cup (IF k = Word(i) + 1 THEN {Bit(i)} ELSE {})
<1>1. Len(v) \in Nat
  BY DEF Words
<1>2. /\ Word(i) \in Nat /\ Bit(i) \in Positions
      /\ i + 1 \in Nat /\ Word(i + 1) \in Nat /\ Word(i) <= Word(i + 1)
  BY DivMod, SMT DEF Word, Bit, nbits, Positions
<1>3. PICK r : r = resized(v, i + 1)
  OBVIOUS
<1>4. /\ r \in Words
      /\ Len(r) = IF Word(i + 1) < Len(v) THEN Len(v) ELSE Word(i + 1) + 1
      /\ \A k \in 1 .. Len(r) : r[k] = IF k <= Len(v) THEN v[k] ELSE zero
  BY <1>1, <1>2, <1>3, ResizedFacts
<1>5. PICK j : j = Word(i) + 1
  OBVIOUS
<1>6. j \in 1 .. Len(r) /\ Len(r) >= Len(v)
  BY <1>1, <1>2, <1>4, <1>5
<1>7. PICK x : x = r[j] \cup {Bit(i)}
  OBVIOUS
<1>8. x \in SUBSET Positions
  BY <1>2, <1>4, <1>6, <1>7 DEF Words
<1>9. added(v, i) = [r EXCEPT ![j] = x]
  BY <1>3, <1>5, <1>7 DEF added
<1>10. /\ added(v, i) \in Words
       /\ Len(added(v, i)) = Len(r)
       /\ \A k \in 1 .. Len(r) : added(v, i)[k] = IF k = j THEN x ELSE r[k]
  <2>1. r \in Words /\ j \in 1 .. Len(r)
    BY <1>4, <1>6
  <2>2. /\ [r EXCEPT ![j] = x] \in Words
        /\ Len([r EXCEPT ![j] = x]) = Len(r)
        /\ \A k \in 1 .. Len(r) : [r EXCEPT ![j] = x][k] = IF k = j THEN x ELSE r[k]
    BY <2>1, <1>8, SetWordFacts
  <2>3. QED
    BY <2>2, <1>9, Zenon
<1>11. ASSUME NEW k \in 1 .. Len(r)
       PROVE  added(v, i)[k] = (IF k <= Len(v) THEN v[k] ELSE zero)
                                 \cup (IF k = Word(i) + 1 THEN {Bit(i)} ELSE {})
  BY <1>4, <1>5, <1>6, <1>7, <1>10, <1>11
<1>12. QED
  BY <1>2, <1>5, <1>6, <1>10, <1>11

(* `addRestartOutput` enters the step, and resizes if it must. *)
LEMMA AddRestartOutput ==
  ASSUME EventsTypeOK, NEW i \in Nat, addRestartOutput(i)
  PROVE  write_restart_file_' = added(write_restart_file_, i)
BY DEF addRestartOutput, added

(* The vector always holds words of 64 bits, whatever report steps the     *)
(* operations are called with and however it grows.                        *)
THEOREM EventsTypeCorrect == EventsSpec => []EventsTypeOK
<1>1. EventsInit => EventsTypeOK
  BY DEF EventsInit, EventsTypeOK
<1>2. EventsTypeOK /\ [EventsNext]_write_restart_file_ => EventsTypeOK'
  <2> SUFFICES ASSUME EventsTypeOK, [EventsNext]_write_restart_file_ PROVE EventsTypeOK'
    OBVIOUS
  <2>1. CASE \E i \in ReportSteps : resize(i)
    BY <2>1, ResizedFacts, ReportStepsAssumption DEF resize, EventsTypeOK, Words
  <2>2. CASE \E i \in ReportSteps : clearRemainingEvents(i)
    BY <2>2, ClearedFacts, ReportStepsAssumption DEF clearRemainingEvents, EventsTypeOK, Words
  <2>3. CASE \E i \in ReportSteps : addRestartOutput(i)
    BY <2>3, AddRestartOutput, OneAddedFacts, ReportStepsAssumption DEF EventsTypeOK, Words
  <2>4. CASE UNCHANGED write_restart_file_
    BY <2>4 DEF EventsTypeOK
  <2>5. QED
    BY <2>1, <2>2, <2>3, <2>4 DEF EventsNext
<1>3. QED
  BY <1>1, <1>2, PTL DEF EventsSpec

-----------------------------------------------------------------------------
(***************************************************************************)
(* The set of stored events, and what each operation does to it.           *)
(***************************************************************************)
IsStored(v, i) == i \in Nat /\ Word(i) < Len(v) /\ Bit(i) \in v[Word(i) + 1]

(* A stored step lies within the vector. *)
LEMMA StoredRange ==
  ASSUME NEW v \in Words, NEW i
  PROVE  IsStored(v, i) <=> i \in 0 .. 64 * Len(v) - 1 /\ Bit(i) \in v[Word(i) + 1]
<1>1. Len(v) \in Nat
  BY DEF Words
<1>2. i \in Nat => (i \in 0 .. 64 * Len(v) - 1 <=> Word(i) < Len(v))
  BY <1>1, SMT DEF Word, nbits
<1>3. i \in 0 .. 64 * Len(v) - 1 => i \in Nat
  BY <1>1
<1>4. QED
  BY <1>2, <1>3 DEF IsStored

(* The set of events is what the bits say. *)
LEMMA StoredEventsAre ==
  ASSUME EventsTypeOK
  PROVE  \A i : i \in StoredEvents <=> IsStored(write_restart_file_, i)
BY StoredRange DEF StoredEvents, nbits, EventsTypeOK, Words

(* It is after a step as well. *)
LEMMA StoredEventsNext ==
  ASSUME EventsTypeOK'
  PROVE  \A i : i \in StoredEvents' <=> IsStored(write_restart_file_', i)
BY StoredRange DEF StoredEvents, nbits, EventsTypeOK, Words

(* Steps are ordered by word, then by bit. *)
LEMMA SameBitSameStep ==
  ASSUME NEW i \in Nat, NEW e \in Nat
  PROVE  /\ e = i <=> Word(e) = Word(i) /\ Bit(e) = Bit(i)
         /\ e < i <=> Word(e) < Word(i) \/ (Word(e) = Word(i) /\ Bit(e) < Bit(i))
<1>1. /\ Word(i) \in Nat /\ Bit(i) \in 0 .. 63 /\ i = 64 * Word(i) + Bit(i)
      /\ Word(e) \in Nat /\ Bit(e) \in 0 .. 63 /\ e = 64 * Word(e) + Bit(e)
  BY DivMod DEF Positions, nbits
<1>2. QED
  BY <1>1

(* A lower word, or no higher a bit, is no later step. *)
LEMMA NotLater ==
  ASSUME NEW f \in Nat, NEW e \in Nat,
         Word(f) < Word(e) \/ (Word(f) = Word(e) /\ Bit(f) <= Bit(e))
  PROVE  f <= e
<1>1. /\ Word(f) \in Nat /\ Bit(f) \in 0 .. 63 /\ f = 64 * Word(f) + Bit(f)
      /\ Word(e) \in Nat /\ Bit(e) \in 0 .. 63 /\ e = 64 * Word(e) + Bit(e)
  BY DivMod DEF Positions, nbits
<1>2. QED
  BY <1>1

(* Resizing keeps the events. *)
LEMMA ResizeKeeps ==
  ASSUME NEW v \in Words, NEW n \in Nat, NEW e
  PROVE  IsStored(resized(v, n), e) <=> IsStored(v, e)
<1>1. Len(v) \in Nat
  BY DEF Words
<1>2. CASE e \in Nat
  <2>1. Word(e) \in Nat /\ Word(n) \in Nat
    BY <1>2, DivMod
  <2>2. PICK r : r = resized(v, n)
    OBVIOUS
  <2>3. /\ Len(r) = IF Word(n) < Len(v) THEN Len(v) ELSE Word(n) + 1
        /\ \A k \in 1 .. Len(r) : r[k] = IF k <= Len(v) THEN v[k] ELSE {}
    BY <2>2, ResizedFacts DEF zero
  <2>4. CASE Word(e) < Len(v)
    <3>1. Word(e) < Len(r) /\ Word(e) + 1 \in 1 .. Len(r) /\ Word(e) + 1 <= Len(v)
      BY <1>1, <2>1, <2>3, <2>4
    <3>2. r[Word(e) + 1] = v[Word(e) + 1]
      BY <2>3, <3>1
    <3> QED
      BY ONLY <1>2, <2>2, <2>4, <3>1, <3>2 DEF IsStored
  <2>5. CASE ~(Word(e) < Len(v))
    <3>1. ASSUME Word(e) < Len(r) PROVE r[Word(e) + 1] = {}
      <4>1. Word(e) + 1 \in 1 .. Len(r) /\ ~(Word(e) + 1 <= Len(v))
        BY <1>1, <2>1, <2>3, <2>5, <3>1
      <4>2. QED
        BY <2>3, <4>1
    <3>2. QED
      BY <2>2, <2>5, <3>1 DEF IsStored
  <2>6. QED
    BY <2>4, <2>5
<1>3. QED
  BY <1>2 DEF IsStored

(* Entering a step adds that event and no other. *)
LEMMA AddAdds ==
  ASSUME NEW v \in Words, NEW i \in Nat, NEW e
  PROVE  IsStored(added(v, i), e) <=> IsStored(v, e) \/ e = i
<1>1. Len(v) \in Nat
  BY DEF Words
<1>0. Word(i) \in Nat
  BY DivMod
<1>2. CASE e \in Nat
  <2>1. Word(e) \in Nat
    BY <1>2, DivMod
  <2>2. PICK n : n = added(v, i)
    OBVIOUS
  <2>3. /\ Len(n) >= Len(v) /\ Len(n) > Word(i) /\ Len(n) \in Nat
        /\ \A k \in 1 .. Len(n) : n[k] = (IF k <= Len(v) THEN v[k] ELSE {})
                                            \cup (IF k = Word(i) + 1 THEN {Bit(i)} ELSE {})
    <3>1. n \in Words
      BY <2>2, OneAddedFacts
    <3>2. Len(n) \in Nat
      BY <3>1 DEF Words
    <3>3. QED
      BY <2>2, <3>2, OneAddedFacts DEF zero
  <2>4. CASE Word(e) < Len(n)
    <3>1. n[Word(e) + 1] = (IF Word(e) + 1 <= Len(v) THEN v[Word(e) + 1] ELSE {})
                             \cup (IF Word(e) = Word(i) THEN {Bit(i)} ELSE {})
      BY <1>0, <1>1, <2>1, <2>3, <2>4
    <3>2. Bit(e) \in n[Word(e) + 1] <=> \/ Word(e) < Len(v) /\ Bit(e) \in v[Word(e) + 1]
                                        \/ Word(e) = Word(i) /\ Bit(e) = Bit(i)
      BY <1>0, <1>1, <2>1, <3>1
    <3>3. QED
      BY <1>2, <2>2, <2>4, <3>2, SameBitSameStep DEF IsStored
  <2>5. CASE ~(Word(e) < Len(n))
    BY <1>0, <1>1, <2>1, <2>2, <2>3, <2>5 DEF IsStored
  <2>6. QED
    BY <2>4, <2>5
<1>3. QED
  BY <1>2 DEF IsStored

(* Clearing keeps the events before the step and no other. *)
LEMMA ClearKeepsEarlier ==
  ASSUME EventsTypeOK, NEW i \in Nat, clearRemainingEvents(i), NEW e
  PROVE  IsStored(write_restart_file_', e) <=> IsStored(write_restart_file_, e) /\ e < i
<1>1. /\ Len(write_restart_file_) \in Nat
      /\ DOMAIN write_restart_file_ = 1 .. Len(write_restart_file_)
      /\ Len(write_restart_file_') = Len(write_restart_file_)
      /\ \A k \in 1 .. Len(write_restart_file_) : write_restart_file_[k] \in SUBSET Positions
  BY ClearedFacts DEF EventsTypeOK, clearRemainingEvents, Words
<1>2. CASE e \in Nat /\ Word(e) < Len(write_restart_file_)
  <2>1. Word(e) \in Nat /\ Bit(e) \in Positions /\ Word(i) \in Nat /\ Bit(i) \in Positions
    BY <1>2, DivMod
  <2>2. write_restart_file_'[Word(e) + 1] =
          IF Word(e) + 1 < Word(i) + 1 THEN write_restart_file_[Word(e) + 1]
          ELSE IF Word(e) + 1 = Word(i) + 1
               THEN clear_bits(Bit(i), write_restart_file_[Word(e) + 1]) ELSE {}
    BY <1>1, <1>2, <2>1 DEF clearRemainingEvents, zero
  <2>3. Bit(e) \in write_restart_file_'[Word(e) + 1]
          <=> /\ Bit(e) \in write_restart_file_[Word(e) + 1]
              /\ Word(e) < Word(i) \/ (Word(e) = Word(i) /\ Bit(e) < Bit(i))
    BY <2>1, <2>2 DEF clear_bits, Below, Positions
  <2>4. QED
    BY <1>1, <1>2, <2>3, SameBitSameStep DEF IsStored
<1>3. QED
  BY <1>1, <1>2 DEF IsStored

(* Every operation is one of the abstract set, or none. *)
LEMMA StepsMap ==
  ASSUME EventsTypeOK, EventsTypeOK', NEW i \in ReportSteps
  PROVE  /\ clearRemainingEvents(i) => Abstract!Clear(i)
         /\ addRestartOutput(i) => Abstract!Add(i)
         /\ resize(i) => UNCHANGED StoredEvents
<1>1. /\ \A e : e \in StoredEvents <=> IsStored(write_restart_file_, e)
      /\ \A e : e \in StoredEvents' <=> IsStored(write_restart_file_', e)
      /\ write_restart_file_ \in Words
  BY StoredEventsAre, StoredEventsNext DEF EventsTypeOK, Words
<1>2. ASSUME resize(i) PROVE StoredEvents' = StoredEvents
  BY <1>1, <1>2, ResizeKeeps, ReportStepsAssumption DEF resize
<1>3. ASSUME clearRemainingEvents(i) PROVE Abstract!Clear(i)
  BY <1>1, <1>3, ClearKeepsEarlier, ReportStepsAssumption DEF Abstract!Clear
<1>4. ASSUME addRestartOutput(i) PROVE Abstract!Add(i)
  BY <1>1, <1>4, AddRestartOutput, AddAdds, ReportStepsAssumption DEF Abstract!Add
<1>5. QED
  BY <1>2, <1>3, <1>4

(* Clearing, adding and growing do to the set of report steps exactly what *)
(* they promise, on both sides of every word boundary.                     *)
THEOREM OperationsAreExact == EventsSpec => OperationsExact
<1> DEFINE Exact == \A i \in ReportSteps : /\ clearRemainingEvents(i) => Abstract!Clear(i)
                                           /\ addRestartOutput(i) => Abstract!Add(i)
                                           /\ resize(i) => UNCHANGED StoredEvents
<1>1. EventsTypeOK /\ EventsTypeOK' => Exact
  BY StepsMap
<1> HIDE DEF Exact
<1>2. EventsTypeOK /\ EventsTypeOK' /\ [EventsNext]_write_restart_file_ => [Exact]_write_restart_file_
  BY <1>1
<1>3. EventsSpec => [][Exact]_write_restart_file_
  BY <1>2, EventsTypeCorrect, PTL DEF EventsSpec
<1>4. QED
  BY <1>3 DEF OperationsExact, Exact

(* The vector of words is a set of report steps: it starts empty, and      *)
(* every step of it is a step of the set or leaves the set alone.          *)
THEOREM ImplementsSet == EventsSpec => ImplementsEvents
<1>1. EventsInit => Abstract!Init
  BY DEF EventsInit, Abstract!Init, StoredEvents, nbits
<1>2. EventsTypeOK /\ EventsTypeOK' /\ [EventsNext]_write_restart_file_ => [Abstract!Next]_StoredEvents
  <2> SUFFICES ASSUME EventsTypeOK, EventsTypeOK', [EventsNext]_write_restart_file_
               PROVE  [Abstract!Next]_StoredEvents
    OBVIOUS
  <2>1. CASE UNCHANGED write_restart_file_
    BY <2>1 DEF StoredEvents
  <2>2. CASE EventsNext
    BY <2>2, StepsMap DEF EventsNext, Abstract!Next
  <2>3. QED
    BY <2>1, <2>2
<1>3. QED
  BY <1>1, <1>2, EventsTypeCorrect, PTL DEF EventsSpec, Abstract!Spec, ImplementsEvents

-----------------------------------------------------------------------------
(***************************************************************************)
(* The greatest element of a bounded set of numbers.                       *)
(***************************************************************************)
LEMMA LeastExists ==
  ASSUME NEW T \in SUBSET Nat, T # {}
  PROVE  \E x \in T : \A y \in T : x <= y
<1> DEFINE R == OpToRel(<, Nat)
<1>1. \A x, y \in Nat : x < y => <<x, y>> \in R
  BY DEF OpToRel
<1>2. IsWellFoundedOn(R, Nat)
  BY NatLessThanWellFounded, Zenon
<1> HIDE DEF R
<1>3. PICK x \in T : \A y \in T : ~ (<<y, x>> \in R)
  BY <1>2, WFMin
<1>4. ASSUME NEW y \in T PROVE x <= y
  <2>1. x \in Nat /\ y \in Nat
    OBVIOUS
  <2>2. y < x => <<y, x>> \in R
    BY <1>1, <2>1, Zenon
  <2>3. ~ (y < x)
    BY <1>3, <2>2, Zenon
  <2>4. QED
    BY <2>1, <2>3
<1>5. QED
  BY <1>4

(* A set of numbers that is bounded has a greatest one. *)
LEMMA MaxFacts ==
  ASSUME NEW S \in SUBSET Nat, S # {}, NEW n \in Nat, \A x \in S : x <= n
  PROVE  Max(S) \in S /\ \A y \in S : y <= Max(S)
<1> DEFINE T == {n - x : x \in S}
<1>1. PICK s \in S : TRUE
  OBVIOUS
<1>2. T \in SUBSET Nat
  OBVIOUS
<1>3. n - s \in T
  OBVIOUS
<1> HIDE DEF T
<1>4. PICK t \in T : \A u \in T : t <= u
  BY <1>2, <1>3, LeastExists
<1>5. PICK x \in S : t = n - x
  BY DEF T
<1>6. ASSUME NEW y \in S PROVE x >= y
  <2>1. t <= n - y
    BY <1>4 DEF T
  <2>2. QED
    BY <1>5, <2>1
<1>7. /\ Max(S) \in S
      /\ \A y \in S : Max(S) >= y
  BY <1>6, Zenon DEF Max
<1>8. QED
  BY <1>7

-----------------------------------------------------------------------------
(***************************************************************************)
(* The binary search.  While halving, the highest bit m of the word is at  *)
(* m + count, and never lower than the half that is looked at next.        *)
(***************************************************************************)
Counted(c, m) ==
  /\ c.count \in Nat
  /\ c.bits \subseteq 0 .. 63
  /\ m + c.count \in c.bits
  /\ \A b \in c.bits : b <= m + c.count

(* A halving step of the count keeps count and highest bit in balance. *)
LEMMA HalveFacts ==
  ASSUME NEW c, NEW m \in 0 .. 63, Counted(c, m), NEW n \in {32, 16, 8, 4, 2},
         m + c.count >= 64 - 2 * n
  PROVE  Counted(Halve(c, n), m) /\ m + Halve(c, n).count >= 64 - n
<1>1. c.count \in Nat /\ n \in Nat /\ n > 0
  BY DEF Counted
<1>2. CASE \A b \in c.bits : b < 64 - n
  <2>1. Halve(c, n) = [count |-> c.count + n, bits |-> ShiftLeft(c.bits, n)]
    BY <1>2 DEF Halve, nbits
  <2>2. ShiftLeft(c.bits, n) = {b + n : b \in c.bits}
    BY <1>1, <1>2 DEF ShiftLeft, nbits, Counted
  <2>3. ShiftLeft(c.bits, n) \subseteq 0 .. 63
    BY <1>1, <1>2, <2>2 DEF Counted
  <2>4. m + (c.count + n) \in ShiftLeft(c.bits, n)
    <3>1. (m + c.count) + n \in ShiftLeft(c.bits, n)
      BY <2>2 DEF Counted
    <3>2. QED
      BY <1>1, <3>1
  <2>5. \A b \in ShiftLeft(c.bits, n) : b <= m + (c.count + n)
    BY <1>1, <2>2 DEF Counted
  <2>6. QED
    BY <1>1, <2>1, <2>3, <2>4, <2>5 DEF Counted
<1>3. CASE ~(\A b \in c.bits : b < 64 - n)
  BY <1>1, <1>3 DEF Halve, nbits, Counted
<1>4. QED
  BY <1>2, <1>3

(* The count is 63 minus the highest bit that is set. *)
LEMMA CountLeadingZeros ==
  ASSUME NEW bits \in SUBSET Positions, bits # {}
  PROVE  /\ Max(bits) \in bits
         /\ \A b \in bits : b <= Max(bits)
         /\ count_leading_zeros(bits) = 63 - Max(bits)
<1>1. Max(bits) \in bits /\ \A b \in bits : b <= Max(bits)
  <2>1. bits \in SUBSET Nat /\ \A b \in bits : b <= 63
    BY DEF Positions, nbits
  <2>2. QED
    BY <2>1, MaxFacts
<1>2. PICK m \in 0 .. 63 : m = Max(bits)
  <2>1. Max(bits) \in 0 .. 63
    BY <1>1, PositionsAre
  <2>2. QED
    BY <2>1, Zenon
<1>3. PICK c0 : c0 = [count |-> 0, bits |-> bits]
  OBVIOUS
<1>4. Counted(c0, m) /\ m + c0.count >= 64 - 2 * 32
  BY <1>1, <1>2, <1>3 DEF Counted, Positions, nbits
<1>5. PICK c1 : c1 = Halve(c0, 32)
  OBVIOUS
<1>6. Counted(c1, m) /\ m + c1.count >= 64 - 2 * 16
  BY <1>4, <1>5, HalveFacts
<1>7. PICK c2 : c2 = Halve(c1, 16)
  OBVIOUS
<1>8. Counted(c2, m) /\ m + c2.count >= 64 - 2 * 8
  BY <1>6, <1>7, HalveFacts
<1>9. PICK c3 : c3 = Halve(c2, 8)
  OBVIOUS
<1>10. Counted(c3, m) /\ m + c3.count >= 64 - 2 * 4
  BY <1>8, <1>9, HalveFacts
<1>11. PICK c4 : c4 = Halve(c3, 4)
  OBVIOUS
<1>12. Counted(c4, m) /\ m + c4.count >= 64 - 2 * 2
  BY <1>10, <1>11, HalveFacts
<1>13. PICK c : c = Halve(c4, 2)
  OBVIOUS
<1>14. Counted(c, m) /\ m + c.count >= 62
  BY <1>12, <1>13, HalveFacts
<1>15. count_leading_zeros(bits) = IF 63 \notin c.bits THEN c.count + 1 ELSE c.count
  BY <1>3, <1>5, <1>7, <1>9, <1>11, <1>13 DEF count_leading_zeros, zero, nbits
<1>16. c.count \in Nat /\ m + c.count \in 0 .. 63 /\ (63 \in c.bits <=> m + c.count = 63)
  BY <1>14 DEF Counted
<1>17. QED
  BY <1>1, <1>2, <1>14, <1>15, <1>16

(* An empty word has all 64. *)
LEMMA NoLeadingZeros == count_leading_zeros({}) = 64
BY DEF count_leading_zeros, zero, nbits

-----------------------------------------------------------------------------
(***************************************************************************)
(* The answers to the two queries.                                         *)
(***************************************************************************)
LEMMA MembershipOf ==
  ASSUME EventsTypeOK
  PROVE  MembershipAnswered
BY StoredEventsAre, ReportStepsAssumption DEF MembershipAnswered, writeRestartFile, IsStored

(* Positions are integers. *)
LEMMA PositionsAreInt == \A m \in 0 .. 63 : m \in Nat /\ m \in Int
OBVIOUS

(* A step whose word is k - 1 and whose bit is the highest one of word k.  *)
LEMMA StepOfBit ==
  ASSUME EventsTypeOK, NEW k \in 1 .. Len(write_restart_file_), NEW bits,
         bits \subseteq write_restart_file_[k], bits # {}
  PROVE  LET e == nbits * (k - 1) + nbits - count_leading_zeros(bits) - 1
         IN e \in StoredEvents /\ Word(e) = k - 1 /\ Bit(e) = Max(bits)
            /\ Max(bits) \in bits /\ \A b \in bits : b <= Max(bits)
<1>0. Len(write_restart_file_) \in Nat
  BY DEF EventsTypeOK
<1>1. write_restart_file_[k] \in SUBSET Positions
  BY DEF EventsTypeOK
<1>2. /\ Max(bits) \in bits
      /\ \A b \in bits : b <= Max(bits)
      /\ count_leading_zeros(bits) = 63 - Max(bits)
      /\ Max(bits) \in 0 .. 63
  BY <1>1, CountLeadingZeros, PositionsAre
<1>3. nbits * (k - 1) + nbits - count_leading_zeros(bits) - 1 = 64 * (k - 1) + Max(bits)
  <2>1. k \in Int /\ Max(bits) \in Int
    <3>1. k \in Int
      BY <1>0
    <3>2. Max(bits) \in Int
      BY <1>2, PositionsAreInt
    <3>3. QED
      BY <3>1, <3>2
  <2>2. nbits - count_leading_zeros(bits) - 1 = Max(bits)
    BY <1>2, <2>1 DEF nbits
  <2>3. QED
    BY <1>2, <2>1 DEF nbits
<1>4. PICK e : e = 64 * (k - 1) + Max(bits)
  OBVIOUS
<1>5. k - 1 \in Nat /\ e \in Nat /\ k - 1 < Len(write_restart_file_) /\ (k - 1) + 1 = k
  <2>1. k \in Nat /\ k >= 1 /\ k <= Len(write_restart_file_)
    BY <1>0
  <2>2. Max(bits) \in Nat
    BY <1>2, PositionsAreInt
  <2>3. QED
    BY <1>0, <1>4, <2>1, <2>2
<1>6. Word(e) = k - 1 /\ Bit(e) = Max(bits)
  BY <1>2, <1>4, <1>5, DivModOf, PositionsAre
<1>7. e \in StoredEvents
  BY <1>2, <1>5, <1>6, StoredEventsAre DEF IsStored
<1>8. QED
  BY <1>2, <1>3, <1>4, <1>6, <1>7

(* The search by words and bits finds the last event before a step. *)
LEMMA LastEventOf ==
  ASSUME EventsTypeOK, NEW i \in Nat
  PROVE  Abstract!IsLastBefore(lastRestartEventBefore(i), i)
<1> DEFINE v     == write_restart_file_
           w     == Word(i)
           prev  == IF w < Len(v) THEN v[w + 1] \cap Below(Bit(i)) ELSE zero
           bins  == {k \in 1 .. (IF w < Len(v) THEN w ELSE Len(v)) :
                       count_leading_zeros(v[k]) < nbits}
           at(bin, bits) == nbits * bin + nbits - count_leading_zeros(bits) - 1
           last  == lastRestartEventBefore(i)
<1>1. /\ Len(v) \in Nat /\ \A k \in 1 .. Len(v) : v[k] \in SUBSET Positions
      /\ w \in Nat /\ Bit(i) \in 0 .. 63
  <2>1. Len(v) \in Nat /\ \A k \in 1 .. Len(v) : v[k] \in SUBSET Positions
    BY DEF EventsTypeOK
  <2>2. QED
    BY <2>1, DivMod, PositionsAre
<1>2. last = IF count_leading_zeros(prev) < nbits THEN at(w, prev)
             ELSE IF bins = {} THEN None
             ELSE at(Max(bins) - 1, v[Max(bins)])
  BY DEF lastRestartEventBefore
<1>3. \A bits \in SUBSET Positions : count_leading_zeros(bits) < nbits <=> bits # {}
  <2>1. ASSUME NEW bits \in SUBSET Positions, bits # {} PROVE count_leading_zeros(bits) < nbits
    <3>1. /\ Max(bits) \in 0 .. 63
          /\ count_leading_zeros(bits) = 63 - Max(bits)
      BY <2>1, CountLeadingZeros, PositionsAre
    <3>2. QED
      BY <3>1 DEF nbits
  <2>2. QED
    BY <2>1, NoLeadingZeros DEF nbits
(* An earlier event is in an earlier word or in prev.                      *)
<1>4. ASSUME NEW f \in StoredEvents, f < i
      PROVE  /\ f \in Nat /\ Word(f) \in Nat /\ Word(f) < Len(v) /\ Bit(f) \in v[Word(f) + 1]
             /\ Word(f) < w \/ (Word(f) = w /\ Bit(f) \in prev)
  <2>1. f \in Nat /\ Word(f) < Len(v) /\ Bit(f) \in v[Word(f) + 1]
    BY StoredEventsAre DEF IsStored
  <2>2. Word(f) \in Nat /\ Bit(f) \in Positions
    BY <2>1, DivMod
  <2>3. Word(f) < w \/ (Word(f) = w /\ Bit(f) < Bit(i))
    BY <1>4, <2>1, SameBitSameStep
  <2>4. QED
    BY <2>1, <2>2, <2>3 DEF Below
<1>5. prev \in SUBSET Positions /\ \A b \in prev : b < Bit(i)
  BY DEF Below, zero
<1>6. bins = {k \in 1 .. (IF w < Len(v) THEN w ELSE Len(v)) : v[k] # {}}
  <2>1. \A k \in 1 .. (IF w < Len(v) THEN w ELSE Len(v)) :
          count_leading_zeros(v[k]) < nbits <=> v[k] # {}
    BY <1>1, <1>3
  <2>2. QED
    BY <2>1
<1>7. CASE prev # {}
  <2>1. w < Len(v) /\ w + 1 \in 1 .. Len(v) /\ prev \subseteq v[w + 1] /\ (w + 1) - 1 = w
    BY <1>1, <1>7 DEF zero
  <2>2. last = nbits * ((w + 1) - 1) + nbits - count_leading_zeros(prev) - 1
    BY <1>2, <1>3, <1>5, <1>7, <2>1
  <2> HIDE DEF prev, last
  <2>3. /\ last \in StoredEvents /\ Word(last) = (w + 1) - 1 /\ Bit(last) = Max(prev)
        /\ Max(prev) \in prev /\ \A b \in prev : b <= Max(prev)
    BY <1>7, <2>1, <2>2, StepOfBit
  <2>4. last \in Nat
    BY <2>3, StoredEventsAre DEF IsStored
  <2>5. last < i
    BY <1>5, <2>1, <2>3, <2>4, SameBitSameStep
  <2>6. ASSUME NEW f \in StoredEvents, f < i PROVE f <= last
    <3>1. f \in Nat /\ (Word(f) < Word(last) \/ (Word(f) = Word(last) /\ Bit(f) <= Bit(last)))
      BY <1>4, <2>1, <2>3, <2>6
    <3>2. QED
      BY <2>4, <3>1, NotLater
  <2>7. QED
    BY <2>3, <2>5, <2>6 DEF Abstract!IsLastBefore, last
<1>8. CASE prev = {} /\ bins # {}
  <2>1. PICK k : k = Max(bins)
    OBVIOUS
  <2>2. k \in bins /\ \A j \in bins : j <= k
    <3>1. bins \in SUBSET Nat /\ \A j \in bins : j <= Len(v)
      BY <1>1
    <3> HIDE DEF bins
    <3>2. QED
      BY <1>1, <1>8, <2>1, <3>1, MaxFacts
  <2>3. k \in 1 .. Len(v) /\ k <= w /\ v[k] # {} /\ v[k] \in SUBSET Positions
    BY <1>1, <1>6, <2>2
  <2>4. last = nbits * (k - 1) + nbits - count_leading_zeros(v[k]) - 1
    BY <1>2, <1>3, <1>5, <1>8, <2>1
  <2> HIDE DEF last, bins, prev
  <2>5. /\ last \in StoredEvents /\ Word(last) = k - 1 /\ Bit(last) = Max(v[k])
        /\ Max(v[k]) \in v[k] /\ \A b \in v[k] : b <= Max(v[k])
    BY <2>3, <2>4, StepOfBit
  <2>6. last \in Nat
    BY <2>5, StoredEventsAre DEF IsStored
  <2>7. last < i
    BY <1>1, <2>3, <2>5, <2>6, SameBitSameStep
  <2>8. ASSUME NEW f \in StoredEvents, f < i PROVE f <= last
    <3>1. /\ f \in Nat /\ Word(f) \in Nat /\ Word(f) < Len(v) /\ Bit(f) \in v[Word(f) + 1]
          /\ Word(f) < w
      BY <1>4, <1>8, <2>8
    <3>2. Word(f) + 1 \in bins
      BY <1>1, <1>6, <3>1
    <3>3. Word(f) + 1 <= k
      BY <2>2, <3>2
    <3>4. Word(f) < Word(last) \/ (Word(f) = Word(last) /\ Bit(f) <= Bit(last))
      <4>1. CASE Word(f) + 1 = k
        BY <2>3, <2>5, <3>1, <4>1
      <4>2. CASE Word(f) + 1 # k
        BY <2>3, <2>5, <3>1, <3>3, <4>2
      <4>3. QED
        BY <4>1, <4>2
    <3>5. QED
      BY <2>6, <3>1, <3>4, NotLater
  <2>9. QED
    BY <2>5, <2>7, <2>8 DEF Abstract!IsLastBefore, last
<1>9. CASE prev = {} /\ bins = {}
  <2>1. last = None
    BY <1>2, <1>3, <1>5, <1>9
  <2>2. ASSUME NEW f \in StoredEvents, f < i PROVE FALSE
    <3>1. /\ Word(f) \in Nat /\ Word(f) < Len(v) /\ Bit(f) \in v[Word(f) + 1] /\ Word(f) < w
      BY <1>4, <1>9, <2>2
    <3>2. Word(f) + 1 \in bins
      BY <1>1, <1>6, <3>1
    <3>3. QED
      BY <1>9, <3>2
  <2>3. \A f \in StoredEvents : f \in Nat
    BY StoredEventsAre DEF IsStored
  <2>4. QED
    BY <2>1, <2>2, <2>3 DEF Abstract!IsLastBefore, None, Abstract!None
<1>10. QED
  BY <1>7, <1>8, <1>9

(* Both queries always answer what the set of report steps answers, for    *)
(* every report step: on, before and after the last word of the vector.    *)
THEOREM QueriesAnswered == EventsSpec => []QueriesExact
<1>1. EventsTypeOK => MembershipAnswered
  BY MembershipOf
<1>2. EventsTypeOK => LastEventFound
  BY LastEventOf, ReportStepsAssumption DEF LastEventFound
<1>3. QED
  <2>1. EventsTypeOK => QueriesExact
    BY <1>1, <1>2 DEF QueriesExact
  <2> QED
    BY <2>1, EventsTypeCorrect, PTL
=============================================================================
