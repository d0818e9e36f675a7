-------------------------- MODULE ScheduleTimeline --------------------------
(***************************************************************************)
(* What class Schedule promises to the simulator, its actions and its      *)
(* scripts: there is one state for every report step, at all times.  A     *)
(* change of the input at a report step is one indivisible operation, it   *)
(* takes effect at once on that step and on all the later ones, and no     *)
(* earlier step is touched.  There are no truncations, no replays and no   *)
(* batching here.                                                          *)
(***************************************************************************)
EXTENDS ScheduleState

CONSTANTS
  N,               \* number of report steps
  RestartStep,     \* report step of the restart file, 0: no restart
  Decks,           \* the decks considered
  ScriptKeywords   \* lists of keywords that may be inserted

Steps == 0 .. N - 1

VARIABLES
  keywords,        \* all the keywords given for each report step
  timeline,        \* timeline[i + 1]: the state of report step i
  now              \* the report step the simulator has reached

vars == <<keywords, timeline, now>>

(***************************************************************************)
(* The first n steps of the timeline that begins with "prefix" and is      *)
(* determined by the keywords from there on.  The steps after one that     *)
(* fails fail too.                                                         *)
(***************************************************************************)
Extend(prefix, kws, n) ==
  LET extend(t, i) ==
        Append(t, IF t # << >> /\ IsFailed(Last(t)) THEN FAILED
                  ELSE processBlock(create(t, i), kws[i]))
      missing == [j \in 1 .. n - Len(prefix) |-> Len(prefix) + j - 1]
  IN FoldLeft(extend, prefix, missing)

Complete(prefix, kws) == Extend(prefix, kws, N)

(***************************************************************************)
(* How the timeline starts: from the deck alone or, in a run that          *)
(* continues from a restart file, with the wells of the file from the step *)
(* before the restart step on.                                             *)
(***************************************************************************)
Loaded(kws) ==
  LET before == Extend(<< >>, kws, RestartStep)
  IN IF RestartStep = 0 \/ IsFailed(Last(before)) THEN before
     ELSE [before EXCEPT ![RestartStep] = addRstWells(@)]

Started(kws) ==
  LET t == Complete(Loaded(kws), kws)
  IN IF RestartStep = 0 \/ IsFailed(t[RestartStep + 1]) THEN t
     ELSE [t EXCEPT ![RestartStep + 1] = mergeEvents(@, t[RestartStep])]

Init ==
  /\ keywords \in Decks
  /\ timeline = Started(keywords)
  /\ now = RestartStep

(* Keywords added by an action replace the state of the step, the later    *)
(* states follow.  Keywords that fail are not added; they end the run.     *)
Amend(step, kws, matches, is_action) ==
  LET s == timeline[step + 1]
      t == amended(s, kws, matches, is_action)
  IN /\ step >= now
     /\ ~IsFailed(s)
     /\ ~IsFailed(t)
     /\ keywords' = [keywords EXCEPT ![step] = @ \o kws]
     /\ timeline' = Complete(Append(SubSeq(timeline, 1, step), t), keywords')
     /\ UNCHANGED now

RunAction(act, matches) ==
  /\ matches \subseteq DOMAIN timeline[now + 1].wells
  /\ Amend(now, timeline[now + 1].actions[act], matches, TRUE)

SetStatus(w, status, step) == Amend(step, <<WELOPEN(w, status)>>, {}, TRUE)

Insert(kws, step) == Amend(step, kws, {}, FALSE)

Advance ==
  /\ now < N - 1
  /\ now' = now + 1
  /\ UNCHANGED <<keywords, timeline>>

Next ==
  \/ \E act \in DOMAIN timeline[now + 1].actions, m \in SUBSET Wells : RunAction(act, m)
  \/ \E w \in Wells, st \in WellStatus, i \in Steps : SetStatus(w, st, i)
  \/ \E kws \in ScriptKeywords, i \in Steps : Insert(kws, i)
  \/ Advance

Spec == Init /\ [][Next]_vars
=============================================================================
