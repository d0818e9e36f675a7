--------------------------- MODULE ReplayTimeline ---------------------------
(***************************************************************************)
(* ScheduleReplay implements ScheduleTimeline.  The timeline is there as   *)
(* soon as the deck is given.  Once the schedule is constructed it is the  *)
(* snapshots, completed with the keywords of the steps that are still to   *)
(* be replayed; a replay, at once or put off to the end of a script, is    *)
(* then invisible.  The timeline is recorded in a history variable.        *)
(***************************************************************************)
EXTENDS ScheduleReplay

VARIABLE timeline

(* No run is at a step before that of the restart file.                    *)
Reached == IF sim < RestartStep THEN RestartStep ELSE sim

Timeline == INSTANCE ScheduleTimeline WITH keywords <- input, now <- Reached

Constructed == mode = "construct" => mode' = "driver"

TimelineInit == Init /\ timeline = Timeline!Started(input)
TimelineNext ==
  /\ Next
  /\ timeline' = IF Constructed THEN Timeline!Complete(snapshots', input') ELSE timeline
TimelineSpec == TimelineInit /\ [][TimelineNext]_<<vars, timeline>>

(* Every behaviour of the replaying schedule is one of the timeline: all   *)
(* operations appear indivisible and take effect immediately, whatever is  *)
(* truncated, batched and rebuilt underneath.                              *)
ImplementsTimeline == Timeline!Spec
=============================================================================
