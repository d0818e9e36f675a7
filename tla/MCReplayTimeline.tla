-------------------------- MODULE MCReplayTimeline --------------------------
(***************************************************************************)
(* The refinement of ScheduleTimeline on the decks of MCScheduleReplay.    *)
(***************************************************************************)
EXTENDS MCScheduleReplay, ReplayTimeline
=============================================================================
