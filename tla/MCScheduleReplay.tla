-------------------------- MODULE MCScheduleReplay --------------------------
(***************************************************************************)
(* ScheduleReplay on small decks: two wells, four report steps.  Well Q is *)
(* introduced at step 1, so that naming it earlier is an error.            *)
(***************************************************************************)
EXTENDS ScheduleReplay

CONSTANTS P, Q

MCMonth == [i \in 0 .. N - 1 |-> i]

(* A producer shut by an action or a script; NEXTSTEP for one step;        *)
(* restart output by calendar.                                             *)
ActionDeck ==
  (0 :> <<WELSPECS(P), COMPDAT(P, "OPEN"), WELOPEN(P, "OPEN"), RPTRST(5, 2), PYACTION,
          ACTIONX("A", <<WELOPEN("?", "SHUT")>>)>>) @@
  (1 :> <<WELSPECS(Q), NEXTSTEP(FALSE)>>) @@
  (2 :> <<COMPDAT(Q, "OPEN"), WELOPEN(Q, "OPEN"), SAVE>>) @@
  [i \in 3 .. N - 1 |-> <<WELOPENConn(P, "SHUT")>>]

(* No action; a NEXTSTEP that persists; restart output is switched on and  *)
(* off again.                                                              *)
ScriptDeck ==
  (0 :> <<WELSPECS(P), COMPDAT(P, "OPEN"), PYACTION, NEXTSTEP(TRUE)>>) @@
  (1 :> <<RPTRST(3, 1), WELSPECS(Q), COMPDAT(Q, "SHUT"), WELOPEN(Q, "STOP")>>) @@
  (2 :> <<WELOPEN(P, "OPEN"), RPTRST(0, NotSet)>>) @@
  [i \in 3 .. N - 1 |-> <<WELOPENConn(Q, "OPEN")>>]

(* An error: well Q is opened before it is introduced. *)
ErrorDeck ==
  (0 :> <<WELSPECS(P), PYACTION>>) @@
  (1 :> <<WELOPEN(Q, "OPEN")>>) @@
  [i \in 2 .. N - 1 |-> <<WELSPECS(Q)>>]

MCDecks == {ActionDeck, ScriptDeck, ErrorDeck}

(* What remains of a deck when a run restarts from step 2: the whitelisted *)
(* output keywords at step 0, nothing else before the restart step.        *)
RestartDeck ==
  (0 :> <<RPTRST(3, 2)>>) @@
  (1 :> << >>) @@
  (2 :> <<ACTIONX("A", <<WELOPEN("?", "SHUT")>>), PYACTION, WELSPECS(Q), COMPDAT(Q, "OPEN")>>) @@
  [i \in 3 .. N - 1 |-> <<WELOPEN(P, "STOP"), WELOPENConn(Q, "SHUT")>>]

MCRestartDecks == {RestartDeck}

NoRstWells == [w \in {} |-> NONE]
OneRstWell == [w \in {P} |-> [status |-> "OPEN", conn |-> "OPEN"]]

MCScriptKeywords == {<<NEXTSTEP(FALSE)>>, <<WELOPENConn(P, "SHUT")>>, <<EXIT>>}

(* Short blocks after a restart from step 1, for the run that checks       *)
(* liveness; in the second deck the last block fails.                      *)
LiveDeck ==
  (0 :> << >>) @@
  (1 :> <<PYACTION, ACTIONX("A", <<NEXTSTEP(FALSE)>>)>>) @@
  [i \in 2 .. N - 1 |-> <<COMPDAT(P, "OPEN")>>]

LiveErrorDeck == [LiveDeck EXCEPT ![N - 1] = <<WELOPEN(Q, "OPEN")>>]

MCLiveDecks == {LiveDeck, LiveErrorDeck}
=============================================================================
