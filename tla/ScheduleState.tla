--------------------------- MODULE ScheduleState ---------------------------
(***************************************************************************)
(* One entry of Schedule::snapshots, and what the keywords of the SCHEDULE *)
(* section do to it.  A snapshot is the complete dynamic input at a report *)
(* step: what persists from step to step (wells, actions, the restart      *)
(* output configuration, a NEXTSTEP that applies to all steps) and what    *)
(* lasts one step only (events, SAVE).  The keywords kept are the ones     *)
(* that tell the two apart, that can fail, that depend on the matching     *)
(* wells of an action, or that request output.  A well has one connection. *)
(***************************************************************************)
EXTENDS Integers, Sequences, SequencesExt, FiniteSets

CONSTANTS
  Wells,       \* well names
  Month,       \* Month[i]: calendar month in which report step i starts
  RstWells     \* the wells of a restart file

NONE == "none"
WellStatus == {"OPEN", "STOP", "SHUT"}
ConnState  == {"OPEN", "SHUT"}

(***************************************************************************)
(* Keywords.  The well name "?" stands for the wells matched by the action *)
(* that the keyword belongs to.                                            *)
(***************************************************************************)
WELSPECS(w)         == [name |-> "WELSPECS", well |-> w]
COMPDAT(w, c)       == [name |-> "COMPDAT", well |-> w, state |-> c]
WELOPEN(w, st)      == [name |-> "WELOPEN", well |-> w, status |-> st]
WELOPENConn(w, c)   == [name |-> "WELOPENConn", well |-> w, state |-> c]
NEXTSTEP(all)       == [name |-> "NEXTSTEP", apply_to_all |-> all]
RPTRST(basic, freq) == [name |-> "RPTRST", basic |-> basic, freq |-> freq]
SAVE                == [name |-> "SAVE"]
EXIT                == [name |-> "EXIT"]
PYACTION            == [name |-> "PYACTION"]
ACTIONX(act, body)  == [name |-> "ACTIONX", action |-> act, body |-> body]

NamesWell(kw) == kw.name \in {"COMPDAT", "WELOPEN", "WELOPENConn"}

(***************************************************************************)
(* The keywords that ACTIONX and PYACTION may hold, and those of the deck. *)
(***************************************************************************)
Listed(kws, names) == kws \in Seq(Range(kws)) /\ \A kw \in Range(kws) : kw.name \in names

pyaction_allowed_list == {"WELSPECS", "WELOPEN", "WELOPENConn", "NEXTSTEP", "EXIT"}
actionx_allowed_list  == pyaction_allowed_list \cup {"COMPDAT"}

LegalBlock(kws) ==
  /\ Listed(kws, actionx_allowed_list \cup {"RPTRST", "SAVE", "PYACTION", "ACTIONX"})
  /\ \A kw \in Range(kws) : kw.name = "ACTIONX" => Listed(kw.body, actionx_allowed_list)

(***************************************************************************)
(* The first snapshot and the copy that starts the next report step: the   *)
(* one-step part is reset, the rest is inherited.                          *)
(***************************************************************************)
NotSet == -1
NoRstConfig == [write_rst_file |-> "no", basic |-> NotSet, freq |-> NotSet]

create_first ==
  [sim_step         |-> 0,
   month            |-> Month[0],
   first_in_month   |-> TRUE,
   first_in_year    |-> TRUE,
   wells            |-> [w \in {} |-> NONE],
   events           |-> {},
   wellgroup_events |-> {},
   next_tstep       |-> NONE,
   actions          |-> [a \in {} |-> << >>],
   pyaction         |-> FALSE,
   rst_config       |-> NoRstConfig,
   save             |-> FALSE]

Year(month) == month \div 12

create_next(src, report_step) ==
  LET month == Month[report_step]
  IN [src EXCEPT
       !.sim_step         = @ + 1,
       !.month            = month,
       !.first_in_month   = month > src.month,
       !.first_in_year    = Year(month) > Year(src.month),
       !.events           = IF src.next_tstep = NONE THEN {} ELSE {"TUNING_CHANGE"},
       !.wellgroup_events = {},
       !.next_tstep       = IF @ = "all" THEN "all" ELSE NONE,
       !.save             = FALSE]

create(snaps, step) ==
  IF snaps = << >> THEN create_first ELSE create_next(Last(snaps), step)

(***************************************************************************)
(* Status of a set of wells.  A well without connections cannot open, an   *)
(* event is raised only when the status really changes, and shutting a     *)
(* well withdraws a request to open it.                                    *)
(***************************************************************************)
updateWellStatus(s, names, status) ==
  LET updated == {w \in names : status # "OPEN" \/ s.wells[w].conn # NONE}
      changed == {w \in updated : s.wells[w].status # status}
      dropped == IF status = "SHUT" THEN {<<w, "REQUEST_OPEN_WELL">> : w \in updated} ELSE {}
  IN [s EXCEPT
       !.wells = [w \in DOMAIN @ |-> IF w \in updated THEN [@[w] EXCEPT !.status = status] ELSE @[w]],
       !.events = IF changed = {} THEN @ ELSE @ \cup {"WELL_STATUS_CHANGE"},
       !.wellgroup_events = (@ \cup {<<w, "WELL_STATUS_CHANGE">> : w \in changed}) \ dropped]

updateOpenShutEvents(s, names) ==
  LET having(st) == {w \in names : s.wells[w].status = st}
  IN [s EXCEPT !.wellgroup_events =
       (@ \cup {<<w, "REQUEST_OPEN_WELL">> : w \in having("OPEN")}
          \cup {<<w, "REQUEST_SHUT_WELL">> : w \in having("SHUT")})
         \ ({<<w, "REQUEST_SHUT_WELL">> : w \in having("OPEN")}
              \cup {<<w, "REQUEST_OPEN_WELL">> : w \in having("SHUT")})]

setConnections(s, names, state) ==
  [s EXCEPT !.wells = [w \in DOMAIN @ |->
                         IF w \in names THEN [@[w] EXCEPT !.conn = state] ELSE @[w]],
            !.events = IF names = {} THEN @ ELSE @ \cup {"COMPLETION_CHANGE"}]

(***************************************************************************)
(* handleKeyword.  "matches" is what "?" stands for; a well name that does *)
(* not exist is an error, an empty match is only warned about.  (A name    *)
(* that the body of an ACTIONX mentions is only warned about, too; bodies  *)
(* are assumed to use "?" here.)                                           *)
(***************************************************************************)
wellNames(kw, matches) == IF kw.well = "?" THEN matches ELSE {kw.well}

NameError(s, kw) == NamesWell(kw) /\ kw.well # "?" /\ kw.well \notin DOMAIN s.wells

handleWELSPECS(s, w) ==
  IF w \in DOMAIN s.wells
  THEN s
  ELSE [s EXCEPT
         !.wells = [v \in DOMAIN @ \cup {w} |->
                      IF v = w THEN [status |-> "SHUT", conn |-> NONE] ELSE @[v]],
         !.events = @ \cup {"NEW_WELL"},
         !.wellgroup_events = @ \cup {<<w, "NEW_WELL">>}]

handleWELOPEN(s, names, status) ==
  updateOpenShutEvents(updateWellStatus(s, names, status), names)

handleCOMPDAT(s, names, state) ==
  LET changed == {w \in names : s.wells[w].conn # state}
      new     == setConnections(s, changed, state)
  IN [new EXCEPT !.wellgroup_events = @ \cup {<<w, "COMPLETION_CHANGE">> : w \in changed}]

handleWELOPENConn(s, names, state) ==
  LET connected == {w \in names : s.wells[w].conn # NONE}
      new       == setConnections(s, connected, state)
  IN IF names = {} THEN s ELSE [new EXCEPT !.events = @ \cup {"COMPLETION_CHANGE"}]

handleNEXTSTEP(s, all) ==
  [s EXCEPT !.next_tstep = IF all THEN "all" ELSE "once",
            !.events     = @ \cup {"TUNING_CHANGE"}]

update_schedule(cfg, basic, freq) ==
  LET b == IF basic = NotSet THEN cfg.basic ELSE basic
  IN [basic |-> b,
      freq  |-> IF freq = NotSet THEN cfg.freq ELSE freq,
      write_rst_file |-> CASE b = NotSet -> cfg.write_rst_file
                           [] b = 0      -> "no"
                           [] b \in 1..2 -> "yes"
                           [] OTHER      -> "basic"]

addACTIONX(s, act, body) ==
  [s EXCEPT !.actions = [a \in DOMAIN @ \cup {act} |-> IF a = act THEN body ELSE @[a]]]

handleKeyword(s, kw, matches) ==
  CASE kw.name = "WELSPECS"    -> handleWELSPECS(s, kw.well)
    [] kw.name = "COMPDAT"     -> handleCOMPDAT(s, wellNames(kw, matches), kw.state)
    [] kw.name = "WELOPEN"     -> handleWELOPEN(s, wellNames(kw, matches), kw.status)
    [] kw.name = "WELOPENConn" -> handleWELOPENConn(s, wellNames(kw, matches), kw.state)
    [] kw.name = "NEXTSTEP"    -> handleNEXTSTEP(s, kw.apply_to_all)
    [] kw.name = "RPTRST"      -> [s EXCEPT !.rst_config = update_schedule(@, kw.basic, kw.freq)]
    [] kw.name = "SAVE"        -> [s EXCEPT !.save = TRUE]
    [] kw.name = "ACTIONX"     -> addACTIONX(s, kw.action, kw.body)
    [] kw.name = "PYACTION"    -> [s EXCEPT !.pyaction = TRUE]
    [] kw.name = "EXIT"        -> s

(***************************************************************************)
(* A whole list of keywords: the state after it, or FAILED when one of     *)
(* them throws (the later ones are then not handled).                      *)
(***************************************************************************)
FAILED == [failed |-> TRUE]
IsFailed(s) == "failed" \in DOMAIN s

handleKeywords(s, kws, matches) ==
  LET handle(t, kw) == IF IsFailed(t) \/ NameError(t, kw) THEN FAILED
                       ELSE handleKeyword(t, kw, matches)
  IN FoldLeft(handle, s, kws)

(* end_report: a well whose connections are all shut is shut itself. *)
end_report(s) ==
  updateWellStatus(s, {w \in DOMAIN s.wells : /\ s.wells[w].conn = "SHUT"
                                              /\ s.wells[w].status # "SHUT"}, "SHUT")

(* A report step from its first to its last keyword. *)
processBlock(s, kws) ==
  LET t == handleKeywords(s, kws, {}) IN IF IsFailed(t) THEN FAILED ELSE end_report(t)

(* The wells an action affects: those it opens, shuts or creates. *)
affectedWells(s, kws, matches) ==
  LET opened == UNION {wellNames(kw, matches) :
                         kw \in {k \in ToSet(kws) : k.name \in {"WELOPEN", "WELOPENConn"}}}
      named  == {kw.well : kw \in {k \in ToSet(kws) : k.name = "WELSPECS"}}
  IN opened \cup (named \ DOMAIN s.wells)

(* The keywords of an action applied to the step they are added to. *)
actionEvents(s, affected) ==
  IF affected = {} THEN s
  ELSE [s EXCEPT !.events = @ \cup {"ACTIONX_WELL_EVENT"},
                 !.wellgroup_events = @ \cup {<<w, "ACTIONX_WELL_EVENT">> : w \in affected}]

amended(s, kws, matches, is_action) ==
  LET t   == handleKeywords(s, kws, matches)
      end == end_report(t)
  IN IF IsFailed(t) THEN FAILED
     ELSE IF is_action THEN actionEvents(end, affectedWells(s, kws, matches)) ELSE end

(***************************************************************************)
(* Is a restart file due at a report step, given the configuration of the  *)
(* step before and the month of the previous restart file?                 *)
(***************************************************************************)
rst_file(s, cfg, previous_month) ==
  LET freq == IF cfg.freq = NotSet THEN 1 ELSE cfg.freq
  IN CASE cfg.write_rst_file = "yes" -> TRUE
       [] cfg.write_rst_file = "no"  -> FALSE
       [] cfg.basic = 3 -> s.sim_step % freq = 0
       [] cfg.basic = 4 -> s.first_in_year /\ Year(s.month) - Year(previous_month) >= freq
       [] cfg.basic = 5 -> s.first_in_month /\ s.month - previous_month >= freq

(***************************************************************************)
(* A run that continues from a restart file: the wells of the file are     *)
(* entered in the snapshot before the restart step, and the restart step   *)
(* gets the events of that snapshot.                                       *)
(***************************************************************************)
addRstWells(s) ==
  [s EXCEPT !.wells = [w \in DOMAIN @ \cup DOMAIN RstWells |->
                         IF w \in DOMAIN RstWells THEN RstWells[w] ELSE @[w]],
            !.events = @ \cup {"TUNING_CHANGE"}
                         \cup (IF DOMAIN RstWells = {} THEN {} ELSE {"NEW_WELL"}),
            !.wellgroup_events = @ \cup {<<w, "NEW_WELL">> : w \in DOMAIN RstWells}]

mergeEvents(s, prev) == [s EXCEPT !.events = @ \cup prev.events,
                                  !.wellgroup_events = @ \cup prev.wellgroup_events]
=============================================================================
