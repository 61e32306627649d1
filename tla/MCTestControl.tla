--------------------------- MODULE MCTestControl ---------------------------
(***************************************************************************)
(* The test control channel for TLC: five of the approved states, one of   *)
(* them naming a score that is not there, and lines of every kind.         *)
(***************************************************************************)
EXTENDS TestControl

Plain ==
  [tools |-> <<>>, presentation |-> "none", arrangement |-> "single", view |-> NoName,
   settings |-> FALSE, panel |-> NoName, feedback |-> FALSE, geometry |-> "normal",
   microphone |-> "available", tone |-> FALSE, fixture |-> NoName, showSummary |-> TRUE,
   hold |-> FALSE]

Docked(tools) == [Plain EXCEPT !.tools = tools, !.presentation = "docked"]

FiveStates ==
  [id \in {"settings-open", "settings-midi", "score-import-clean", "score-view-page",
           "two-tools-split"} |->
     CASE id = "settings-open" -> [Plain EXCEPT !.settings = TRUE]
       [] id = "settings-midi" -> [Plain EXCEPT !.settings = TRUE, !.panel = "midi"]
       [] id = "score-import-clean" -> [Plain EXCEPT !.fixture = "missing.musicxml"]
       [] id = "score-view-page" ->
            [Docked(<<"score-view">>) EXCEPT
               !.view = "page", !.fixture = "sample", !.showSummary = FALSE]
       [] OTHER -> [Docked(<<"tuner", "spectrogram">>) EXCEPT !.arrangement = "split"]]

Line(verb, argument) == [verb |-> verb, argument |-> argument]

LinesOfEveryKind ==
  {Line("open-state", id) : id \in DOMAIN FiveStates \cup {"no-such-state"}}
    \cup {Line("click", id) : id \in {"hamburger-button", "microphone-button", "open-sample-button"}}
    \cup {Line("geometry", "slim"), Line("theme", "light"), Line("status", NoName),
          Line("", NoName), Line("quit", NoName)}

Buttons == {"file-button", "hamburger-button", "microphone-button", "open-sample-button"}
PanelTabs == <<"appearance", "audio-device", "midi", "practice", "reset">>
ViewNames ==
  [t \in Catalog |->
     CASE t = "score-view" -> {"page"} [] t = "tuner" -> {"graph", "meter"} [] OTHER -> {}]
===========================================================================
