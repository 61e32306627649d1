----------------------------- MODULE MCDesktop -----------------------------
(***************************************************************************)
(* The parts of the desktop window for TLC: the workspace, reading a part  *)
(* of a score, engraving a bar and a page, and the Score View.  Each is a  *)
(* state machine of its own; a behaviour exercises one of them.            *)
(* (A layout binds no name of a variable: TLC evaluates a constant table   *)
(* once only if it does not.)                                              *)
(***************************************************************************)
EXTENDS MCScoreReading, WorkspaceShell

CONSTANTS
  MaxBarEvents, BarEvents, Signatures, NoSign,
  Opening, Columns, MaxBars, Widths, Selections,
  SizeLadder, DefaultStep, Sheets, NoScore, Rooms, Payloads, ScrollStops

VARIABLES
  exercised,
  voices, signature,
  written,
  holder, rendered, laidOut, laidOutFor, prefs, page, scroll, room

engraving == <<voices, signature>>
view == <<holder, rendered, laidOut, laidOutFor, prefs, page, scroll, room>>

ThreeTools == <<"tuner", "spectrogram", "harmonic-analyzer">>
FormerIds == [id \in {"pitch-detector"} |-> "tuner"]

\* Saved documents a start may find: none, valid, repeated or unknown ids, empty
\* panes, nesting beyond the limit, and settings of another version.
Halves(a, b) == SplitNode(FALSE, 95, a, b)
TooDeep ==
  Halves(Halves(Halves(Leaf("tuner#2"), Halves(Leaf("tuner"), NoTree)),
                Pane(<<"spectrogram", "pitch-detector", "spectrogram">>, "tuner")),
         Leaf("pitch-detector"))
Documents ==
  [root : {NoTree, TooDeep, Pane(<<"tuner#2", "unknown">>, "unknown"),
           Halves(NoTree, Pane(<<"tuner", "spectrogram">>, "spectrogram")),
           Halves(Pane(<<"pitch-detector", "unknown", "spectrogram">>, "spectrogram"),
                  Pane(<<"tuner", "harmonic-analyzer">>, "tuner"))},
   floating : {<<>>, <<"unknown", "harmonic-analyzer", "pitch-detector", "harmonic-analyzer">>},
   settings : [{"tuner"} -> {"none", "otherVersion"}],
   focus : {NoTool, "tuner#2", "pitch-detector"}]

SavedIds == {"tuner", "spectrogram", "harmonic-analyzer", "tuner#2", "pitch-detector", "unknown"}

Bar == INSTANCE MeasureSpacing
Page == INSTANCE EngravedScore
Sheet == INSTANCE PagedScore
LayoutFor == Sheet!EveryLayout(Sheets, Rooms, {"Voice", "Piano"})
View == INSTANCE ScoreView

\* What a bar may hold: sharps in two octaves, one of them far over the staff and over a
\* flat, a natural, a tied sharp, a cluster of seconds, a rest, a flat of no single symbol
\* over a note below the staff, and a grace note.
Plain == [actual |-> 1, normal |-> 1]
Tone(step, alter) == [step |-> step, octave |-> 4, alter |-> alter, tiedFrom |-> FALSE]
Sounds(duration, notes) ==
  [duration |-> duration, staff |-> 1, grace |-> FALSE, tuplet |-> Plain, notes |-> notes]
SomeBarEvents ==
  {Sounds(2, <<Tone(3, 1)>>), Sounds(1, <<Tone(3, 0), Tone(4, 0), Tone(5, 0)>>),
   Sounds(2, <<[Tone(3, 1) EXCEPT !.octave = 6], Tone(5, -1)>>), Sounds(2, <<>>),
   Sounds(2, <<[Tone(3, 1) EXCEPT !.tiedFrom = TRUE]>>),
   Sounds(5, <<[Tone(5, 0) EXCEPT !.octave = 3], Tone(6, -1)>>),
   [Sounds(0, <<Tone(3, 0)>>) EXCEPT !.grace = TRUE]}
Treble == [line |-> 6, reference |-> 32, octaveChange |-> 0]
SomeSignatures ==
  {[clef |-> Treble, key |-> 1, time |-> [beats |-> 2, beatType |-> 4]],
   [clef |-> Treble, key |-> -1, time |-> [beats |-> 3, beatType |-> 8]]}

\* Bars for a voice and a piano: whole notes and faster ones, high and low ones, rests,
\* endings, repeats, a jump, and tempo marks on the second part and on an empty bar.
Slot(onset, length) ==
  [onset |-> onset, length |-> length, rest |-> FALSE, pad |-> 0, top |-> 0, bottom |-> 400]
Whole ==
  [clefs |-> <<0>>, key |-> -1, time |-> FALSE, repeatStart |-> FALSE, repeatEnd |-> FALSE,
   ending |-> 0, jump |-> FALSE, dynamic |-> FALSE, tempos |-> {}, length |-> 4,
   slots |-> <<<<Slot(0, 4)>>>>]
Quick == [Whole EXCEPT !.slots = <<<<Slot(0, 1), [Slot(1, 3) EXCEPT !.pad = 120]>>>>]
Rest == [Whole EXCEPT !.slots = <<<<[Slot(0, 4) EXCEPT !.rest = TRUE]>>>>]
Short == [Whole EXCEPT !.length = 1, !.dynamic = TRUE,
                       !.slots = <<<<[Slot(0, 1) EXCEPT !.top = -400, !.bottom = 650]>>>>]
OnTwoStaves(b, lower) == [b EXCEPT !.clefs = <<0, 0>>, !.slots = @ \o lower.slots]
TwoHalves == [Whole EXCEPT !.slots = <<<<Slot(0, 2), Slot(2, 2)>>>>]
Marked(label) == {[onset |-> 0, label |-> label, staff |-> 1]}
SomeColumns ==
  {<<[Whole EXCEPT !.time = TRUE, !.repeatEnd = TRUE, !.ending = 1], OnTwoStaves(Quick, TwoHalves)>>,
   <<Short, OnTwoStaves(Short, Short)>>,
   <<[Quick EXCEPT !.time = TRUE, !.key = 2, !.ending = 1], OnTwoStaves(Whole, TwoHalves)>>,
   <<[Quick EXCEPT !.repeatStart = TRUE, !.jump = TRUE, !.clefs = <<1>>],
     [OnTwoStaves(Quick, TwoHalves) EXCEPT !.tempos = Marked("fast")]>>,
   <<Rest, OnTwoStaves(Rest, Rest)>>,
   <<[Rest EXCEPT !.tempos = Marked("slow")], OnTwoStaves(Rest, Rest)>>}
Part(key, staves, bars) ==
  [key |-> key, name |-> 5, short |-> 3, staves |-> staves, verses |-> 0, bars |-> bars]
Duo == <<[Part("Voice", <<TRUE>>, <<>>) EXCEPT !.verses = 1], Part("Piano", <<TRUE, TRUE>>, <<>>)>>

\* The scores the view is given, the rooms, and a workspace saved at a size between two.
TwoSheets ==
  [duet |-> <<Part("Voice", <<TRUE>>, <<Whole, Quick, Rest, Whole, Quick>>),
              Part("Piano", <<TRUE>>, <<Quick, Rest, Rest, Quick, Whole>>)>>,
   solo |-> <<Part("Voice", <<TRUE>>, <<Quick, Whole, Quick>>)>>]
ThreeSizes == <<4, 7, 13>>
TwoRooms == {[width |-> 420, height |-> 160], [width |-> 260, height |-> 120]}
SavedView == {[thisVersion |-> TRUE, view |-> "vertical", size |-> 6, hidden |-> {"Voice", "Piano"}]}
PartSelections == {{}, {"Voice"}, {"Piano"}}
OneStop == {[x |-> 150, y |-> 120]}

MCInit ==
  /\ exercised \in {"shell", "reading", "bar", "page", "view"}
  /\ ShellInit /\ (exercised # "shell" => settings = PitchPractice.settings)
  /\ Init
  /\ Bar!Init /\ (exercised # "bar" => signature = CHOOSE s \in Signatures : TRUE)
  /\ Page!Init
  /\ View!Init /\ (exercised # "view" => holder = NoScore)

MCNext ==
  /\ UNCHANGED exercised
  /\ \/ /\ exercised = "shell" /\ ShellNext
        /\ UNCHANGED vars
        /\ UNCHANGED engraving /\ UNCHANGED written /\ UNCHANGED view
     \/ /\ exercised = "reading" /\ Next
        /\ UNCHANGED shell
        /\ UNCHANGED engraving /\ UNCHANGED written /\ UNCHANGED view
     \/ /\ exercised = "bar" /\ Bar!Next
        /\ UNCHANGED shell
        /\ UNCHANGED vars /\ UNCHANGED written /\ UNCHANGED view
     \/ /\ exercised = "page" /\ Page!Next
        /\ UNCHANGED shell
        /\ UNCHANGED vars /\ UNCHANGED engraving /\ UNCHANGED view
     \/ /\ exercised = "view" /\ View!Next
        /\ UNCHANGED shell
        /\ UNCHANGED vars /\ UNCHANGED engraving /\ UNCHANGED written
     \* A bar and a score may be finished.
     \/ /\ exercised \in {"bar", "page"}
        /\ UNCHANGED shell
        /\ UNCHANGED vars /\ UNCHANGED engraving /\ UNCHANGED written /\ UNCHANGED view

MCSpec ==
  MCInit /\ [][MCNext]_<<exercised, shell, vars, engraving, written, view>>

BarReadsBack == exercised = "bar" => Bar!BarReadsBack
NothingInTheBarTouches == exercised = "bar" => Bar!NothingInTheBarTouches
PageReadsBack == exercised = "page" => Page!PageReadsBack
KeptBarStaysInView == View!KeptBarStaysInView

\* Documented behaviours that the code does not have.
EveryTempoIsShown == Page!EveryTempoIsShown
LayoutIsOfTheRenderedScore == View!LayoutIsOfTheRenderedScore
KeptPlaceIsThePlace == View!KeptPlaceIsThePlace
=============================================================================
