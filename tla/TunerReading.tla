---------------------------- MODULE TunerReading ----------------------------
(***************************************************************************)
(* What the tuner shows of what was heard: the shared pitch analysis, the  *)
(* one consumer that detects pitches, and the tuner's tracker, which reads *)
(* its latest result.  Each runs on a timer of its own of the same rate,   *)
(* so the tuner may read one result twice and miss another.                *)
(*                                                                         *)
(* Pitches are whole parts of a semitone (Semitone of them to one), and    *)
(* easing is rounded away from the smoothed pitch.                         *)
(***************************************************************************)
EXTENDS Integers, FiniteSets, SequencesExt

CONSTANTS
  Pitches, Semitone,
  AverageWindow,   \* maximumAverageWindow
  Presets,         \* [easing: percent, averaging (1..AverageWindow), noteSwitch, dropout]
  MaxHistory,      \* points the graph keeps
  Settling         \* bound of the count of equal frames

VARIABLES
  muted,
  late,         \* whether a block that was not yet muted is still to reach the FIFO
  window,       \* the pitches sounding in the samples of the analysis window
  latest,       \* latestFrequency
  settings,     \* the sliders
  recent,       \* recentMidiPitches, the newest last
  smoothed,     \* smoothedMidi
  pending,      \* the suspected jump: its pitch and its frames
  silentFrames, \* framesWithoutPitch
  locked,       \* the note shown
  graph,        \* the history the graph draws
  same          \* for the properties: equal results read in a row, up to Settling

input == <<muted, late>>
analysis == <<window, latest>>
tracker == <<recent, smoothed, pending, silentFrames, locked>>
vars == <<input, analysis, settings, tracker, graph, same>>

NoPitch == 0
NothingPending == [pitch |-> NoPitch, frames |-> 0]
Jump == 5 * Semitone
MatchingTolerance == (3 * Semitone) \div 2
ConfirmationFrames == 4

Distance(p, q) == IF p > q THEN p - q ELSE q - p
Nearest(pitch) == ((2 * pitch + Semitone) \div (2 * Semitone)) * Semitone

\* The readings of one pitch that leave nothing else in the average, and what easing then
\* leaves of the distance to it, which was no jump, with each further one.
Filling(preset) == IF preset.averaging > 2 THEN preset.averaging ELSE 2

Closing(preset) ==
  LET left[n \in 0..Settling] ==
        IF n = 0 THEN Jump ELSE left[n - 1] - (left[n - 1] * preset.easing + 99) \div 100
  IN left

\* Settling is enough for every preset: to confirm a jump that comes while the average still
\* fills, to close the distance, and to forget a note that ended.
TunerAssumption ==
  /\ Pitches \subseteq Nat \ {NoPitch} /\ Semitone \in Nat \ {0} /\ AverageWindow \in Nat \ {0}
  /\ Settling \in Nat
  /\ \A preset \in Presets :
       /\ preset.easing \in 1..100 /\ preset.averaging \in Nat \ {0}
       /\ preset.noteSwitch \in Nat /\ preset.dropout \in Nat
       /\ Settling >= Filling(preset) + ConfirmationFrames - 1
       /\ Closing(preset)[Settling - Filling(preset) + 1] = 0
       /\ Settling >= preset.dropout

-----------------------------------------------------------------------------
(* The shared analysis                                                     *)

\* Its timer: new samples of a sound or of silence replace the whole analysis window or shift
\* into it; a window of more than one sound is detected as any of them or as none.  With no
\* sample in the FIFO (AudioSampleFifo) the timer does nothing, and the last result stands.
Analyse ==
  /\ ~muted \/ late
  /\ \E sound \in {{}} \union {{pitch} : pitch \in Pitches} :
       window' \in {sound, window \union sound}
  /\ \/ latest' \in window'
     \/ Cardinality(window') # 1 /\ latest' = NoPitch
  /\ late' = FALSE
  /\ UNCHANGED <<muted, settings, tracker, graph, same>>

-----------------------------------------------------------------------------
(* The tracker                                                             *)

\* The running mean of a suspected jump's frames, rounded.
Drawn(frame) ==
  LET n == pending.frames + 1
  IN [pitch |-> pending.pitch + (2 * (frame - pending.pitch) + n) \div (2 * n), frames |-> n]

\* isConfirmedPitch: a reading near the smoothed pitch is taken at once; a far one is a
\* suspected harmonic until enough readings in a row agree on it.
Near(frame) == smoothed = NoPitch \/ Distance(frame, smoothed) <= Jump

Suspected(frame) ==
  IF pending.frames = 0 \/ Distance(frame, pending.pitch) > MatchingTolerance
  THEN [pitch |-> frame, frames |-> 1]
  ELSE Drawn(frame)

Confirmed(frame) == Suspected(frame).frames >= ConfirmationFrames

\* The pitches averaged with a reading: a confirmed jump starts a segment of its own.
SegmentOfAll(frame) == recent
Segment(frame) == IF Near(frame) THEN recent ELSE <<>>

Newest(s, n) == SubSeq(s, IF Len(s) > n THEN Len(s) - n + 1 ELSE 1, Len(s))
Mean(s) == FoldLeft(LAMBDA sum, p : sum + p, 0, s) \div Len(s)

\* smoothFrequency
Eased(from, to) ==
  IF from = NoPitch THEN to
  ELSE IF to >= from THEN from + ((to - from) * settings.easing + 99) \div 100
  ELSE from - ((from - to) * settings.easing + 99) \div 100

\* updateDisplayedNote: the label holds until the pitch is far enough away.
Label(pitch) ==
  IF locked # NoPitch /\ Distance(pitch, locked) <= settings.noteSwitch THEN locked
  ELSE Nearest(pitch)

Accept(frame) ==
  LET heard == Newest(Append(Segment(frame), frame), AverageWindow)
      average == Mean(Newest(heard, settings.averaging))
      from == IF Near(frame) THEN smoothed ELSE frame
  IN /\ recent' = heard
     /\ smoothed' = Eased(from, average)
     /\ locked' = Label(smoothed')
     /\ pending' = NothingPending
     /\ silentFrames' = 0
     /\ graph' = Newest(Append(graph, smoothed'), MaxHistory)

Suspect(frame) ==
  /\ pending' = Suspected(frame)
  /\ graph' = Newest(Append(graph, NoPitch), MaxHistory)
  /\ UNCHANGED <<recent, smoothed, silentFrames, locked>>

Forget ==
  /\ recent' = <<>> /\ smoothed' = NoPitch /\ locked' = NoPitch
  /\ pending' = NothingPending /\ silentFrames' = 0

Missing ==
  /\ graph' = Newest(Append(graph, NoPitch), MaxHistory)
  /\ \/ silentFrames + 1 >= settings.dropout /\ Forget
     \/ /\ silentFrames + 1 < settings.dropout
        /\ silentFrames' = silentFrames + 1 /\ pending' = NothingPending
        /\ UNCHANGED <<recent, smoothed, locked>>

\* The tuner's timer reads whatever the latest result is, analysed since its last tick or not.
Frame ==
  /\ \/ latest = NoPitch /\ Missing
     \/ latest # NoPitch /\ (Near(latest) \/ Confirmed(latest)) /\ Accept(latest)
     \/ latest # NoPitch /\ ~Near(latest) /\ ~Confirmed(latest) /\ Suspect(latest)
  /\ same' = IF latest # same.pitch THEN [pitch |-> latest, frames |-> 1]
             ELSE IF same.frames = Settling THEN same
             ELSE [same EXCEPT !.frames = @ + 1]
  /\ UNCHANGED <<input, analysis, settings>>

-----------------------------------------------------------------------------
(* The input service and the user                                          *)

Unread == same' = [pitch |-> NoPitch, frames |-> 0]

\* A device starts: the window is emptied, the latest result and the tracker stay.
AboutToStart ==
  /\ window # {} /\ window' = {}
  /\ UNCHANGED <<input, latest, settings, tracker, graph, same>>

\* The state of the input changes: both forget, the analysis window stays as it is.
ResultForgotten == latest' = NoPitch

StateForgotten ==
  /\ ResultForgotten
  /\ Forget /\ Unread
  /\ UNCHANGED <<window, settings, graph>>

StateChanged == StateForgotten /\ UNCHANGED input

\* setMuted changes the state too. The device callback looks at the flag before it renders
\* and pushes its block: one that had looked may push after everything has been discarded.
Mute == ~muted /\ muted' = TRUE /\ late' \in BOOLEAN /\ StateForgotten
Unmute == muted /\ muted' = FALSE /\ late' = FALSE /\ StateForgotten

\* A preset, a saved payload or the defaults.
ApplySettings ==
  /\ \E preset \in Presets : settings' = preset
  /\ Forget /\ Unread /\ graph' = <<>>
  /\ UNCHANGED <<input, analysis>>

\* Sliders moved in the middle of a note take effect with the next frame.
MoveSliders ==
  /\ \E preset \in Presets \ {settings} : settings' = preset
  /\ same' = [same EXCEPT !.frames = IF @ = 0 THEN 0 ELSE 1]
  /\ UNCHANGED <<input, analysis, tracker, graph>>

ClearGraph == graph # <<>> /\ graph' = <<>> /\ UNCHANGED <<input, analysis, settings, tracker, same>>

Init ==
  /\ muted = FALSE /\ late = FALSE
  /\ window = {} /\ latest = NoPitch
  /\ settings \in Presets
  /\ recent = <<>> /\ smoothed = NoPitch /\ locked = NoPitch
  /\ pending = NothingPending /\ silentFrames = 0 /\ graph = <<>>
  /\ same = [pitch |-> NoPitch, frames |-> 0]

Next ==
  \/ Analyse \/ Frame
  \/ AboutToStart \/ StateChanged \/ Mute \/ Unmute
  \/ ApplySettings \/ MoveSliders \/ ClearGraph

Spec == Init /\ [][Next]_vars

-----------------------------------------------------------------------------

\* A pitch read often enough in a row is the note shown and the end of the graph, wherever the
\* tracker had been: enough is the frames that confirm a jump and those that fill the average.
\* Silence read that often has cleared the note.
SustainedPitchIsShown ==
  same.frames = Settling =>
    IF same.pitch = NoPitch THEN locked = NoPitch
    ELSE /\ smoothed = same.pitch
         /\ Distance(locked, smoothed) <= settings.noteSwitch \/ locked = Nearest(smoothed)

\* The tools "SHALL still react immediately to microphone state changes (disconnected, muted,
\* clipping, active)" (openspec/specs/shared-pitch-analysis/spec.md:43): a muted tuner shows
\* no note. The code does not keep it: the result of a late block stands, since no samples
\* follow it, and the tuner reads it over and over.
MutedTunerIsSilent == muted => locked = NoPitch
=============================================================================
