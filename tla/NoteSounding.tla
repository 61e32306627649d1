--------------------------- MODULE NoteSounding ---------------------------
(***************************************************************************)
(* The stream of one consumer of the MIDI input service, the MIDI page of  *)
(* the settings window: its FIFO, which drops the oldest event when it is  *)
(* full, its refresh, and the note tracker it feeds.  MidiInputService     *)
(* says when connections come and go; here they come and go as they like.  *)
(*                                                                         *)
(* One key and one pedal are played.  Events carry their position in the   *)
(* stream (n) and their connection, neither of which the code can see: the *)
(* page's measurements are compared with them.                             *)
(***************************************************************************)
EXTENDS Integers, SequencesExt

CONSTANTS
  Positions, Thresholds,          \* of the pedal
  FifoCapacity, BatchSize,
  MaxMessages, MaxConnections     \* bounds of the model

VARIABLES
  connection, connections,  \* the open one or None; how many there have been
  page,       \* whether the page is up
  at,         \* "idle", or the handler of the page that is half way
  lastOpen, lastLost, threshold,
  fifo, lost,
  slot, pedal,
  ended,      \* notes the latest refresh of the page found ended
  messages, droppedAt

device == <<connection, connections>>
view == <<page, at, lastOpen, lastLost, threshold>>
stream == <<fifo, lost, messages, droppedAt>>
tracker == <<slot, pedal, ended>>
vars == <<device, view, stream, tracker>>

NotesAssumption == FifoCapacity \in Nat \ {0} /\ BatchSize \in Nat

None == 0
Unknown == -1
Silent == [state |-> "silent", since |-> 0, from |-> None]

-----------------------------------------------------------------------------
(* The driver and the service                                              *)

\* What a message becomes: a note on without velocity ends the note; another
\* controller, a truncated or malformed message is nothing.
Translate(m) ==
  CASE m.status = "noteOn" -> {IF m.second = 0 THEN "noteOff" ELSE "noteOn"}
    [] m.status = "noteOff" -> {"noteOff"}
    [] m.status = "sustain" -> {"sustainPedal"}
    [] OTHER -> {}

Messages ==
  [status : {"noteOn"}, second : {0, 1}] \cup [status : {"noteOff", "other"}, second : {0}]
    \cup [status : {"sustain"}, second : Positions]

DeliverMessage(m) ==
  /\ page /\ connection # None
  /\ messages < MaxMessages
  /\ messages' = messages + 1
  /\ \E kind \in Translate(m) :
       LET event == [kind |-> kind, position |-> m.second, n |-> messages + 1,
                     from |-> connection]
           full == Len(fifo) = FifoCapacity
       IN /\ fifo' = Append(IF full THEN Tail(fifo) ELSE fifo, event)
          /\ lost' = IF full THEN lost + 1 ELSE lost
          /\ droppedAt' = IF full THEN Head(fifo).n ELSE droppedAt
  /\ UNCHANGED <<device, tracker, view>>

\* The service closes the keyboard, opens it, or reopens it within one step.
Reconnect(opened) ==
  /\ at # "refresh"
  /\ opened \/ connection # None
  /\ connections < MaxConnections
  /\ connection' = IF opened THEN connections + 1 ELSE None
  /\ connections' = IF opened THEN connections + 1 ELSE connections
  /\ UNCHANGED <<stream, tracker>>

-----------------------------------------------------------------------------
(* NoteSoundingTracker                                                     *)

\* The note of the slot has ended with event e; measured is whether its length
\* is known, and shown.
close(s, e, measured) ==
  [s EXCEPT !.slot = Silent,
            !.ended = @ \cup {[since |-> s.slot.since, from |-> s.slot.from,
                               until |-> e.n, to |-> e.from, measured |-> measured]}]

\* A key struck again ends what was still sounding.
noteOn(s, e) ==
  [(IF s.slot.state = "silent" THEN s ELSE close(s, e, TRUE))
     EXCEPT !.slot = [state |-> "keyDown", since |-> e.n, from |-> e.from]]

\* The pedal holds the note, or the note ends; with the pedal unknown it ends
\* without a length.
noteOff(s, e) ==
  CASE s.slot.state # "keyDown" -> s
    [] s.slot.state = "keyDown" /\ s.pedal # Unknown /\ s.pedal >= threshold ->
         [s EXCEPT !.slot.state = "awaitingPedalRelease"]
    [] OTHER -> close(s, e, s.pedal # Unknown)

pedalMoved(s, e) ==
  [(IF e.position < threshold /\ s.slot.state = "awaitingPedalRelease"
      THEN close(s, e, TRUE) ELSE s) EXCEPT !.pedal = e.position]

consume(s, e) ==
  CASE e.kind = "noteOn" -> noteOn(s, e)
    [] e.kind = "noteOff" -> noteOff(s, e)
    [] e.kind = "sustainPedal" -> pedalMoved(s, e)

\* What is held ends without a length, and no pedal is known any more.
invalidate == slot' = Silent /\ pedal' = Unknown

-----------------------------------------------------------------------------
(* The MIDI page                                                           *)

\* addConsumer empties the FIFO; the page starts with a new tracker.
OpenPage ==
  /\ ~page /\ at = "idle"
  /\ page' = TRUE
  /\ fifo' = <<>> /\ lost' = 0 /\ lastLost' = 0 /\ droppedAt' = 0
  /\ invalidate /\ ended' = {} /\ lastOpen' = FALSE
  /\ UNCHANGED <<device, messages, at, threshold>>

ClosePage ==
  /\ page /\ at = "idle"
  /\ page' = FALSE /\ ended' = {}
  /\ UNCHANGED <<device, stream, slot, pedal, at, lastOpen, lastLost, threshold>>

\* applySelection: the service switches the keyboard, and then nothing of the
\* old stream may reach the new one.
SelectDevice(opened) ==
  /\ page /\ at = "idle"
  /\ Reconnect(opened)
  /\ at' = "selection"
  /\ UNCHANGED <<page, lastOpen, lastLost, threshold>>

ForgetOldStream ==
  /\ at = "selection"
  /\ at' = "idle"
  /\ fifo' = <<>>
  /\ invalidate /\ ended' = {}
  /\ lastOpen' = (connection # None)
  /\ UNCHANGED <<device, lost, messages, droppedAt, page, lastLost, threshold>>

SetPedalThreshold(value) ==
  /\ page /\ at = "idle" /\ threshold # value
  /\ threshold' = value
  /\ UNCHANGED <<device, stream, tracker, page, at, lastOpen, lastLost>>

left == lastOpen /\ connection = None
untrusted == left \/ lost > lastLost

\* timerCallback, ten times a second: whether the stream could be trusted, ...
Look ==
  /\ page /\ at = "idle"
  /\ at' = "refresh"
  /\ IF untrusted THEN invalidate ELSE UNCHANGED <<slot, pedal>>
  /\ ended' = {}
  /\ lastOpen' = (connection # None) /\ lastLost' = lost
  /\ UNCHANGED <<device, stream, page, threshold>>

\* ... and then the next events.
ReadEvents ==
  /\ at = "refresh"
  /\ at' = "idle"
  /\ LET count == IF Len(fifo) < BatchSize THEN Len(fifo) ELSE BatchSize
         after == FoldLeft(consume, [slot |-> slot, pedal |-> pedal, ended |-> ended],
                           SubSeq(fifo, 1, count))
     IN /\ fifo' = SubSeq(fifo, count + 1, Len(fifo))
        /\ slot' = after.slot /\ pedal' = after.pedal /\ ended' = after.ended
  /\ UNCHANGED <<device, lost, messages, droppedAt, page, lastOpen, lastLost, threshold>>

-----------------------------------------------------------------------------
Init ==
  /\ connection = None /\ connections = 0
  /\ page = FALSE /\ at = "idle" /\ lastOpen = FALSE /\ lastLost = 0
  /\ threshold \in Thresholds
  /\ fifo = <<>> /\ lost = 0 /\ messages = 0 /\ droppedAt = 0
  /\ slot = Silent /\ pedal = Unknown /\ ended = {}

Next ==
  \/ \E m \in Messages : DeliverMessage(m)
  \/ at = "idle" /\ (\E opened \in BOOLEAN : Reconnect(opened)) /\ UNCHANGED view
  \/ \E opened \in BOOLEAN : SelectDevice(opened)
  \/ OpenPage \/ ClosePage \/ ForgetOldStream \/ Look \/ ReadEvents
  \/ \E value \in Thresholds : SetPedalThreshold(value)

Spec == Init /\ [][Next]_vars

-----------------------------------------------------------------------------
\* A length is shown only of a note whose events were all seen: unless events
\* were dropped during the very refresh that shows it, none was dropped between
\* its beginning and its end.
NoLossInsideAMeasurement ==
  at = "idle" /\ lost = lastLost =>
    \A note \in ended : note.measured => ~(note.since < droppedAt /\ droppedAt < note.until)

\* A length is shown only of a note that began and ended on one connection of
\* one keyboard.
OneConnectionPerMeasurement ==
  \A note \in ended : note.measured => note.from = note.to
=============================================================================
