---------------------------- MODULE MCScoreReading ----------------------------
(* The reading of a score for TLC: what the file may hold, in small numbers. *)
EXTENDS ScoreReading

\* What a measure may hold: plain, tied, stacked and grace notes, notes of no readable
\* pitch, a note without a duration and one with a negative one, a rest for the bar, two voices; time given
\* in thirds of a quarter note, which ticks cannot express; a bar of another length on
\* a transposing instrument.
ANote(kind, chord, grace, voice, duration, sounding, tie) ==
  [kind |-> kind, chord |-> chord, isGrace |-> grace, voice |-> voice, duration |-> duration,
   written |-> sounding, tie |-> tie]
SomeNotes ==
  {ANote("note", FALSE, FALSE, 0, 1, 60, tie) : tie \in SUBSET {"start", "stop"}}
  \cup {ANote("note", FALSE, FALSE, 0, duration, 60, {}) : duration \in {-1, 0}}
  \cup {ANote("note", FALSE, FALSE, 2, 2, 60, {}), ANote("note", FALSE, TRUE, 0, 0, 64, {}),
        ANote("note", TRUE, FALSE, 0, 1, 64, {}),
        ANote("note", TRUE, FALSE, 2, 1, 60, {"stop"}),
        ANote("bar rest", FALSE, FALSE, 0, 0, 0, {})}
  \cup {ANote("unreadable", chord, FALSE, 0, 1, 0, {}) : chord \in BOOLEAN}
SomeAttributes ==
  {[divisions |-> 3, time |-> 0, transpose |-> FALSE, transposition |-> 0],
   [divisions |-> -1, time |-> 6, transpose |-> TRUE, transposition |-> -2]}
SomeTempos == {[offset |-> 0, sound |-> 0, metronome |-> 90],
               [offset |-> -1, sound |-> 60, metronome |-> 90]}
FileId(n) == <<"P", n, 0>>
FirstPart == FileId(1)
SecondPart == FileId(2)
\* A part list in order; one without an identifier, and one that already uses the
\* identifier generated for it, while the second part is not declared; and a file that
\* goes on with a second <part> of the first.
PartLists ==
  {[declared |-> <<FirstPart, SecondPart>>, other |-> SecondPart, bars |-> <<4>>],
   [declared |-> <<FirstPart, <<>>, <<"P-generated", 1>>>>, other |-> SecondPart,
    bars |-> <<8, 4, 4>>],
   [declared |-> <<FirstPart>>, other |-> FirstPart, bars |-> <<4, 8>>]}
===============================================================================
