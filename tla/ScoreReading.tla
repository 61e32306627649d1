---------------------------- MODULE ScoreReading ----------------------------
(***************************************************************************)
(* The import of a MusicXML part, src/platform/score/musicxml: the measure *)
(* reader with its writing position, the resolution of ties, the list of   *)
(* parts and the freezing of the score by ScoreInvariants.                 *)
(*                                                                         *)
(* The children of a measure are read one at a time, in any order the file *)
(* may have them.  A note is a record of what the reader asks of it; the   *)
(* XML, spelling, lyrics, dynamics and repeats are left out.  Bar, at and  *)
(* length are not in the code: they record, in fractions of a tick, where  *)
(* the file puts an event, so that the result can be compared with it.     *)
(***************************************************************************)
EXTENDS ScoreInvariants, TargetNote, TLC

CONSTANTS
  TicksPerQuarter, Fraction,      \* fractions of a tick the ghosts are counted in
  Notes, Attributes, CursorMoves, Tempos,
  OwnId, Surroundings,            \* the part list, and a <part> of rests that follows
  CommonTime, MaxElements, MaxMeasures

\* Durations are whole numbers of any sign; only a positive time or division is taken over.
ASSUME ReadingAssumption ==
  /\ TicksPerQuarter \in Nat \ {0} /\ CommonTime \in Nat \ {0} /\ Fraction \in Nat
  /\ \A note \in Notes :
       /\ note.kind \in {"note", "unreadable", "rest", "bar rest"} /\ note.chord \in BOOLEAN
       /\ note.isGrace \in BOOLEAN /\ note.voice \in Int /\ note.duration \in Int
       /\ note.written \in Int
  /\ \A a \in Attributes : a.divisions \in Int /\ a.time \in Int /\ a.transposition \in Int
  /\ CursorMoves \subseteq Int
  /\ \A around \in Surroundings :
       /\ around.declared \in Seq({around.declared[i] : i \in DOMAIN around.declared})
       /\ around.bars \in Seq(Nat \ {0})

VARIABLES
  state,      \* divisions, time and transposition in force
  cursor, exact, lastVoice, pending, nominal, start,
  measures, tempo, repairs, eventCount, elements, said,
  phase, score

vars == <<state, cursor, exact, lastVoice, pending, nominal, start, measures, tempo, repairs,
          eventCount, elements, said, phase, score>>
place == <<cursor, exact, lastVoice>>
result == <<phase, score>>

EmptyScore == [parts |-> <<>>, repairs |-> {}, tempo |-> {}]

Init ==
  /\ state = [divisions |-> 1, time |-> CommonTime, transposition |-> 0]
  /\ cursor = 0 /\ exact = 0 /\ lastVoice = 1 /\ pending = <<>>
  /\ nominal = CommonTime /\ start = 0 /\ measures = <<>>
  /\ tempo = <<>> /\ repairs = {} /\ eventCount = 0 /\ elements = 0
  /\ said = {} /\ phase = "reading" /\ score = EmptyScore

(*------------------------------- durations ------------------------------*)
\* rescaleToTicks: half a tick is rounded away from zero.
Rounded(source) ==
  LET numerator == source * TicksPerQuarter
      Half(n) == (2 * n + state.divisions) \div (2 * state.divisions)
  IN IF numerator >= 0 THEN Half(numerator) ELSE -Half(-numerator)

Inexact(source) ==
  When((source * TicksPerQuarter) % state.divisions # 0, "rounded duration")

Exact(source) == (source * TicksPerQuarter * Fraction) \div state.divisions

(*---------------------------------- notes -------------------------------*)
NumberOf(note) ==
  IF note.voice # 0 THEN note.voice ELSE IF note.chord THEN lastVoice ELSE 1

VoiceAt(number) == {v \in DOMAIN pending : pending[v].number = number}

SoundingNote(note) ==
  [sounding |-> note.written + state.transposition, marks |-> note.tie,
   to |-> NoRef, from |-> NoRef, id |-> eventCount + 1]

\* A pitch that cannot be read leaves a rest, or, stacked on another, nothing at all.
Chosen(note) == IF note.kind = "note" THEN <<SoundingNote(note)>> ELSE <<>>

JoinChordAndAdvance(note) ==
  /\ note.chord
  /\ \E v \in VoiceAt(NumberOf(note)) :
       LET last == Len(pending[v].events)
       IN pending' = [pending EXCEPT ![v].events[last].notes = @ \o Chosen(note)]
  /\ lastVoice' = NumberOf(note)
  /\ cursor' = cursor + Rounded(note.duration)
  /\ UNCHANGED <<exact, repairs>>

\* A chord tone joins the event its voice ended with and takes no time.
JoinChord(note) ==
  /\ note.chord
  /\ \E v \in VoiceAt(NumberOf(note)) :
       LET last == Len(pending[v].events)
       IN pending' = [pending EXCEPT ![v].events[last].notes = @ \o Chosen(note)]
  /\ lastVoice' = NumberOf(note)
  /\ UNCHANGED <<cursor, exact, repairs>>

\* A rest for the bar lasts the bar; a grace note takes no time of it.
DurationOf(note) ==
  CASE note.isGrace -> 0
    [] ~note.isGrace /\ note.kind = "bar rest" -> nominal
    [] OTHER -> Rounded(note.duration)

LengthOf(note) ==
  CASE note.isGrace -> 0
    [] ~note.isGrace /\ note.kind = "bar rest" -> nominal * Fraction
    [] OTHER -> Exact(note.duration)

Measured(note) == ~note.isGrace /\ note.kind # "bar rest"

AppendEvent(note) ==
  LET event == [onset |-> cursor, duration |-> DurationOf(note), isGrace |-> note.isGrace,
                notes |-> Chosen(note), at |-> exact, length |-> LengthOf(note)]
      number == NumberOf(note)
  IN /\ note.chord => VoiceAt(number) = {}
     /\ pending' =
          IF VoiceAt(number) = {} THEN Append(pending, [number |-> number, events |-> <<event>>])
          ELSE [v \in DOMAIN pending |->
                  IF v \in VoiceAt(number)
                  THEN [pending[v] EXCEPT !.events = Append(@, event)] ELSE pending[v]]
     /\ cursor' = cursor + DurationOf(note)
     /\ exact' = exact + LengthOf(note)
     /\ lastVoice' = number
     /\ repairs' = repairs \cup When(note.chord, "chord of nothing")
                     \cup When(note.kind = "unreadable", "step")
                     \cup (IF Measured(note) THEN Inexact(note.duration) ELSE {})

Reading == phase = "reading" /\ elements < MaxElements /\ Len(measures) < MaxMeasures
NextElement == elements' = elements + 1

ReadNote(note) ==
  /\ Reading /\ NextElement
  /\ JoinChord(note) \/ AppendEvent(note)
  /\ eventCount' = eventCount + 1
  /\ said' = said \cup When(note.kind = "note", [id |-> eventCount + 1, bar |-> Len(measures) + 1])
  /\ UNCHANGED <<state, nominal, start, measures, tempo, result>>

(*---------------------- attributes, moves and tempi ---------------------*)
\* 0 is absent, -1 unreadable: the previous value is kept and the latter reported.
ReadAttributes(a) ==
  /\ Reading /\ NextElement
  /\ state' = [divisions |-> IF a.divisions > 0 THEN a.divisions ELSE state.divisions,
               time |-> IF a.time > 0 THEN a.time ELSE state.time,
               transposition |-> IF a.transpose THEN a.transposition ELSE state.transposition]
  /\ nominal' = state'.time
  /\ repairs' = repairs \cup When(a.divisions < 0, "divisions") \cup When(a.time < 0, "time")
  /\ UNCHANGED <<place, pending, start, measures, tempo, eventCount, said, result>>

Backup(source) ==
  /\ Reading /\ NextElement
  /\ cursor' = Max({0, cursor - Rounded(source)})
  /\ exact' = Max({0, exact - Exact(source)})
  /\ repairs' = repairs \cup Inexact(source)
                  \cup When(cursor < Rounded(source), "backup before the bar")
  /\ UNCHANGED <<lastVoice, state, pending, nominal, start, measures, tempo, eventCount, said, result>>

Forward(source) ==
  /\ Reading /\ NextElement
  /\ cursor' = cursor + Rounded(source)
  /\ exact' = exact + Exact(source)
  /\ repairs' = repairs \cup Inexact(source)
  /\ UNCHANGED <<lastVoice, state, pending, nominal, start, measures, tempo, eventCount, said, result>>

\* The playback tempo wins over the engraved one; an offset moves the mark.
ReadDirection(mark) ==
  LET onset == Max({0, cursor + Rounded(mark.offset)})
      chosen == IF mark.sound # 0 THEN mark.sound ELSE mark.metronome
  IN /\ Reading /\ NextElement
     /\ tempo' = IF chosen = 0 THEN tempo
                 ELSE Append(tempo, [tick |-> start + onset, tempo |-> chosen])
     /\ repairs' = repairs \cup When(/\ mark.sound # 0 /\ mark.metronome # 0
                                     /\ mark.sound # mark.metronome, "metronome")
     /\ UNCHANGED <<place, state, pending, nominal, start, measures, eventCount, said, result>>

(*-------------------------------- the bar -------------------------------*)
Occupied == Max({0} \cup UNION {{EndOf(pending[v].events[e]) : e \in DOMAIN pending[v].events} :
                                  v \in DOMAIN pending})

\* freezeVoices: events by onset, voices by number.
Frozen(voices) ==
  LET order == InOrder(DOMAIN voices, [v \in DOMAIN voices |-> voices[v].number])
  IN [i \in DOMAIN order |-> [voices[order[i]] EXCEPT !.events = InTimeOrder(@)]]

\* A bar holds all its music: it is widened, never cut to its time signature.
EndMeasure ==
  LET length == Max({nominal, Occupied})
  IN /\ phase = "reading" /\ Len(measures) < MaxMeasures
     /\ measures' = Append(measures, [nominal |-> length, start |-> start,
                                      voices |-> Frozen(pending)])
     /\ start' = start + length
     /\ repairs' = repairs \cup When(Occupied > nominal, "widened")
     /\ cursor' = 0 /\ exact' = 0 /\ lastVoice' = 1 /\ pending' = <<>>
     /\ nominal' = state.time
     /\ UNCHANGED <<state, tempo, eventCount, elements, said, result>>

(*---------------------------------- ties --------------------------------*)
RefOrder(a, b) ==
  \E i \in 1..4 : a[i] < b[i] /\ \A j \in 1..(i - 1) : a[j] = b[j]

\* The voice and the sounding pitch of a note: what a start and its stop have in common.
TieKey(part, ref) ==
  <<part.measures[ref[1]].voices[ref[2]].number, NoteAt(part, ref).sounding>>

\* Of each key the last start waits: a stop closes it, another start takes its place.
TieStep(part, acc, ref) ==
  LET marks == NoteAt(part, ref).marks
      waiting == {opened \in acc.starts : TieKey(part, opened) = TieKey(part, ref)}
  IN [starts |-> (IF marks = {} THEN acc.starts ELSE acc.starts \ waiting)
                   \cup When("start" \in marks, ref),
      links |-> acc.links \cup (IF "stop" \in marks THEN waiting \X {ref} ELSE {}),
      loose |-> acc.loose \/ ("stop" \in marks /\ waiting = {})]

\* What is waiting, linked and reported when the notes are visited in order.
ResolvedTies(part) ==
  LET visited == InOrderOf(Refs(part), RefOrder)
      upTo[i \in 0..Len(visited)] ==
        IF i = 0 THEN [starts |-> {}, links |-> {}, loose |-> FALSE]
        ELSE TieStep(part, upTo[i - 1], visited[i])
  IN upTo[Len(visited)]

Tied(part, links) ==
  LET Ends(ref, side) == {link \in links : link[side] = ref}
      End(ref, side) == IF Ends(ref, side) = {} THEN NoRef
                        ELSE (CHOOSE link \in Ends(ref, side) : TRUE)[3 - side]
  IN Relinked(part, [ref \in Refs(part) |-> [to |-> End(ref, 1), from |-> End(ref, 2)]])

(*---------------------------------- parts -------------------------------*)
GeneratedId(serial) == <<"P-generated", serial>>

\* readPartList: an identifier the file repeats or omits is replaced, and the source
\* identifiers keep pointing at the first part that claims them.
PartList(declared) ==
  LET Declare(acc, id) ==
        LET renamed == id = <<>> \/ id \in DOMAIN acc.index
            serial == acc.serial + (IF renamed THEN 1 ELSE 0)
            own == IF renamed THEN GeneratedId(serial) ELSE id
        IN [parts |-> Append(acc.parts, [id |-> own, measures |-> <<>>]), serial |-> serial,
            index |-> [x \in DOMAIN acc.index \cup {id} |->
                         IF x \in DOMAIN acc.index THEN acc.index[x] ELSE Len(acc.parts) + 1],
            repairs |-> acc.repairs \cup When(renamed, "score-part")]
      upTo[i \in 0..Len(declared)] ==
        IF i = 0 THEN [parts |-> <<>>, serial |-> 0, index |-> <<>>, repairs |-> {}]
        ELSE Declare(upTo[i - 1], declared[i])
  IN upTo[Len(declared)]

\* readParts: the bars of a part follow those it already has, and their ticks begin anew;
\* music of an undeclared part gets a part of its own.
WithMusic(list, id, bars) ==
  IF id \in DOMAIN list.index THEN [list EXCEPT !.parts[list.index[id]].measures = @ \o bars]
  ELSE [list EXCEPT !.parts = Append(@, [id |-> GeneratedId(list.serial + 1), measures |-> bars]),
                    !.serial = @ + 1, !.repairs = @ \cup {"part"}]

Bars(lengths) ==
  [m \in DOMAIN lengths |-> [PaddingBar(lengths[m]) EXCEPT
     !.start = LET before[i \in 0..Len(lengths)] ==
                     IF i = 0 THEN 0 ELSE before[i - 1] + lengths[i]
               IN before[m - 1]]]

(*-------------------------- the end of the part -------------------------*)
EndPart(around) ==
  LET ties == ResolvedTies([measures |-> measures])
      part == Tied([measures |-> measures], ties.links)
      list == WithMusic(WithMusic(PartList(around.declared), OwnId, part.measures),
                        around.other, Bars(around.bars))
  IN /\ phase = "reading" /\ pending = <<>> /\ measures # <<>>
     /\ repairs' = repairs \cup list.repairs
                     \cup When(ties.loose, "tie without start")
                     \cup When(ties.starts # {}, "tie without stop")
     /\ score' = [parts |-> list.parts, repairs |-> repairs', tempo |-> BuiltTempoMap(tempo)]
     /\ phase' = "read"
     /\ UNCHANGED <<state, place, pending, nominal, start, measures, tempo, eventCount,
                    elements, said>>

\* A document without a note or rest is refused, any other frozen.
Freeze ==
  /\ phase = "read"
  /\ phase' = IF eventCount = 0 THEN "structurallyInvalid" ELSE "done"
  /\ score' = IF eventCount = 0 THEN EmptyScore ELSE EnforceInvariants(score)
  /\ UNCHANGED <<state, place, pending, nominal, start, measures, tempo, repairs, eventCount,
                 elements, said>>

Finished == phase \in {"done", "structurallyInvalid"} /\ UNCHANGED vars

Next ==
  \/ \E note \in Notes : ReadNote(note)
  \/ \E a \in Attributes : ReadAttributes(a)
  \/ \E source \in CursorMoves : Backup(source) \/ Forward(source)
  \/ \E mark \in Tempos : ReadDirection(mark)
  \/ EndMeasure
  \/ \E around \in Surroundings : EndPart(around)
  \/ Freeze
  \/ Finished

Spec == Init /\ [][Next]_vars

(*------------------------------- properties -----------------------------*)
Own == score.parts[CHOOSE p \in DOMAIN score.parts : score.parts[p].id = OwnId]

\* The pairs of notes that are linked, forward or back.
Links(part) ==
  {<<NoteAt(part, ref).id, NoteAt(part, NoteAt(part, ref).to).id>> :
     ref \in {r \in Refs(part) : NoteAt(part, r).to # NoRef}}
  \cup {<<NoteAt(part, NoteAt(part, ref).from).id, NoteAt(part, ref).id>> :
     ref \in {r \in Refs(part) : NoteAt(part, r).from # NoRef}}

\* The ties the file writes between the notes it has: from a note marked as a start to the
\* next marked note of its voice and pitch, when that is a stop.
TieBetween(part, a, b) ==
  /\ RefOrder(a, b) /\ TieKey(part, a) = TieKey(part, b)
  /\ "start" \in NoteAt(part, a).marks /\ "stop" \in NoteAt(part, b).marks
  /\ \A c \in Refs(part) :
       RefOrder(a, c) /\ RefOrder(c, b) /\ TieKey(part, c) = TieKey(part, a)
         => NoteAt(part, c).marks = {}

TiesOf(part) ==
  {<<NoteAt(part, pair[1]).id, NoteAt(part, pair[2]).id>> :
     pair \in {ends \in Refs(part) \X Refs(part) : TieBetween(part, ends[1], ends[2])}}

FileTies == TiesOf([measures |-> measures])

OwnEvents ==
  UNION {UNION {{[bar |-> m, event |-> Own.measures[m].voices[v].events[e]] :
           e \in DOMAIN Own.measures[m].voices[v].events} :
           v \in DOMAIN Own.measures[m].voices} :
           m \in 1..Len(measures)}

\* A frozen score keeps the invariants of the model: in every voice the events are in
\* order and do not overlap, they stay in their bar, bars have the same start and
\* length in every part, links between notes mirror each other and sound the same,
\* and part identifiers are unique (enforceInvariants).  What its readers count on follows:
\* the note that the target-note tool selects is the first of the part.
FrozenScoreIsWellFormed == phase = "done" => WellFormed(score) /\ SelectedIsTheFirst(score)

\* An import with nothing to report but widened bars is what the file says: every note
\* whose pitch can be read is there, in its bar, at its exact place and for its exact
\* time, and tied as the file ties it (MusicXmlImportStatus::imported; "no note is
\* shortened or dropped").  Two things the file says are lost without a report and not
\* promised here: a note stacked on another whose pitch is unreadable, and the start of a
\* tie that another start follows (UnmatchedTiesAreReported).
CleanImportIsExact ==
  phase = "done" /\ said # {} /\ score.repairs \subseteq {"widened", "padded"} =>
    /\ said = UNION {{[id |-> note.id, bar |-> x.bar] : note \in Range(x.event.notes)} :
                       x \in OwnEvents}
    /\ \A x \in OwnEvents : /\ x.event.onset * Fraction = x.event.at
                            /\ x.event.duration * Fraction = x.event.length
    /\ Links(Own) = FileTies

\* Repairs drop and move events after the ties were resolved to positions; a link that is
\* left joins two notes that the file ties, never the neighbours that moved there.
TiesJoinWhatWasTied ==
  phase = "done" => \A p \in DOMAIN score.parts : Links(score.parts[p]) \subseteq FileTies

\* What the documentation says and the code does not keep.  "Only grace events have zero
\* duration" (normalized-score-model): of two events of a voice that begin together the
\* first is shortened to nothing, after the pass that removes events of no length.
OnlyGraceNotesAreInstant ==
  phase = "done" /\ said # {} =>
    \A x \in OwnEvents : x.event.duration = 0 => x.event.isGrace

\* "The unmatched tie is reported as a diagnostic": a start that a second start of the
\* same pitch replaces is forgotten without one.
UnmatchedTiesAreReported ==
  phase = "done" /\ said # {} =>
    \/ score.repairs \cap {"tie without stop", "dropped tie", "dropped zero length"} # {}
    \/ \A ref \in Refs(Own) :
         "start" \in NoteAt(Own, ref).marks => NoteAt(Own, ref).to # NoRef
=============================================================================
