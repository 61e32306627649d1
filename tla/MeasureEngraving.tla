-------------------------- MODULE MeasureEngraving --------------------------
(***************************************************************************)
(* How one staff of one measure is engraved before it has an x: the order  *)
(* its events are read in, the accidentals they are drawn with, the beams, *)
(* the stems and which note of a second crosses the stem                   *)
(* (src/features/score/engraving: ScoreLayoutEngine.cpp planMeasure,       *)
(* MeasureAccidentals, BeamGrouping, NoteValue, StaffPosition).            *)
(*                                                                         *)
(* A voice is a number and a sequence of events; an event has an onset and *)
(* a duration in sixteenths, and the notes it sounds, none for a rest. A   *)
(* note is a step (c = 0 .. b = 6), an octave and an alteration.           *)
(***************************************************************************)
EXTENDS Integers, Sequences, FiniteSets, SequencesExt, FiniteSetsExt

CONSTANTS
  MaxBarEvents,     \* events written into the measure
  BarEvents,        \* the events a voice may hold, without an onset
  Signatures,       \* clef, key and time in force
  NoSign            \* a note drawn without an accidental

VARIABLES voices, signature
vars == <<voices, signature>>

WholeNote == 16
MiddleLine == 4
Abs(n) == IF n < 0 THEN -n ELSE n

-----------------------------------------------------------------------------
\* Steps above C0, as a distance from the clef's own line.
StaffPosition(clef, note) ==
  clef.line - (7 * note.octave + note.step - 7 * clef.octaveChange - clef.reference)

SharpOrder == <<3, 0, 4, 1, 5, 2, 6>>
KeyAccidentals(key) == Min({Abs(key), 7})
KeyAlteration(key, step) ==
  LET order == IF key > 0 THEN SharpOrder ELSE Reverse(SharpOrder) IN
  IF \E i \in 1..KeyAccidentals(key) : order[i] = step THEN IF key > 0 THEN 1 ELSE -1 ELSE 0

\* The value a duration is written as, undoing a tuplet: a power of two with up to
\* two dots, or none.
Values == {32, 16, 8, 4, 2, 1}
WrittenValue(duration, tuplet) ==
  LET scaled == duration * tuplet.actual
      fits == {v \in Values : scaled % tuplet.normal = 0
                 /\ 4 * (scaled \div tuplet.normal) \in {4 * v, 6 * v, 7 * v}} IN
  IF duration <= 0 \/ fits = {} THEN 0 ELSE Max(fits)
\* Flags of a value; 0 is a length no symbol shows and is drawn as a quarter note.
Flags(value) == CASE value = 2 -> 1 [] value = 1 -> 2 [] OTHER -> 0
DrawnFlags(event) ==
  IF event.grace THEN 1 ELSE Flags(WrittenValue(event.duration, event.tuplet))

-----------------------------------------------------------------------------
\* Onset first, then the voice number; a voice's own events stay as written.
EventsOnStaff(measure, staff) ==
  LET all == {<<v, i>> : v \in DOMAIN measure, i \in 1..MaxBarEvents}
      held == {p \in all : p[2] <= Len(measure[p[1]].events)
                             /\ measure[p[1]].events[p[2]].staff = staff}
      Event(p) == measure[p[1]].events[p[2]]
      Before(p, q) ==
        \/ Event(p).onset < Event(q).onset
        \/ /\ Event(p).onset = Event(q).onset
           /\ \/ measure[p[1]].number < measure[q[1]].number
              \/ measure[p[1]].number = measure[q[1]].number /\ p[1] < q[1]
              \/ p[1] = q[1] /\ p[2] < q[2]
      Placed(p) == Event(p) @@ [voice |-> measure[p[1]].number] IN
  FoldLeft(LAMBDA read, p : Append(read, Placed(p)), <<>>, SetToSortSeq(held, Before))

\* The notes in reading order, each by its event and its place in the chord.
NoteOrder(events) ==
  FoldLeft(\o, <<>>, [k \in DOMAIN events |-> [i \in DOMAIN events[k].notes |-> <<k, i>>]])

\* One alteration in force for a step, whatever its octave.
InForceInEveryOctave(drawn, key, note) ==
  LET same == {p \in DOMAIN drawn : p[2] = note.step} IN
  IF same # {} THEN drawn[CHOOSE p \in same : TRUE] ELSE KeyAlteration(key, note.step)

\* A sign is drawn when the alteration is not the one in force, and is then in force
\* for that step in that octave; a note held from a tie is not looked at.
InForce(drawn, key, note) ==
  IF <<note.octave, note.step>> \in DOMAIN drawn
  THEN drawn[<<note.octave, note.step>>] ELSE KeyAlteration(key, note.step)
AccidentalFor(key, read, note) ==
  IF note.tiedFrom \/ note.alter = InForce(read.drawn, key, note)
  THEN [read EXCEPT !.signs = Append(@, NoSign)]
  ELSE [drawn |-> (<<note.octave, note.step>> :> note.alter) @@ read.drawn,
        signs |-> Append(read.signs, note.alter)]
Signs(events, key) ==
  LET order == NoteOrder(events)
      Read(read, p) == AccidentalFor(key, read, events[p[1]].notes[p[2]]) IN
  FoldLeft(Read, [drawn |-> <<>>, signs |-> <<>>], order).signs

-----------------------------------------------------------------------------
\* A beat of a simple metre, a dotted beat of a compound one; nothing for a metre
\* that cannot be read.
BeamGroupTicks(time) ==
  IF time.beats <= 0 \/ time.beatType <= 0 \/ WholeNote \div time.beatType <= 0 THEN 0
  ELSE IF time.beatType >= 8 /\ time.beats % 3 = 0 THEN 3 * (WholeNote \div time.beatType)
  ELSE WholeNote \div time.beatType

BeamLevels(event) ==
  IF event.notes = <<>> \/ event.grace THEN 0 ELSE DrawnFlags(event)

\* One pass over a voice: the open run, its beat and where it ends. A rest, a grace
\* note or a longer note closes it, a note in the next beat or after a gap starts
\* another, and a run of one is a flagged note.
Closed(runs) ==
  [runs EXCEPT !.groups = IF Len(runs.run) >= 2 THEN Append(@, ToSet(runs.run)) ELSE @, !.run = <<>>]
BeamGroupsFor(events, members, time) ==
  LET ticks == BeamGroupTicks(time)
      Next_(runs, k) ==
        LET e == events[k]
            beat == e.onset \div ticks
            continues == runs.run # <<>> /\ beat = runs.beat /\ e.onset = runs.end
            open == IF continues THEN runs ELSE [Closed(runs) EXCEPT !.beat = beat] IN
        IF BeamLevels(e) <= 0 THEN Closed(runs)
        ELSE [open EXCEPT !.run = Append(@, k), !.end = e.onset + e.duration] IN
  IF ticks <= 0 THEN <<>>
  ELSE Closed(FoldLeft(Next_, [run |-> <<>>, beat |-> 0, end |-> 0, groups |-> <<>>], members)).groups

VoiceNumbers(events) == {events[k].voice : k \in DOMAIN events}
OfVoice(events, voice) ==
  LET OfIt(k) == events[k].voice = voice IN
  SelectSeq([k \in DOMAIN events |-> k], OfIt)
ResolveBeamGroups(events, time) ==
  UNION {ToSet(BeamGroupsFor(events, OfVoice(events, voice), time)) : voice \in VoiceNumbers(events)}

\* What beaming does not reach is said once, whatever the number of places.
BeamNotices(events, time) ==
  LET ticks == BeamGroupTicks(time) IN
  UNION {LET own == OfVoice(events, voice)
             E(i) == events[own[i]]
             Beat(i) == E(i).onset \div ticks IN
         (IF ticks > 0 /\ \E i \in 2..(Len(own) - 1) :
               /\ BeamLevels(E(i)) = 0 /\ BeamLevels(E(i - 1)) > 0 /\ BeamLevels(E(i + 1)) > 0
               /\ Beat(i - 1) = Beat(i) /\ Beat(i + 1) = Beat(i)
          THEN {"beams stop at rests"} ELSE {})
         \cup (IF \E i \in 2..Len(own) : E(i - 1).grace /\ E(i).grace
               THEN {"grace notes have flags"} ELSE {})
         : voice \in VoiceNumbers(events)}
LengthNotices(events) ==
  IF \E k \in DOMAIN events :
       ~events[k].grace /\ WrittenValue(events[k].duration, events[k].tuplet) = 0
  THEN {"a length no symbol shows"} ELSE {}

-----------------------------------------------------------------------------
Positions(clef, event) == {StaffPosition(clef, n) : n \in ToSet(event.notes)}

\* A group points the way its note furthest from the middle line asks; a tie goes down.
GroupStemPointsUp(clef, events, group) ==
  LET all == UNION {Positions(clef, events[k]) : k \in group} IN
  Max(all) - MiddleLine > MiddleLine - Min(all)

\* Two voices on a staff: the lower numbered one up, everything else down. One voice:
\* by the lowest note, unless the beam group says otherwise.
StemUp(clef, events, groups, k) ==
  IF Cardinality(VoiceNumbers(events)) > 1 THEN events[k].voice = Min(VoiceNumbers(events))
  ELSE IF events[k].notes = <<>> THEN TRUE
  ELSE IF \E g \in groups : k \in g
       THEN GroupStemPointsUp(clef, events, CHOOSE g \in groups : k \in g)
  ELSE Max(Positions(clef, events[k])) > MiddleLine

\* The notes of a chord from the stem's end, a second next to an unshifted note
\* crosses the stem. A larger position is lower on the staff.
OffsetSeconds(clef, notes, stemUp) ==
  LET Position(i) == StaffPosition(clef, notes[i])
      FromStemEnd(i, j) ==
        \/ IF stemUp THEN Position(i) > Position(j) ELSE Position(i) < Position(j)
        \/ Position(i) = Position(j) /\ i < j
      order == SetToSortSeq(DOMAIN notes, FromStemEnd)
      Shift(crossed, k) ==
        IF k > 1 /\ Abs(Position(order[k - 1]) - Position(order[k])) = 1
             /\ order[k - 1] \notin crossed
        THEN crossed \cup {order[k]} ELSE crossed IN
  FoldLeft(Shift, {}, [k \in DOMAIN order |-> k])

PlanMeasure(measure, staff, sig) ==
  LET events == EventsOnStaff(measure, staff)
      groups == ResolveBeamGroups(events, sig.time)
      up == [k \in DOMAIN events |-> StemUp(sig.clef, events, groups, k)] IN
  [events |-> events, signs |-> Signs(events, sig.key), groups |-> groups, stemUp |-> up,
   positions |-> [k \in DOMAIN events |-> [i \in DOMAIN events[k].notes |-> StaffPosition(sig.clef, events[k].notes[i])]],
   crossed |-> [k \in DOMAIN events |-> OffsetSeconds(sig.clef, events[k].notes, up[k])],
   notices |-> BeamNotices(events, sig.time) \cup LengthNotices(events)]

-----------------------------------------------------------------------------
(* A measure is written event by event, each voice on its own.             *)

EndOf(voice) ==
  IF voice.events = <<>> THEN 0
  ELSE Last(voice.events).onset + Last(voice.events).duration

Init ==
  /\ voices = <<[number |-> 2, events |-> <<>>], [number |-> 1, events |-> <<>>]>>
  /\ signature \in Signatures

Write(v, event, gap) ==
  /\ Len(voices[1].events) + Len(voices[2].events) < MaxBarEvents
  /\ voices' = [voices EXCEPT ![v].events = Append(@, [onset |-> EndOf(voices[v]) + gap] @@ event)]
  /\ UNCHANGED signature

Next == \E v \in DOMAIN voices, event \in BarEvents, gap \in {0, 2} : Write(v, event, gap)

-----------------------------------------------------------------------------
(* What the engraved measure says.                                         *)

\* A reader who knows the rules reads the alterations that were written: a note has
\* the alteration of the last sign drawn in this bar at its step and octave, or the
\* key's; a note held from a tie has the one it is held from
\* (MeasureAccidentals.cpp accidentalFor, over every voice of the staff).
AlterationsReadBack(plan, key) ==
  LET order == NoteOrder(plan.events)
      Note(k) == plan.events[order[k][1]].notes[order[k][2]]
      SignsFor(k) == {j \in 1..k : /\ plan.signs[j] # NoSign
                                   /\ Note(j).octave = Note(k).octave /\ Note(j).step = Note(k).step} IN
  \A k \in DOMAIN order :
    Note(k).tiedFrom
    \/ Note(k).alter = IF SignsFor(k) = {} THEN KeyAlteration(key, Note(k).step)
                       ELSE plan.signs[Max(SignsFor(k))]

\* Two neighbours of one voice share a beam exactly when both are shorter than a
\* quarter note, the second starts where the first ends and both lie in one beat.
BeamsShowTheBeat(plan, time) ==
  \A voice \in VoiceNumbers(plan.events) :
    LET own == OfVoice(plan.events, voice)
        E(i) == plan.events[own[i]] IN
    \A i \in 2..Len(own) :
      (\E g \in plan.groups : {own[i - 1], own[i]} \subseteq g)
      <=> /\ BeamGroupTicks(time) > 0
          /\ BeamLevels(E(i - 1)) > 0 /\ BeamLevels(E(i)) > 0
          /\ E(i - 1).onset + E(i - 1).duration = E(i).onset
          /\ E(i - 1).onset \div BeamGroupTicks(time) = E(i).onset \div BeamGroupTicks(time)

\* In a chord whose notes stand on different lines and spaces, no two heads of a
\* second stand one on the other.
SecondsStandApart(plan, clef) ==
  \A k \in DOMAIN plan.events :
    LET notes == plan.events[k].notes
        P(i) == StaffPosition(clef, notes[i]) IN
    IsInjective([i \in DOMAIN notes |-> P(i)]) =>
      \A i, j \in DOMAIN notes :
        Abs(P(i) - P(j)) = 1 => (i \in plan.crossed[k]) # (j \in plan.crossed[k])

\* The measure as engraved reads back as the measure that was written.
BarReadsBack ==
  LET plan == PlanMeasure(voices, 1, signature) IN
  /\ AlterationsReadBack(plan, signature.key)
  /\ BeamsShowTheBeat(plan, signature.time)
  /\ SecondsStandApart(plan, signature.clef)

=============================================================================
