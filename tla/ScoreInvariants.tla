--------------------------- MODULE ScoreInvariants ---------------------------
(***************************************************************************)
(* The repairs of src/platform/score/ScoreInvariants.cpp: each pass of     *)
(* enforceInvariants as an operator on a score, and the conditions the     *)
(* score has to meet afterwards.  A score is a record of its parts, the    *)
(* kinds of repair reported so far and its tempo map; a part is a sequence *)
(* of measures, a measure holds voices, a voice events, an event notes.    *)
(* Ticks are integers, a note names its ties by NoteRef <<measure, voice,  *)
(* event, note>>, and a part identifier is a sequence, <<>> when absent.   *)
(* Spelling, tuplets, lyrics and the wording of diagnostics are left out.  *)
(***************************************************************************)
EXTENDS Integers, Sequences, SequencesExt, FiniteSetsExt

NoRef == <<>>

EndOf(event) == event.onset + event.duration

\* A set in an order of its own: the k-th has k - 1 before it.
InOrderOf(S, Before(_, _)) ==
  [k \in 1..Cardinality(S) |->
     CHOOSE i \in S : Cardinality({j \in S : Before(j, i)}) = k - 1]

\* Places by their key, those of one key in the order they have.
InOrder(places, key) ==
  LET Before(i, j) == key[i] < key[j] \/ (key[i] = key[j] /\ i < j)
  IN InOrderOf(places, Before)

Picked(list, order) == [k \in DOMAIN order |-> list[order[k]]]

\* std::stable_sort on the onset.
InTimeOrder(events) ==
  Picked(events, InOrder(DOMAIN events, [e \in DOMAIN events |-> events[e].onset]))

\* std::remove_if: what stands at the places left over keeps its order.
Remaining(list, places) == Picked(list, InOrder(places, [i \in places |-> 0]))

\* Every voice of every measure replaced by F(measure, voice).
EachVoice(score, F(_, _)) ==
  LET Measured(measure) ==
        [measure EXCEPT !.voices = [v \in DOMAIN @ |-> F(measure, @[v])]]
      Parted(part) == [part EXCEPT !.measures = [m \in DOMAIN @ |-> Measured(@[m])]]
  IN [score EXCEPT !.parts = [p \in DOMAIN @ |-> Parted(@[p])]]

SomeVoice(score, P(_, _)) ==
  \E p \in DOMAIN score.parts : \E m \in DOMAIN score.parts[p].measures :
    LET measure == score.parts[p].measures[m]
    IN \E v \in DOMAIN measure.voices : P(measure, measure.voices[v])

When(condition, x) == IF condition THEN {x} ELSE {}

Reported(score, kinds) == [score EXCEPT !.repairs = @ \cup kinds]

(*------------------------------ durations -------------------------------*)
NonNegative(event) ==
  IF event.duration >= 0 THEN event ELSE [event EXCEPT !.duration = 0, !.isGrace = TRUE]

Takes(event) == event.duration # 0 \/ event.isGrace

NonNegativeDurations(score) ==
  LET Clamped(measure, voice) ==
        [voice EXCEPT !.events = [e \in DOMAIN @ |-> NonNegative(@[e])]]
      Kept(measure, voice) ==
        [voice EXCEPT !.events = Remaining(@, {e \in DOMAIN @ : Takes(@[e])})]
      clamped == EachVoice(score, Clamped)
      Negative(measure, voice) == \E e \in DOMAIN voice.events : voice.events[e].duration < 0
      Instant(measure, voice) == \E e \in DOMAIN voice.events : ~Takes(voice.events[e])
  IN Reported(EachVoice(clamped, Kept),
              When(SomeVoice(score, Negative), "negative duration")
              \cup When(SomeVoice(clamped, Instant), "dropped zero length"))

(*-------------------------------- voices --------------------------------*)
\* The event and its successor in time order overlap.
Overlaps(events, e) ==
  /\ e + 1 \in DOMAIN events
  /\ ~events[e].isGrace
  /\ EndOf(events[e]) > events[e + 1].onset

Shortened(events) ==
  [e \in DOMAIN events |->
     IF Overlaps(events, e)
     THEN [events[e] EXCEPT !.duration = Max({0, events[e + 1].onset - events[e].onset})]
     ELSE events[e]]

VoiceOrdering(score) ==
  LET Ordered(measure, voice) == [voice EXCEPT !.events = Shortened(InTimeOrder(@))]
      Unordered(measure, voice) == InTimeOrder(voice.events) # voice.events
      Overlapping(measure, voice) ==
        \E e \in DOMAIN voice.events : Overlaps(InTimeOrder(voice.events), e)
  IN Reported(EachVoice(score, Ordered),
              When(SomeVoice(score, Unordered), "reordered")
              \cup When(SomeVoice(score, Overlapping), "shortened overlap"))

(*------------------------------- measures -------------------------------*)
WithinBar(event, limit) ==
  [event EXCEPT !.duration = IF EndOf(event) <= limit THEN @ ELSE limit - event.onset]

MeasureBounds(score) ==
  LET Fitted(measure, voice) ==
        LET starting == {e \in DOMAIN voice.events : voice.events[e].onset < measure.nominal}
            kept == Remaining(voice.events, starting)
        IN IF measure.nominal <= 0 THEN voice
           ELSE [voice EXCEPT !.events =
                   [e \in DOMAIN kept |-> WithinBar(kept[e], measure.nominal)]]
      Beyond(measure, voice) == Fitted(measure, voice) # voice
  IN Reported(EachVoice(score, Fitted),
              When(SomeVoice(score, Beyond), "cut at the bar line"))

\* A bar as long as the longest claim any part makes for its position.
LongestClaim(score, m) ==
  Max({0} \cup {score.parts[p].measures[m].nominal :
                  p \in {q \in DOMAIN score.parts : m \in DOMAIN score.parts[q].measures}})

PaddingBar(length) ==
  [nominal |-> length, start |-> 0,
   voices |-> <<[number |-> 1,
                 events |-> <<[onset |-> 0, duration |-> length, isGrace |-> FALSE,
                               notes |-> <<>>]>>]>>]

MeasureAlignment(score) ==
  LET longest == Max({0} \cup {Len(score.parts[p].measures) : p \in DOMAIN score.parts})
      starts[m \in 1..longest] ==
        IF m = 1 THEN 0 ELSE starts[m - 1] + LongestClaim(score, m - 1)
      Bar(part, m) == IF m \in DOMAIN part.measures THEN part.measures[m]
                      ELSE PaddingBar(LongestClaim(score, m))
      Aligned(part) ==
        [part EXCEPT !.measures =
           [m \in 1..longest |-> [Bar(part, m) EXCEPT !.start = starts[m],
                                                      !.nominal = LongestClaim(score, m)]]]
      short == {p \in DOMAIN score.parts : Len(score.parts[p].measures) < longest}
  IN Reported([score EXCEPT !.parts = [p \in DOMAIN @ |-> Aligned(@[p])]],
              {"padded" : p \in short})

(*--------------------------------- parts --------------------------------*)
\* "P" and the position, with an x for every identifier it collides with.
Generated(position, seen) ==
  LET free == {xs \in 0..Cardinality(seen) : <<"P", position, xs>> \notin seen}
  IN <<"P", position, Min(free)>>

UniquePartIds(score) ==
  LET ids[p \in DOMAIN score.parts] ==
        LET own == score.parts[p].id
            seen == {ids[q] : q \in 1..(p - 1)}
        IN IF own # <<>> /\ own \notin seen THEN own ELSE Generated(p, seen)
      renamed == {p \in DOMAIN ids : ids[p] # score.parts[p].id}
  IN Reported([score EXCEPT !.parts = [p \in DOMAIN @ |-> [@[p] EXCEPT !.id = ids[p]]]],
              {"renamed part" : p \in renamed})

(*---------------------------------- ties --------------------------------*)
NoteAt(part, ref) ==
  part.measures[ref[1]].voices[ref[2]].events[ref[3]].notes[ref[4]]

Refs(part) ==
  UNION {UNION {UNION {{<<m, v, e, n>> :
      n \in DOMAIN part.measures[m].voices[v].events[e].notes} :
      e \in DOMAIN part.measures[m].voices[v].events} :
      v \in DOMAIN part.measures[m].voices} :
      m \in DOMAIN part.measures}

\* A reference that is kept names a note; the absent one names none.
Resolves(part, ref) == ref \in Refs(part)

\* The link of the note at ref that goes forward (to) or back (from).  A link that
\* fails the check is reset while the notes are visited in order; since a link and
\* its mirror fail together, every check sees what it would see at the start.
MirroredOrPresent(part, ref, forward) ==
  Resolves(part, IF forward THEN NoteAt(part, ref).to ELSE NoteAt(part, ref).from)

Mirrored(part, ref, forward) ==
  LET link == IF forward THEN NoteAt(part, ref).to ELSE NoteAt(part, ref).from
  IN /\ Resolves(part, link)
     /\ ref = IF forward THEN NoteAt(part, link).from ELSE NoteAt(part, link).to

SameSound(part, ref, link) == NoteAt(part, ref).sounding = NoteAt(part, link).sounding

Holds(part, ref, forward) ==
  LET link == IF forward THEN NoteAt(part, ref).to ELSE NoteAt(part, ref).from
  IN Mirrored(part, ref, forward) /\ SameSound(part, ref, link)

\* A part whose notes have the given links, by the place of the note.
Relinked(part, links) ==
  LET Note(note, link) == [note EXCEPT !.to = link.to, !.from = link.from]
      Event(event, m, v, e) ==
        [event EXCEPT !.notes =
           [n \in DOMAIN event.notes |-> Note(event.notes[n], links[<<m, v, e, n>>])]]
      Voice(voice, m, v) ==
        [voice EXCEPT !.events =
           [e \in DOMAIN voice.events |-> Event(voice.events[e], m, v, e)]]
      Bar(measure, m) ==
        [measure EXCEPT !.voices =
           [v \in DOMAIN measure.voices |-> Voice(measure.voices[v], m, v)]]
  IN [part EXCEPT !.measures = [m \in DOMAIN part.measures |-> Bar(part.measures[m], m)]]

TiesKept(part) ==
  LET Kept(ref, forward, link) == IF Holds(part, ref, forward) THEN link ELSE NoRef
  IN Relinked(part, [ref \in Refs(part) |-> [to |-> Kept(ref, TRUE, NoteAt(part, ref).to),
                                             from |-> Kept(ref, FALSE, NoteAt(part, ref).from)]])

TieIntegrity(score) ==
  Reported([score EXCEPT !.parts = [p \in DOMAIN @ |-> TiesKept(@[p])]],
           {"dropped tie" : p \in {q \in DOMAIN score.parts :
                                     TiesKept(score.parts[q]) # score.parts[q]}})

(*-------------------------------- tempo ---------------------------------*)
\* TempoMap::build: a later declaration at a tick wins; something is in force from 0.
DefaultTempo == 120

BuiltTempoMap(entries) ==
  LET at == {entries[i].tick : i \in DOMAIN entries}
      Latest(tick) == Max({i \in DOMAIN entries : entries[i].tick = tick})
      declared == {[tick |-> t, tempo |-> entries[Latest(t)].tempo] : t \in at}
  IN declared \cup When(\A t \in at : t > 0, [tick |-> 0, tempo |-> DefaultTempo])

TiesFirst(score) ==
  UniquePartIds(MeasureAlignment(MeasureBounds(
    VoiceOrdering(NonNegativeDurations(TieIntegrity(score))))))

EnforceInvariants(score) ==
  TieIntegrity(UniquePartIds(MeasureAlignment(MeasureBounds(
    VoiceOrdering(NonNegativeDurations(score))))))

(*--------------------- what a frozen score has to meet ------------------*)
EventsInOrder(voice) ==
  \A e \in DOMAIN voice.events :
    LET event == voice.events[e]
    IN /\ event.duration >= 0
       /\ e + 1 \in DOMAIN voice.events =>
            /\ event.onset <= voice.events[e + 1].onset
            /\ event.isGrace \/ EndOf(event) <= voice.events[e + 1].onset

WellFormedPart(part) ==
  /\ \A m \in DOMAIN part.measures :
       /\ m > 1 => part.measures[m].start
                     = part.measures[m - 1].start + part.measures[m - 1].nominal
       /\ \A v \in DOMAIN part.measures[m].voices :
            /\ EventsInOrder(part.measures[m].voices[v])
            /\ \A e \in DOMAIN part.measures[m].voices[v].events :
                 EndOf(part.measures[m].voices[v].events[e]) <= part.measures[m].nominal
  /\ \A ref \in Refs(part) :
       /\ NoteAt(part, ref).to # NoRef => Holds(part, ref, TRUE)
       /\ NoteAt(part, ref).from # NoRef => Holds(part, ref, FALSE)

WellFormed(score) ==
  /\ \A p \in DOMAIN score.parts : WellFormedPart(score.parts[p]) /\ score.parts[p].id # <<>>
  /\ \A p, q \in DOMAIN score.parts :
       /\ score.parts[p].id = score.parts[q].id => p = q
       /\ Len(score.parts[p].measures) = Len(score.parts[q].measures)
       /\ \A m \in DOMAIN score.parts[p].measures :
            /\ score.parts[p].measures[m].start = score.parts[q].measures[m].start
            /\ score.parts[p].measures[m].nominal = score.parts[q].measures[m].nominal
=============================================================================
