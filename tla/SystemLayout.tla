---------------------------- MODULE SystemLayout ----------------------------
(***************************************************************************)
(* The score on its systems (src/features/score/engraving:                 *)
(* ScoreLayoutEngine.cpp, ScoreLayout.h): which parts are drawn, how wide  *)
(* each measure is, which measures stand on which system, how far a system *)
(* is stretched, its ending brackets and tempo marks, and where its staves *)
(* and the system itself stand. Lengths are hundredths of a staff space,   *)
(* time is in quarter notes.                                               *)
(*                                                                         *)
(* A score is a sequence of parts. A part has a key (its id and name), the *)
(* characters of its name and of its abbreviation, its staves (TRUE for a  *)
(* pitched opening clef), its lyric verses and its bars. A bar has         *)
(* the clefs, key and time it declares, its barlines, its ending (0 none), *)
(* its directions and, for each staff, its slots: an onset with the room   *)
(* needed left of it, its length and how far its notes reach.              *)
(***************************************************************************)
EXTENDS Integers, Sequences, FiniteSets, SequencesExt, FiniteSetsExt

HeaderGap == 90
ContentLeadIn == 80
RepeatBarlineWidth == 130
StretchPerQuarter == 700
SlotFloor == Max({260, 118 + 100})
Width == [clef |-> 360, keyAccidental |-> 110, time |-> 280, trailing |-> 180, multiRest |-> 1400,
          brace |-> 160, character |-> 75, name |-> 1200, nameGap |-> 100, indent |-> 500]
Height == [staff |-> 400, above |-> 400, below |-> 300, interStaff |-> 600, lyricRow |-> 180,
           textGap |-> 155, tempo |-> 210, number |-> 340, numberAboveTempo |-> 130,
           volta |-> 280, hook |-> 160, sign |-> 220, band |-> 170, clearance |-> 30,
           staffClearance |-> 100]

-----------------------------------------------------------------------------
(* What is drawn.                                                          *)

HoldsAnyEvent(part) == \E m \in DOMAIN part.bars, s \in DOMAIN part.staves : part.bars[m].slots[s] # <<>>
Drawable(part) == (\E s \in DOMAIN part.staves : part.staves[s]) /\ HoldsAnyEvent(part)
DrawablePartsOf(sheet) == SelectSeq(sheet, Drawable)

\* A selection that hides everything that could be drawn is ignored.
Hides(sheet, hidden, part) ==
  /\ \E p \in ToSet(DrawablePartsOf(sheet)) : p.key \notin hidden
  /\ part.key \in hidden
DrawnParts(sheet, hidden) ==
  LET Shown(part) == ~Hides(sheet, hidden, part) /\ Drawable(part) IN
  SelectSeq(sheet, Shown)
HiddenParts(sheet, hidden) ==
  LET Hidden(part) == Hides(sheet, hidden, part) IN
  SelectSeq(sheet, Hidden)
MeasureCount(drawn) == Min({Len(p.bars) : p \in ToSet(drawn)})

\* The pitched staves of the drawn parts from the top.
Staves(drawn) ==
  LET Of(p) == LET Pitched(s) == drawn[p].staves[s] IN
               SelectSeq([s \in DOMAIN drawn[p].staves |-> s], Pitched) IN
  FoldLeft(LAMBDA all, p : all \o [i \in DOMAIN Of(p) |-> [part |-> p, staff |-> Of(p)[i]]],
           <<>>, [p \in DOMAIN drawn |-> p])

NoticesOf(sheet, hidden) ==
  LET shown == {p \in ToSet(sheet) : ~Hides(sheet, hidden, p)}
      drawn == DrawnParts(sheet, hidden) IN
  IF sheet = <<>> THEN {"no parts"}
  ELSE UNION {IF \A s \in DOMAIN p.staves : ~p.staves[s] THEN {<<p.key, "unpitched">>}
              ELSE {<<p.key, "staff left out", s>> : s \in {s \in DOMAIN p.staves : ~p.staves[s]}}
                   \cup (IF HoldsAnyEvent(p) THEN {} ELSE {<<p.key, "nothing to show">>}) : p \in shown}
       \cup (IF drawn # <<>> /\ \E p \in ToSet(drawn) : Len(p.bars) > MeasureCount(drawn)
             THEN {"bars only some parts have"} ELSE {})

-----------------------------------------------------------------------------
(* One staff's measures, and how wide a measure is on all of them.         *)

\* The clef, key and time in force. The first clef of a staff is no change, unless
\* the same bar declares another.
PlanPart(part, staff) ==
  LET Next_(acc, bar) ==
        LET clefs == bar.clefs[staff]
            key == IF bar.key >= 0 THEN bar.key ELSE acc.key IN
        [seen |-> acc.seen \/ clefs > 0, key |-> key,
         plans |-> Append(acc.plans,
           [bar |-> bar, staff |-> staff, slots |-> bar.slots[staff], key |-> key,
            clefChanges |-> (clefs > 0 /\ acc.seen) \/ clefs > 1, keyChanges |-> bar.key >= 0])] IN
  FoldLeft(Next_, [seen |-> FALSE, key |-> 0, plans |-> <<>>], part.bars).plans

Header(plan, startsSystem) ==
  (IF plan.bar.repeatStart THEN RepeatBarlineWidth ELSE 0)
  + (IF startsSystem \/ plan.clefChanges THEN Width.clef ELSE 0)
  + (IF startsSystem \/ plan.keyChanges THEN plan.key * Width.keyAccidental ELSE 0)
  + (IF plan.bar.time THEN Width.time ELSE 0)
HeaderWidthFor(plan, startsSystem) ==
  Header(plan, startsSystem) + (IF Header(plan, startsSystem) > 0 THEN HeaderGap ELSE 0) + ContentLeadIn
ContentStartFor(plan, startsSystem, startX) ==
  LET after == startX + Header(plan, startsSystem) IN
  after + (IF after > startX THEN HeaderGap ELSE 0) + ContentLeadIn

\* One slot for each onset on any staff, with the most room a staff needs there;
\* proportional to time, and never closer than a head and a flag.
SpaceMeasure(column) ==
  LET slots == UNION {ToSet(plan.slots) : plan \in ToSet(column)}
      onsets == SetToSortSeq({slot.onset : slot \in slots}, <)
      Room(onset) == Max({slot.pad : slot \in {s \in slots : s.onset = onset}})
      Place(x, k) ==
        LET proportional == onsets[k] * StretchPerQuarter + Room(onsets[k]) IN
        Append(x, IF k = 1 THEN proportional
                  ELSE Max({proportional, x[k - 1] + SlotFloor + Room(onsets[k])}))
      x == FoldLeft(Place, <<>>, [k \in DOMAIN onsets |-> k])
      duration == Max({plan.bar.length : plan \in ToSet(column)}
                      \cup {slot.onset + slot.length : slot \in slots})
      trailing == Max({duration - (IF onsets = <<>> THEN 0 ELSE Last(onsets)), 0}) * StretchPerQuarter IN
  [onsets |-> onsets, x |-> x,
   width |-> (IF x = <<>> THEN 0 ELSE Last(x)) + Max({trailing, SlotFloor}) + Width.trailing]

\* The slot a marking stands over: its own, or the one before it.
SlotOf(space, onset) ==
  IF space.onsets = <<>> THEN 0
  ELSE Max({1} \cup {k \in DOMAIN space.onsets : space.onsets[k] <= onset})

\* A whole-bar rest and nothing a reader needs to see on the bar itself.
IsEmptyBar(plan) ==
  /\ ~plan.clefChanges /\ ~plan.keyChanges /\ ~plan.bar.time
  /\ ~plan.bar.repeatStart /\ ~plan.bar.repeatEnd /\ plan.bar.ending = 0
  /\ ~plan.bar.jump /\ plan.bar.tempos = {} /\ ~plan.bar.dynamic
  /\ plan.bar.length > 0 /\ plan.slots # <<>>
  /\ \A slot \in ToSet(plan.slots) : slot.rest /\ slot.length >= plan.bar.length

\* How many bars each measure stands for: a run of at least two empty bars is laid
\* out as its first. 0 is a bar inside a run.
BarsAt(plans, count) ==
  LET Empty(m) == m \in 1..count /\ \A s \in DOMAIN plans : IsEmptyBar(plans[s][m])
      RunEnd(m) == Max({e \in m..count : \A k \in m..e : Empty(k)}) IN
  [m \in 1..count |-> IF ~Empty(m) THEN 1 ELSE IF Empty(m - 1) THEN 0 ELSE RunEnd(m) - m + 1]

-----------------------------------------------------------------------------
(* Measures onto systems.                                                  *)

NameRoom(drawn, systemIndex) ==
  LET longest == Max({IF systemIndex = 1 THEN p.name ELSE p.short : p \in ToSet(drawn)})
      wanted == IF longest = 0 \/ (systemIndex > 1 /\ Len(drawn) = 1) THEN 0
                ELSE Min({longest * Width.character, Width.name}) + Width.nameGap IN
  IF systemIndex = 1 THEN Max({Width.indent, wanted}) ELSE wanted
BraceRoom(staves) ==
  IF \E i, j \in DOMAIN staves : i # j /\ staves[i].part = staves[j].part THEN Width.brace ELSE 0

\* Where the music of a system starts.
StartX(drawn, staves, k) == NameRoom(drawn, k) + BraceRoom(staves)

\* Whether a system may end after this measure at a structural place.
StructuralAfter(top, bars, m) ==
  LET last == m + bars[m] - 1 IN
  \/ top[last].bar.repeatEnd
  \/ /\ last < Len(bars)
     /\ \/ top[last + 1].bar.repeatStart
        \/ top[last].bar.ending # 0 /\ top[last + 1].bar.ending # top[last].bar.ending

\* A measure's width, with the header it has there, and that of a system's measures.
WidthOfBar(spaces, bars, m) == IF bars[m] > 1 THEN Width.multiRest ELSE spaces[m].width
WidthWithHeader(plans, spaces, bars, m, starts) ==
  Max({HeaderWidthFor(plans[s][m], starts) : s \in DOMAIN plans}) + WidthOfBar(spaces, bars, m)
Filled(plans, spaces, bars, row) ==
  FoldLeft(LAMBDA sum, i : sum + WidthWithHeader(plans, spaces, bars, row[i], i = 1), 0,
           [i \in DOMAIN row |-> i])

\* The measures of each system, each in what its names leave of the width. A measure
\* that does not fit starts a system; the bar before it comes along when that moves the
\* break to a structural place and leaves three quarters of the line, and starts a
\* system of its own when the two do not fit on one.
Pack(drawn, staves, plans, spaces, bars, width) ==
  LET top == plans[1]
      Available(k) == width - StartX(drawn, staves, k)
      Bar(m, starts) == WidthWithHeader(plans, spaces, bars, m, starts)
      Taken(row) == Filled(plans, spaces, bars, row)
      Carries(filling, k) ==
        /\ Len(filling) >= 2
        /\ ~StructuralAfter(top, bars, Last(filling))
        /\ StructuralAfter(top, bars, Last(Front(filling)))
        /\ 4 * Taken(Front(filling)) >= 3 * Available(k)
      Next_(packed, m) ==
        LET k == Len(packed)
            filling == Last(packed)
            carried == Last(filling)
            kept == Append(Front(packed), Front(filling)) IN
        IF packed = <<>> THEN <<<<m>>>>
        ELSE IF Taken(filling) + Bar(m, FALSE) <= Available(k)
        THEN Append(Front(packed), Append(filling, m))
        ELSE IF ~Carries(filling, k) THEN Append(packed, <<m>>)
        ELSE IF Bar(carried, TRUE) + Bar(m, FALSE) <= Available(k + 1)
        THEN Append(kept, <<carried, m>>)
        ELSE kept \o <<<<carried>>, <<m>>>>
      LaidOut(m) == bars[m] > 0 IN
  FoldLeft(Next_, <<>>, SelectSeq([m \in DOMAIN bars |-> m], LaidOut))

-----------------------------------------------------------------------------
(* Brackets and tempo marks.                                               *)

\* The bracket goes on from bar to bar: whatever the barline, and as it is.
ContinuesPastRepeat(previous, next) == previous.ending = next.ending
Continues(previous, next) == ~previous.repeatEnd /\ previous.ending = next.ending

\* Runs of measures with the same ending, cut at a repeat barline; the part of a run
\* that started on the system before has no label and no hook of its own.
VoltasOf(top, row) ==
  LET B(i) == top[row[i]].bar
      Starts(i) == B(i).ending # 0 /\ (i = 1 \/ ~Continues(B(i - 1), B(i)))
      LastOf(i) == Max({j \in i..Len(row) : \A k \in (i + 1)..j : Continues(B(k - 1), B(k))})
      CarriedOver(i) ==
        i = 1 /\ row[1] > 1 /\ Continues(top[row[1] - 1].bar, B(1)) IN
  {[from |-> row[i], to |-> row[LastOf(i)],
    label |-> IF CarriedOver(i) THEN 0 ELSE B(i).ending,
    hookAtStart |-> ~CarriedOver(i), hookAtEnd |-> B(LastOf(i)).repeatEnd] :
     i \in {i \in DOMAIN row : Starts(i)}}

\* Tempo marks a hidden part lends to the top staff, unless it has one at that moment; of
\* several at one moment one is lent (the marks of a bar are a set: which is not told apart).
BorrowedTempos(sheet, hidden, top, m) ==
  LET own == top[m].bar.tempos
      Lend(lent, p) ==
        LET free == {t \in (IF m <= Len(p.bars) THEN p.bars[m].tempos ELSE {}) :
                       \A u \in own \cup lent : u.onset # t.onset} IN
        lent \cup {CHOOSE t \in free : t.onset = onset : onset \in {t.onset : t \in free}} IN
  {[t EXCEPT !.staff = top[m].staff] : t \in FoldLeft(Lend, {}, HiddenParts(sheet, hidden))}

\* The tempo marks of one measure: each staff draws its own, and those of the other
\* parts are lifted to the top staff, once where they say the same at the same place.
TempoMarks(sheet, hidden, staves, plans, m, space) ==
  LET MarkOf(t, s) == [slot |-> SlotOf(space, t.onset), label |-> t.label, staff |-> s]
      Own(s) == {MarkOf(t, s) : t \in {t \in plans[s][m].bar.tempos : t.staff = plans[s][m].staff}}
                \cup (IF s = 1 THEN {MarkOf(t, 1) : t \in BorrowedTempos(sheet, hidden, plans[1], m)} ELSE {})
      kept == UNION {Own(s) : s \in {s \in DOMAIN staves : staves[s].part = 1}}
      others == UNION {Own(s) : s \in {s \in DOMAIN staves : staves[s].part # 1}} IN
  kept \cup {[t EXCEPT !.staff = 1] : t \in
               {t \in others : ~\E u \in kept : u.slot = t.slot /\ u.label = t.label}}

-----------------------------------------------------------------------------
(* Staves and systems from the top of the score.                           *)

Include(reach, y) == [top |-> Min({reach.top, y}), bottom |-> Max({reach.bottom, y})]
IncludeAll(reach, ys) == FoldSet(LAMBDA y, r : Include(r, y), reach, ys)

\* Each kind of text keeps a line of its own, clear of the notes of its staff; what a
\* staff holds then decides where the next one stands, and the system after it.
PlaceTextAndStaves(system, staves, verses, bandTop) ==
  LET notes == system.notes
      n == Len(staves)
      below == [s \in 1..n |-> Max({Height.staff + Height.textGap, notes[s].bottom + Height.clearance})]
      plain == [s \in 1..n |-> Min({-Height.tempo, notes[s].top - Height.clearance - Height.band})]
      voltaY == Min({-Height.volta, notes[1].top - Height.clearance - Height.hook})
      overVoltas == IF system.voltas = {} THEN plain[1]
                    ELSE Min({plain[1], voltaY - Height.clearance - Height.band})
      rowTop == overVoltas - (Height.sign - Height.band)
      above == [plain EXCEPT ![1] =
                  IF system.jump THEN rowTop - Height.clearance - Height.band ELSE overVoltas]
      Number(s) == IF s = 1 THEN {Min({-Height.number, above[1] - Height.numberAboveTempo})} ELSE {}
      reach == [s \in 1..n |->
        IncludeAll(notes[s],
          Number(s)
          \cup (IF s = 1 /\ system.voltas # {} THEN {voltaY} ELSE {})
          \cup (IF s = 1 /\ system.jump THEN {rowTop} ELSE {})
          \cup (IF \E t \in system.tempos : t.staff = s THEN {above[s]} ELSE {})
          \cup (IF staves[s].staff # 1 THEN {}
                ELSE {below[s] + (v - 1) * Height.lyricRow + Height.band : v \in 1..verses[s]})
          \cup (IF system.dynamic[s] THEN {below[s] + verses[s] * Height.lyricRow + Height.band} ELSE {}))]
      Offset(offsets, s) ==
        Append(offsets, Max({Last(offsets) + Height.staff + Height.interStaff + verses[s - 1] * Height.lyricRow,
                             Last(offsets) + reach[s - 1].bottom + Height.staffClearance - reach[s].top}))
      offsets == FoldLeft(Offset, <<0>>, [s \in 1..(n - 1) |-> s + 1])
      pushedDown == below[n] - (Height.staff + Height.textGap)
      topOfStaff == bandTop + Max({Height.above, Height.clearance - reach[1].top}) IN
  [first |-> system.first, last |-> system.last, measures |-> system.measures, width |-> system.width,
   firstX |-> system.firstX, lastX |-> system.lastX, voltas |-> system.voltas,
   tempos |-> system.tempos, reach |-> reach, offsets |-> offsets,
   bandTop |-> bandTop, topOfStaff |-> topOfStaff,
   bandBottom |-> topOfStaff
     + Max({offsets[n] + Height.staff + verses[n] * Height.lyricRow + Height.below + pushedDown,
            offsets[n] + notes[n].bottom + Height.clearance})]

-----------------------------------------------------------------------------
(* The systems with their music, and the whole layout.                     *)

\* A system's music is stretched from what it takes to what the line leaves it; the
\* last system is left as it is.
Stretch(plans, spaces, bars, row, line) ==
  LET content == FoldLeft(LAMBDA sum, m : sum + WidthOfBar(spaces, bars, m), 0, row) IN
  [from |-> content, to |-> content + Max({line - Filled(plans, spaces, bars, row), 0})]
Natural == [from |-> 1, to |-> 1]
Stretched(w, stretch) == (w * stretch.to) \div stretch.from

\* The start of the system, then where each measure's music starts and where it ends.
Edges(plans, spaces, bars, row, startX, stretch) ==
  LET Place(x, i) ==
        LET left == Max({ContentStartFor(plans[s][row[i]], i = 1, Last(x)) : s \in DOMAIN plans}) IN
        x \o <<left, left + Stretched(WidthOfBar(spaces, bars, row[i]), stretch)>> IN
  FoldLeft(Place, <<startX>>, [i \in DOMAIN row |-> i])

\* The slots with a note at a place of a measure, and where such a place stands.
Heads(plans, bars, spaces, m) ==
  {j \in DOMAIN spaces[m].x : bars[m] = 1 /\ \E s \in DOMAIN plans :
     \E slot \in ToSet(plans[s][m].slots) : ~slot.rest /\ slot.onset = spaces[m].onsets[j]}
XOf(spaces, row, edges, stretch, m, j) ==
  edges[2 * (CHOOSE i \in DOMAIN row : row[i] = m)] + Stretched(spaces[m].x[j], stretch)

EmitSystem(staves, plans, spaces, bars, row, edges, stretch, marks) ==
  LET Slots(s) == UNION {ToSet(plans[s][m].slots) : m \in {m \in ToSet(row) : bars[m] = 1}}
      sounding == {m \in ToSet(row) : Heads(plans, bars, spaces, m) # {}} IN
  [first |-> row[1], last |-> Last(row) + bars[Last(row)] - 1,
   measures |-> row, width |-> Last(edges),
   firstX |-> [m \in sounding |->
                 XOf(spaces, row, edges, stretch, m, Min(Heads(plans, bars, spaces, m)))],
   lastX |-> [m \in sounding |->
                XOf(spaces, row, edges, stretch, m, Max(Heads(plans, bars, spaces, m)))],
   voltas |-> VoltasOf(plans[1], row),
   jump |-> \E m \in ToSet(row) : plans[1][m].bar.jump,
   tempos |-> UNION {{[t EXCEPT !.slot = <<m, @>>] : t \in marks[m]} : m \in ToSet(row)},
   dynamic |-> [s \in DOMAIN staves |-> \E m \in ToSet(row) :
                  plans[s][m].bar.dynamic /\ plans[s][m].staff = 1],
   notes |-> [s \in DOMAIN staves |->
     [top |-> Min({0} \cup {slot.top : slot \in Slots(s)}),
      bottom |-> Max({Height.staff} \cup {slot.bottom : slot \in Slots(s)})]]]

\* One system after the other, each below the one before.
StackSystems(drawn, staves, plans, spaces, bars, packed, marks, availableWidth) ==
  LET Emitted(row, startX, stretch) ==
        EmitSystem(staves, plans, spaces, bars, row,
                   Edges(plans, spaces, bars, row, startX, stretch), stretch, marks)
      Music(k, startX) ==
        Emitted(packed[k], startX,
                IF k = Len(packed) THEN Natural
                ELSE Stretch(plans, spaces, bars, packed[k], availableWidth - startX))
      Stack(systems, k) ==
        Append(systems,
               PlaceTextAndStaves(Music(k, StartX(drawn, staves, k)), staves,
                                  [s \in DOMAIN staves |-> drawn[staves[s].part].verses],
                                  IF systems = <<>> THEN 0 ELSE Last(systems).bandBottom)) IN
  FoldLeft(Stack, <<>>, [k \in DOMAIN packed |-> k])

SystemsOf(sheet, hidden, drawn, staves, plans, spaces, bars, availableWidth) ==
  StackSystems(drawn, staves, plans, spaces, bars,
               Pack(drawn, staves, plans, spaces, bars, availableWidth),
               [m \in DOMAIN bars |-> TempoMarks(sheet, hidden, staves, plans, m, spaces[m])],
               availableWidth)

\* No systems when nothing can be drawn.
LayOutDrawn(sheet, hidden, drawn, staves, plans, availableWidth) ==
  LET count == MeasureCount(drawn)
      spaces == [m \in 1..count |-> SpaceMeasure([s \in DOMAIN staves |-> plans[s][m]])] IN
  IF drawn = <<>> THEN <<>>
  ELSE SystemsOf(sheet, hidden, drawn, staves, plans, spaces, BarsAt(plans, count), availableWidth)

LayOutScore(sheet, hidden, availableWidth) ==
  LET drawn == DrawnParts(sheet, hidden)
      staves == Staves(drawn) IN
  LayOutDrawn(sheet, hidden, drawn, staves,
              [s \in DOMAIN staves |-> PlanPart(drawn[staves[s].part], staves[s].staff)],
              availableWidth)
=============================================================================
