--------------------------- MODULE MeasureSpacing ---------------------------
(***************************************************************************)
(* Where the notes of an engraved measure stand: the columns of a chord's  *)
(* accidentals, the x of every event, ledger lines, stems and beams, on    *)
(* one staff (src/features/score/engraving: ScoreLayoutEngine.cpp          *)
(* spaceMeasure and emitMeasure, AccidentalStacking, BeamGeometry).        *)
(* Lengths are thousandths of a staff space, y grows downwards from the    *)
(* top line, a grace note is drawn at 66 hundredths.                       *)
(***************************************************************************)
EXTENDS MeasureEngraving

Notehead == 1180
GraceNote == 1700
Stem == [thickness |-> 120, length |-> 7, shortest |-> 2500]
Beam == [thickness |-> 500, pitch |-> 750, rise |-> 1500, stub |-> 1000, farHead |-> 1000]
Sign == [gap |-> 200, columnGap |-> 120, clearance |-> 100]
Ledger == [extension |-> 400, besideSign |-> 100]
Slots == [perTick |-> 1750, floor |-> Max({2600, Notehead + 1000}), trailing |-> 1800]
Y(position) == position * 500
Scaled(length, grace) == IF grace THEN (length * 66) \div 100 ELSE length

-----------------------------------------------------------------------------
(* Accidentals.                                                            *)

\* Width of a sign, and how far it reaches over and under its note.
Metrics(sign) ==
  CASE sign = 0 -> [width |-> 672, above |-> 1364, below |-> 1340]
    [] sign = 1 -> [width |-> 996, above |-> 1400, below |-> 1392]
    [] sign = -1 -> [width |-> 904, above |-> 1756, below |-> 700]
    [] sign > 1 -> [width |-> 988, above |-> 508, below |-> 500]
    [] OTHER -> [width |-> 1644, above |-> 1748, below |-> 700]

\* Whether two signs can share a column.
Clears(upper, lower, grace) ==
  Y(lower.position - upper.position)
    - Scaled(Metrics(upper.sign).below + Metrics(lower.sign).above, grace) >= Scaled(Sign.clearance, grace)

\* 1, n, 2, n - 1, ...
OutsideIn(seq) ==
  [i \in DOMAIN seq |-> IF i % 2 = 1 THEN seq[(i + 1) \div 2] ELSE seq[Len(seq) + 1 - i \div 2]]

\* The signs from the outside in, each in the first column where it clears every sign;
\* columns from right to left, as wide as the widest sign and flush right.
StackAccidentals(signs, grace) ==
  LET Higher(a, b) == \/ signs[a].position < signs[b].position
                      \/ signs[a].position = signs[b].position /\ a < b
      order == OutsideIn(SetToSortSeq(DOMAIN signs, Higher))
      Fits(column, i) == \A j \in column :
        IF signs[i].position >= signs[j].position THEN Clears(signs[j], signs[i], grace)
        ELSE Clears(signs[i], signs[j], grace)
      Put(columns, i) ==
        LET open == {c \in DOMAIN columns : Fits(columns[c], i)} IN
        IF open = {} THEN Append(columns, {i}) ELSE [columns EXCEPT ![Min(open)] = @ \cup {i}]
      columns == FoldLeft(Put, <<>>, order)
      WidthOf(column) == Max({Scaled(Metrics(signs[i].sign).width, grace) : i \in column})
      right[c \in DOMAIN columns] ==
        IF c = 1 THEN -Scaled(Sign.gap, grace)
        ELSE right[c - 1] - WidthOf(columns[c - 1]) - Scaled(Sign.columnGap, grace) IN
  [left |-> [i \in DOMAIN signs |-> LET c == CHOOSE c \in DOMAIN columns : i \in columns[c] IN
                                    right[c] - Scaled(Metrics(signs[i].sign).width, grace)],
   width |-> IF columns = <<>> THEN 0 ELSE WidthOf(Last(columns)) - right[Len(columns)]]

Offset(plan, k, i) ==
  IF i \notin plan.crossed[k] THEN 0 ELSE IF plan.stemUp[k] THEN Notehead ELSE -Notehead

\* The signs of events that share an x are those of one chord, left of its leftmost head.
PlaceAccidentals(plan, members, grace) ==
  LET order == NoteOrder(plan.events)
      owners == SetToSortSeq({n \in DOMAIN order : order[n][1] \in members /\ plan.signs[n] # NoSign}, <)
      chordLeft == Min({0} \cup {Offset(plan, order[n][1], order[n][2]) :
                                  n \in {n \in DOMAIN order : order[n][1] \in members}})
      stack == StackAccidentals([j \in DOMAIN owners |->
                 [sign |-> plan.signs[owners[j]], note |-> owners[j],
                  position |-> plan.positions[order[owners[j]][1]][order[owners[j]][2]]]], grace) IN
  [x |-> [n \in ToSet(owners) |-> chordLeft + stack.left[CHOOSE j \in DOMAIN owners : owners[j] = n]],
   reach |-> stack.width - chordLeft]

-----------------------------------------------------------------------------
(* Events.                                                                 *)

\* The grace notes of an onset stand before it from right to left, each with its signs,
\* and the signs of its chord: the room for those after event k.
StartingAt(events, onset, grace) ==
  {k \in DOMAIN events : events[k].onset = onset /\ events[k].grace = grace}
RoomBefore(events, onset, main, own, k) ==
  FoldSet(LAMBDA g, sum : sum + GraceNote + own[g].reach, main[onset].reach,
          {g \in StartingAt(events, onset, TRUE) : g > k})

SlotXs(events, onsets, main, own) ==
  LET Place(x, onset) ==
        LET room == RoomBefore(events, onset, main, own, 0)
            proportional == onset * Slots.perTick + room IN
        Append(x, IF x = <<>> THEN proportional ELSE Max({proportional, Last(x) + Slots.floor + room})) IN
  FoldLeft(Place, <<>>, onsets)

SlotWidth(events, nominal, onsets, x) ==
  LET duration == Max({nominal} \cup {events[k].onset + events[k].duration : k \in DOMAIN events}) IN
  (IF x = <<>> THEN 0 ELSE Last(x)) + Slots.trailing
  + Max({Slots.perTick * (duration - (IF onsets = <<>> THEN 0 ELSE Last(onsets))), Slots.floor})

IsBarRest(events, nominal) ==
  /\ Len(events) = 1 /\ events[1].notes = <<>>
  /\ nominal > 0 /\ events[1].duration >= nominal

PlaceEvents(events, nominal, main, own, x, width) ==
  [width |-> width,
   x |-> [k \in DOMAIN events |->
     IF IsBarRest(events, nominal) THEN width \div 2
     ELSE IF events[k].grace
     THEN x[events[k].onset] - RoomBefore(events, events[k].onset, main, own, k) - GraceNote
     ELSE x[events[k].onset]],
   signX |-> [k \in DOMAIN events |->
     IF events[k].grace THEN own[k].x ELSE main[events[k].onset].x]]

SpaceSlots(events, nominal, onsets, main, own, x) ==
  LET xAt == [onset \in ToSet(onsets) |-> x[CHOOSE s \in DOMAIN onsets : onsets[s] = onset]] IN
  PlaceEvents(events, nominal, main, own, xAt, SlotWidth(events, nominal, onsets, x))

PlaceSlots(events, nominal, onsets, main, own) ==
  SpaceSlots(events, nominal, onsets, main, own, SlotXs(events, onsets, main, own))

\* A slot for each onset.
SpaceEvents(plan, nominal) ==
  LET events == plan.events
      onsets == {events[k].onset : k \in DOMAIN events} IN
  PlaceSlots(events, nominal, SetToSortSeq(onsets, <),
             [onset \in onsets |-> PlaceAccidentals(plan, StartingAt(events, onset, FALSE), FALSE)],
             [k \in {k \in DOMAIN events : events[k].grace} |-> PlaceAccidentals(plan, {k}, TRUE)])

-----------------------------------------------------------------------------
(* What is drawn.                                                          *)

\* Mutation: the line on which the furthest note sits is left out.
LinesShort(positions) ==
  {line \in (1 + Min({0} \cup ToSet(positions)))..(Max({8} \cup ToSet(positions)) - 1) :
     line % 2 = 0 /\ (line < 0 \/ line > 8)}

\* The lines from the staff out to the furthest note.
LinesOut(positions) ==
  {line \in Min({0} \cup ToSet(positions))..Max({8} \cup ToSet(positions)) :
     line % 2 = 0 /\ (line < 0 \/ line > 8)}

\* Each line is drawn under the notes at or beyond it.
LedgerLines(positions, heads, signed, grace) ==
  LET needs(line) == {i \in DOMAIN positions : IF line < 0 THEN positions[i] <= line ELSE positions[i] >= line}
      left(i) == heads[i] - Scaled(IF signed[i] THEN Ledger.besideSign ELSE Ledger.extension, grace) IN
  {[position |-> line, left |-> Min({left(i) : i \in needs(line)}),
    right |-> Max({heads[i] + Scaled(Notehead + Ledger.extension, grace) : i \in needs(line)})] :
     line \in LinesOut(positions)}

\* From the head at the stem's end; past the head at the other end and to the middle line.
StemOf(up, positions) ==
  LET high == Min(ToSet(positions))
      low == Max(ToSet(positions)) IN
  IF up THEN [attach |-> low, far |-> high, tip |-> Y(Min({low - Stem.length, high - 2, MiddleLine}))]
  ELSE [attach |-> high, far |-> low, tip |-> Y(Max({high + Stem.length, low + 2, MiddleLine}))]

\* A straight line over the stems, its rise limited, pushed out until every stem is long
\* enough; a beam for each run of stems with that many, and a stub for a run of one,
\* back to the note before where there is one.
LayOutBeamGroup(stems, up) ==
  LET sign == IF up THEN -1 ELSE 1
      n == Len(stems)
      Natural(s) == Y(s.attach) + sign * Y(Stem.length)
      rise == Max({-Beam.rise, Min({Beam.rise, Natural(stems[n]) - Natural(stems[1])})})
      Line(x) == Natural(stems[1]) + (rise * (x - stems[1].x)) \div (stems[n].x - stems[1].x)
      Required(s) == {Y(s.attach) + sign * Stem.shortest, Y(s.far) + sign * Beam.farHead}
      shortfall == Max({0} \cup UNION {{sign * (y - Line(s.x)) : y \in Required(s)} : s \in ToSet(stems)})
      At(x) == Line(x) + sign * shortfall
      half == Stem.thickness \div 2
      Runs(level) == {<<a, b>> \in (1..n) \X (1..n) :
        /\ a <= b /\ \A i \in a..b : stems[i].levels >= level
        /\ (a = 1 \/ stems[a - 1].levels < level) /\ (b = n \/ stems[b + 1].levels < level)}
      Reach(i, j) == Min({Beam.stub, Abs(stems[i].x - stems[j].x) \div 2})
      Bar(run) ==
        LET a == run[1] IN
        IF a < run[2] THEN [from |-> stems[a].x - half, to |-> stems[run[2]].x + half]
        ELSE IF a > 1 THEN [from |-> stems[a].x - Reach(a - 1, a), to |-> stems[a].x + half]
        ELSE [from |-> stems[a].x - half, to |-> stems[a].x + Reach(a, a + 1)] IN
  [tips |-> [i \in 1..n |-> At(stems[i].x) + sign * ((stems[i].levels - 1) * Beam.pitch + Beam.thickness)],
   beams |-> UNION {{[level |-> level, from |-> Bar(run).from, to |-> Bar(run).to] : run \in Runs(level)} :
                     level \in 1..Max({s.levels : s \in ToSet(stems)})}]

\* The stems of the events that have one, and the beams over them.
Stemmed(plan) ==
  {k \in DOMAIN plan.events :
     /\ plan.events[k].notes # <<>>
     /\ \/ plan.events[k].grace
        \/ WrittenValue(plan.events[k].duration, plan.events[k].tuplet) < 16}
StemsOf(plan, space) ==
  LET half == Stem.thickness \div 2 IN
  [k \in Stemmed(plan) |->
     StemOf(plan.stemUp[k], plan.positions[k])
     @@ [x |-> space.x[k] + (IF plan.stemUp[k] THEN Notehead - half ELSE half),
         levels |-> BeamLevels(plan.events[k])]]
Members(group) == SetToSortSeq(group, <)
BeamedGroups(plan, stem) ==
  [g \in plan.groups |->
     LayOutBeamGroup([i \in DOMAIN Members(g) |-> stem[Members(g)[i]]], plan.stemUp[Min(g)])]
Tip(plan, stem, beamed, k) ==
  LET mine == {g \in plan.groups : k \in g}
      g == CHOOSE g \in mine : TRUE IN
  IF mine = {} THEN stem[k].tip
  ELSE beamed[g].tips[CHOOSE i \in DOMAIN Members(g) : Members(g)[i] = k]

DrawMeasure(plan, order, space, stem, beamed) ==
  LET Grace(k) == plan.events[k].grace
      Heads(k) == [i \in DOMAIN plan.events[k].notes |-> space.x[k] + Offset(plan, k, i)]
      Signed(k) == [i \in DOMAIN plan.events[k].notes |->
                     plan.signs[CHOOSE n \in DOMAIN order : order[n] = <<k, i>>] # NoSign] IN
  [heads |-> {[event |-> order[n][1], left |-> Heads(order[n][1])[order[n][2]],
               position |-> plan.positions[order[n][1]][order[n][2]]] : n \in DOMAIN order},
   signs |-> {[note |-> n, sign |-> plan.signs[n], grace |-> Grace(order[n][1]),
               left |-> space.x[order[n][1]] + space.signX[order[n][1]][n],
               position |-> plan.positions[order[n][1]][order[n][2]]] :
                n \in {n \in DOMAIN order : plan.signs[n] # NoSign}},
   ledgers |-> [k \in {k \in DOMAIN plan.events : plan.events[k].notes # <<>>} |->
                  LedgerLines(plan.positions[k], Heads(k), Signed(k), Grace(k))],
   stems |-> [k \in Stemmed(plan) |-> [stem[k] EXCEPT !.tip = Tip(plan, stem, beamed, k)]],
   beams |-> [g \in plan.groups |-> beamed[g].beams]]

\* The measure on its staff: heads with their signs, ledger lines, stems and beams.
BeamMeasure(plan, space, stem) ==
  DrawMeasure(plan, NoteOrder(plan.events), space, stem, BeamedGroups(plan, stem))
EmitPlaced(plan, space) == BeamMeasure(plan, space, StemsOf(plan, space))
EmitMeasure(plan, nominal) == EmitPlaced(plan, SpaceEvents(plan, nominal))

-----------------------------------------------------------------------------
(* What the drawn measure says.                                            *)

Apart(from, to, from2, to2) == to <= from2 \/ to2 <= from

\* No accidental touches another or a notehead, of whatever voice and on whatever beat.
SignsStandClear(drawn) ==
  LET Box(s) == [left |-> s.left, right |-> s.left + Scaled(Metrics(s.sign).width, s.grace),
                 top |-> Y(s.position) - Scaled(Metrics(s.sign).above, s.grace),
                 bottom |-> Y(s.position) + Scaled(Metrics(s.sign).below, s.grace)]
      Clear(a, b) == Apart(a.left, a.right, b.left, b.right) \/ Apart(a.top, a.bottom, b.top, b.bottom)
      BoxOf(h) == [left |-> h.left, right |-> h.left + Notehead,
                  top |-> Y(h.position) - 500, bottom |-> Y(h.position) + 500] IN
  /\ \A s, t \in drawn.signs : s.note < t.note => Clear(Box(s), Box(t))
  /\ \A s \in drawn.signs, h \in drawn.heads : Clear(Box(s), BoxOf(h))

\* A note outside the staff stands on its ledger lines.
LedgersHoldTheirHeads(drawn) ==
  \A h \in drawn.heads : \A line \in {l \in -20..28 : l % 2 = 0} :
    (h.position <= line /\ line < 0) \/ (8 < line /\ line <= h.position) =>
      \E l \in drawn.ledgers[h.event] : l.position = line /\ l.left < h.left /\ h.left < l.right

\* A beamed stem is never shorter than two and a half spaces, its far head included, and
\* meets as many beams as its note has flags.
BeamsReadBack(drawn) ==
  \A g \in DOMAIN drawn.beams : \A k \in g :
    LET stem == drawn.stems[k]
        Toward(y) == IF stem.tip < Y(stem.attach) THEN y - stem.tip ELSE stem.tip - y IN
    /\ Toward(Y(stem.attach)) >= Stem.shortest /\ Toward(Y(stem.far)) >= Beam.farHead
    /\ Cardinality({b \in drawn.beams[g] : b.from < stem.x /\ stem.x < b.to}) = stem.levels

\* Nothing the reader has to tell apart touches (AccidentalStacking.cpp clears,
\* ScoreLayoutEngine.cpp spaceMeasure, BeamGeometry.cpp layOutBeamGroup).
NothingTouches(drawn) ==
  SignsStandClear(drawn) /\ LedgersHoldTheirHeads(drawn) /\ BeamsReadBack(drawn)
NothingInTheBarTouches ==
  NothingTouches(EmitMeasure(PlanMeasure(voices, 1, signature),
                             (signature.time.beats * WholeNote) \div signature.time.beatType))

=============================================================================
