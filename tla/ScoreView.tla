----------------------------- MODULE ScoreView -----------------------------
(***************************************************************************)
(* The Score View tool (src/features/score: ScoreViewComponent.cpp,        *)
(* ScoreViewSettings.cpp): three views of the current score's systems in a *)
(* scrolled panel, laid out again when the room, the view, the size or the *)
(* parts change, and keeping the place when they do. The panel that        *)
(* scrolls is the library's: it keeps its position inside what it shows.   *)
(***************************************************************************)
EXTENDS PagedScore

CONSTANTS
  Sheets,         \* the scores that may be opened, each with its parts
  NoScore,
  DefaultStep,
  Rooms,          \* widths and heights the viewport is given
  Payloads,       \* settings a workspace may restore
  ScrollStops,    \* positions the user scrolls to
  LayoutFor       \* EveryLayout of the sheets in the rooms

VARIABLES
  holder,         \* CurrentScore: the score the application has open
  rendered,       \* the score this view last saw there
  laidOut,        \* the score the systems drawn are of
  laidOutFor,     \* what they were laid out for
  prefs,          \* view, size step and hidden parts
  page,           \* the page shown, from 1
  scroll,         \* the viewport's position on the canvas
  room            \* the viewport's size

vars == <<holder, rendered, laidOut, laidOutFor, prefs, page, scroll, room>>

Defaults == [view |-> "page", step |-> DefaultStep, hidden |-> {}]
NoBar == 0

Blank(r, p) == [systems |-> <<>>, pages |-> <<>>, canvas |-> Canvas(r, p, <<>>)]
Layout(sheet, r, p) == IF sheet = NoScore THEN Blank(r, p) ELSE LayoutFor[sheet, r, p]

\* What is drawn.
Drawn == Layout(laidOut, laidOutFor.room, laidOutFor.prefs)
OnPage(p, r, px, y) == PageSurround + PageMargin(r) + (Pixels(y - p.top, px) * p.scale[1]) \div p.scale[2]

-----------------------------------------------------------------------------
(* What is in view, and bringing a measure back into it.                   *)

MeasureInView ==
  LET systems == Drawn.systems
      px == PixelsPerSpace(laidOutFor.prefs)
      Below == {k \in DOMAIN systems : CanvasMargin + Pixels(systems[k].bandBottom, px) > scroll.y}
      \* The measure of the first notehead at or right of the edge.
      Right == {m \in DOMAIN systems[1].firstX :
                  CanvasMargin + Pixels(systems[1].lastX[m], px) >= scroll.x} IN
  IF systems = <<>> THEN NoBar
  ELSE CASE laidOutFor.prefs.view = "page" -> systems[Drawn.pages[Min({page, Len(Drawn.pages)})].first].first
         [] laidOutFor.prefs.view = "vertical" ->
              IF Below = {} THEN Last(systems).first ELSE systems[Min(Below)].first
         [] OTHER -> IF Right = {} THEN systems[1].first ELSE Min(Right)

\* The system before a measure, and the one that holds it.
SystemBefore(systems, measure) == Max({1} \cup {k \in DOMAIN systems : systems[k].first < measure})
Holding(systems, measure) == Max({1} \cup {k \in DOMAIN systems : systems[k].first <= measure})

\* The viewport keeps what it shows inside the canvas.
Clamped(position, canvas, r) ==
  [x |-> Max({0, Min({position.x, canvas.width - r.width})}),
   y |-> Max({0, Min({position.y, canvas.height - r.height})})]

\* Where `measure` is brought to: its page and its system's top, or its first note with
\* a little room before it. A measure without notes is not scrolled to.
Revealed(layout, r, p, measure, at) ==
  LET px == PixelsPerSpace(p)
      systems == layout.systems
      k == Holding(systems, measure)
      of == CHOOSE n \in DOMAIN layout.pages : layout.pages[n].first <= k /\ k <= layout.pages[n].last IN
  CASE systems = <<>> -> at
    [] systems # <<>> /\ p.view = "page" ->
         [page |-> of, x |-> 0, y |-> OnPage(layout.pages[of], r, px, systems[k].bandTop)]
    [] systems # <<>> /\ p.view = "vertical" -> [at EXCEPT !.x = 0, !.y = Pixels(systems[k].bandTop, px)]
    [] OTHER -> IF measure \notin DOMAIN systems[k].firstX THEN at
                ELSE [at EXCEPT !.x = Max({0, Pixels(systems[k].firstX[measure] - 300, px)})]

\* Nothing happens without room, and nothing when everything it depends on is what the
\* systems were laid out for, unless it is forced.
Relayout(sheet, r, p, at, keep, force) ==
  IF r.width <= 0 \/ r.height <= 0 \/ (~force /\ laidOutFor = [room |-> r, prefs |-> p])
  THEN /\ UNCHANGED <<laidOut, laidOutFor>>
       /\ page' = at.page /\ scroll' = [x |-> at.x, y |-> at.y]
  ELSE LET layout == Layout(sheet, r, p)
           turned == IF p.view # "page" THEN at.page ELSE Max({1, Min({at.page, Len(layout.pages)})})
           before == [page |-> turned] @@ Clamped([x |-> at.x, y |-> at.y], layout.canvas, r)
           shown == IF keep = NoBar THEN before ELSE Revealed(layout, r, p, keep, before) IN
       /\ laidOut' = sheet
       /\ laidOutFor' = [room |-> r, prefs |-> p]
       /\ page' = shown.page /\ scroll' = Clamped([x |-> shown.x, y |-> shown.y], layout.canvas, r)

At == [page |-> page, x |-> scroll.x, y |-> scroll.y]
Start == [page |-> 1, x |-> 0, y |-> 0]
ChangePrefs(p) ==
  /\ prefs' = p
  /\ Relayout(rendered, room, p, At, MeasureInView, FALSE)
  /\ UNCHANGED <<holder, rendered, room>>

-----------------------------------------------------------------------------
(* What the application, the timer and the user do.                        *)

Init ==
  /\ holder \in DOMAIN Sheets \cup {NoScore} /\ rendered = holder
  /\ laidOut = NoScore
  /\ room = [width |-> 0, height |-> 0]
  /\ laidOutFor = [room |-> room, prefs |-> Defaults]
  /\ prefs = Defaults /\ page = 1 /\ scroll = [x |-> 0, y |-> 0]

OpenScore(sheet) ==
  /\ holder' = sheet
  /\ UNCHANGED <<rendered, laidOut, laidOutFor, prefs, page, scroll, room>>

\* Twice a second: another score starts at its beginning.
RefreshFromCurrentScore ==
  /\ holder # rendered
  /\ rendered' = holder
  /\ Relayout(holder, room, prefs, Start, NoBar, TRUE)
  /\ UNCHANGED <<holder, prefs, room>>

\* The place is taken before the viewport has its new size.
Resized(r) ==
  /\ r # room
  /\ room' = r
  /\ Relayout(rendered, r, prefs, At, MeasureInView, FALSE)
  /\ UNCHANGED <<holder, rendered, prefs>>

SetView(view) == view # prefs.view /\ ChangePrefs([prefs EXCEPT !.view = view])

SetSizeStep(step) ==
  /\ Min({step, Len(SizeLadder)}) # prefs.step
  /\ ChangePrefs([prefs EXCEPT !.step = Min({step, Len(SizeLadder)})])
ChangeSize ==
  \/ prefs.step > 1 /\ SetSizeStep(prefs.step - 1)
  \/ SetSizeStep(prefs.step + 1)
  \/ SetSizeStep(DefaultStep)

\* The parts menu: only for a score with two parts to draw, a selection that hides all
\* of them is shown as hiding none, and the last part shown cannot be chosen.
TogglePart(key) ==
  LET keys == IF rendered = NoScore THEN {} ELSE {p.key : p \in ToSet(DrawablePartsOf(Sheets[rendered]))}
      shown == IF keys \subseteq prefs.hidden THEN keys ELSE keys \ prefs.hidden IN
  /\ Cardinality(keys) >= 2 /\ key \in keys
  /\ ~(shown = {key})
  /\ ChangePrefs([prefs EXCEPT !.hidden = IF key \in @ THEN @ \ {key} ELSE @ \cup {key}])

TurnToPage(n) ==
  /\ prefs.view = "page" /\ Drawn.pages # <<>> /\ n # page
  /\ page' = Min({n, Len(Drawn.pages)}) /\ scroll' = [x |-> 0, y |-> 0]
  /\ UNCHANGED <<holder, rendered, laidOut, laidOutFor, prefs, room>>
TurnPage ==
  \/ page > 1 /\ TurnToPage(page - 1)
  \/ TurnToPage(page + 1)
  \/ TurnToPage(1)
  \/ TurnToPage(Len(Drawn.pages))

Scroll(position) ==
  /\ Drawn.systems # <<>> /\ room.height > 0
  /\ scroll' = Clamped(position, Drawn.canvas, room)
  /\ UNCHANGED <<holder, rendered, laidOut, laidOutFor, prefs, page, room>>

\* A payload of another version is not read; a field that cannot be read keeps its
\* default, and a size that is no longer offered becomes the nearest that is.
NearestSizeStep(size) ==
  LET Distance(n) == IF SizeLadder[n] < size THEN size - SizeLadder[n] ELSE SizeLadder[n] - size IN
  Min({n \in DOMAIN SizeLadder : \A k \in DOMAIN SizeLadder : Distance(n) <= Distance(k)})
Decode(payload) ==
  IF ~payload.thisVersion THEN Defaults
  ELSE [view |-> IF payload.view \in Views THEN payload.view ELSE Defaults.view,
        step |-> IF payload.size > 0 THEN NearestSizeStep(payload.size) ELSE DefaultStep,
        hidden |-> payload.hidden]
Encode(p) == [thisVersion |-> TRUE, view |-> p.view, size |-> SizeLadder[p.step], hidden |-> p.hidden]

ApplySettings(payload) == ChangePrefs(Decode(payload))

\* For verification: always at the default size.
ShowView(payload) == ChangePrefs([Decode(payload) EXCEPT !.step = DefaultStep])

\* The holder is read again from nothing, and laid out twice.
ResetToDefaults ==
  /\ prefs' = Defaults /\ rendered' = holder
  /\ Relayout(holder, room, Defaults, IF holder = NoScore THEN At ELSE Start, NoBar, TRUE)
  /\ UNCHANGED <<holder, room>>

Next ==
  \/ \E sheet \in DOMAIN Sheets : OpenScore(sheet)
  \/ RefreshFromCurrentScore
  \/ \E r \in Rooms : Resized(r)
  \/ \E view \in Views : SetView(view)
  \/ ChangeSize
  \/ \E key \in UNION {{p.key : p \in ToSet(Sheets[s])} : s \in DOMAIN Sheets} : TogglePart(key)
  \/ TurnPage
  \/ \E position \in ScrollStops : Scroll(position)
  \/ \E payload \in Payloads : ApplySettings(payload) \/ ShowView(payload)
  \/ ResetToDefaults

-----------------------------------------------------------------------------
(* The place.                                                              *)

\* The viewport holds the top of a measure's system, or its first note.
InView(measure) ==
  LET px == PixelsPerSpace(prefs)
      Systems == Drawn.systems
      k == CHOOSE k \in DOMAIN Systems : Systems[k].first <= measure /\ measure <= Systems[k].last
      system == Systems[k]
      p == Drawn.pages[page]
      Shows(y) == scroll.y <= y /\ y < scroll.y + room.height IN
  CASE prefs.view = "page" -> p.first <= k /\ k <= p.last /\ Shows(OnPage(p, room, px, system.bandTop))
    [] prefs.view = "vertical" -> Shows(CanvasMargin + Pixels(system.bandTop, px))
    [] OTHER -> LET x == CanvasMargin + Pixels(system.firstX[measure], px) IN
                scroll.x <= x /\ x < scroll.x + room.width

\* "When the view, the staff size or the parts shown change, the Score View SHALL keep
\* the bar that was in view before the change in view after it"
\* (openspec/specs/score-view-modes/spec.md:92); a resize keeps it too. The bar has a
\* note, there is room before and after, and what is drawn is the score seen.
KeptBarStaysInView ==
  [][(prefs' # prefs \/ room' # room) =>
       \A bar \in {MeasureInView} \ {NoBar} :
         /\ rendered' = rendered /\ laidOut = rendered /\ room.height > 0 /\ room'.height > 0
         /\ \E k \in DOMAIN Drawn'.systems : bar \in DOMAIN Drawn'.systems[k].firstX
         /\ ~ResetToDefaults
         => InView(bar)']_vars

\* Once there is room, what is drawn is the score the tool has seen, as it is to be
\* shown (ScoreViewComponent.cpp refreshFromCurrentScore). The code does not keep it: a
\* score that arrives while there is no room is not laid out, and the panel coming back
\* to the size it had finds nothing to do.
LayoutIsOfTheRenderedScore ==
  room.height > 0 => laidOut = rendered /\ laidOutFor = [room |-> room, prefs |-> prefs]

\* "It reveals that measure: scrolls its system to the top", the place being "the first system
\* whose band reaches the top of the viewport" (openspec/changes/archive/
\* 2026-11-02-score-view-modes/design.md:96-99): a system that could be brought to the top is
\* the place from then on. The code does not keep it in Vertical scroll: it scrolls to the top
\* of the band without the margin of the canvas, and measureInView, which adds the margin,
\* finds the foot of the system above in view. Every change goes up by a system.
KeptPlaceIsThePlace ==
  [][\A bar \in {MeasureInView} \ {NoBar} :
       /\ prefs' # prefs /\ prefs'.view = "vertical" /\ ~ResetToDefaults
       /\ rendered' = rendered /\ laidOut = rendered /\ room.height > 0
       /\ (LET top == Drawn.systems[Holding(Drawn.systems, bar)].bandTop
           IN scroll.y = Pixels(top, PixelsPerSpace(prefs)))'
       => (Holding(Drawn.systems, MeasureInView) = Holding(Drawn.systems, bar))']_vars
=============================================================================
