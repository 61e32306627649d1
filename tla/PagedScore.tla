---------------------------- MODULE PagedScore ----------------------------
(***************************************************************************)
(* A score laid out for a room and a reader's preferences (the layout half *)
(* of src/features/score/ScoreViewComponent.cpp, and                       *)
(* engraving/Pagination.cpp): how wide its lines are, its systems, the     *)
(* pages they stand on, and the canvas that holds them. Pixels are whole;  *)
(* lengths of the layout are hundredths of a staff space.                  *)
(***************************************************************************)
EXTENDS SystemLayout

CONSTANT SizeLadder     \* pixels per staff space, smallest first

Views == {"page", "vertical", "horizontal"}
CanvasMargin == 14
PageSurround == 12
ScrollBar == 8
Unbounded == 1000000000

Pixels(length, px) == (length * px) \div 100
PixelsPerSpace(p) == SizeLadder[Min({p.step, Len(SizeLadder)})]

PageWidth(r) == Max({0, Max({0, r.width - ScrollBar}) - 2 * PageSurround})
PageHeight(r) == (PageWidth(r) * 14142) \div 10000
PageMargin(r) == (PageWidth(r) * 6) \div 100
PageContent(r, px) ==
  [width |-> ((PageWidth(r) - 2 * PageMargin(r)) * 100) \div px,
   height |-> ((PageHeight(r) - 2 * PageMargin(r)) * 100) \div px,
   y |-> PageSurround + PageMargin(r)]

AvailableWidth(r, p) ==
  CASE p.view = "page" -> Max({2400, PageContent(r, PixelsPerSpace(p)).width})
    [] p.view = "vertical" -> Max({2400, ((r.width - 2 * CanvasMargin) * 100) \div PixelsPerSpace(p)})
    [] OTHER -> Unbounded

\* A system too tall or too wide for a page is on a page of its own.
Paginate(systems, content) ==
  LET Oversize(s) == s.bandBottom - s.bandTop > content.height \/ s.width > content.width
      Next_(pages, k) ==
        IF /\ pages # <<>> /\ ~Oversize(systems[k]) /\ ~Last(pages).oversize
           /\ systems[k].bandBottom - Last(pages).top <= content.height
        THEN Append(Front(pages), [Last(pages) EXCEPT !.last = k])
        ELSE Append(pages, [first |-> k, last |-> k, top |-> systems[k].bandTop,
                            oversize |-> Oversize(systems[k])]) IN
  FoldLeft(Next_, <<>>, [k \in DOMAIN systems |-> k])

\* How much smaller a page is drawn so that all of it shows, as a fraction.
FitScale(p, systems, content) ==
  LET widest == Max({systems[k].width : k \in p.first..p.last})
      tallest == systems[p.last].bandBottom - p.top
      Fit(room_, length) == IF length > room_ THEN <<room_, length>> ELSE <<1, 1>>
      a == Fit(content.height, tallest)
      b == Fit(content.width, widest) IN
  IF a[1] * b[2] <= b[1] * a[2] THEN a ELSE b

Canvas(r, p, systems) ==
  LET px == PixelsPerSpace(p)
      widest == Max({0} \cup {systems[k].width : k \in DOMAIN systems})
      total == IF systems = <<>> THEN 0 ELSE Last(systems).bandBottom
      content == [width |-> Pixels(widest, px) + 1 + 2 * CanvasMargin,
                  height |-> Pixels(total, px) + 1 + 2 * CanvasMargin] IN
  CASE p.view = "page" -> [width |-> Max({0, r.width - ScrollBar}),
                           height |-> Max({r.height, PageHeight(r) + 2 * PageSurround})]
    [] p.view = "vertical" -> [width |-> Max({r.width, content.width}),
                               height |-> Max({r.height, content.height})]
    [] OTHER -> [width |-> Max({r.width, content.width}), height |-> content.height]

\* The systems, the pages they stand on in the page view, and the canvas.
ScaledPages(pages, systems, content) ==
  [n \in DOMAIN pages |->
     [first |-> pages[n].first, last |-> pages[n].last, top |-> pages[n].top,
      scale |-> FitScale(pages[n], systems, content)]]
LaidOutOn(r, p, systems, content) ==
  [systems |-> systems, canvas |-> Canvas(r, p, systems),
   pages |-> IF p.view = "page" THEN ScaledPages(Paginate(systems, content), systems, content) ELSE <<>>]
LaidOut(sheet, r, p) ==
  LaidOutOn(r, p, LayOutScore(sheet, p.hidden, AvailableWidth(r, p)), PageContent(r, PixelsPerSpace(p)))
EveryLayout(sheets, rooms, keys) ==
  [name \in DOMAIN sheets, r \in rooms,
   p \in [view : Views, step : DOMAIN SizeLadder, hidden : SUBSET keys] |-> LaidOut(sheets[name], r, p)]
  @@ <<>>
=============================================================================
