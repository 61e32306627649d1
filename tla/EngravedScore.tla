--------------------------- MODULE EngravedScore ---------------------------
(***************************************************************************)
(* A score written bar by bar, and what its layout says of it at every     *)
(* width and for every selection of parts (layOutScore of                  *)
(* src/features/score/engraving/ScoreLayoutEngine.cpp).                    *)
(***************************************************************************)
EXTENDS SystemLayout

CONSTANTS
  Opening,      \* the parts, without bars
  Columns,      \* a bar for every part
  MaxBars,
  Widths,       \* widths a system may have
  Selections    \* sets of parts hidden

VARIABLE written

Init == written = Opening

WriteBars(column) ==
  /\ Len(written[1].bars) < MaxBars
  /\ written' = [p \in DOMAIN written |-> [written[p] EXCEPT !.bars = Append(@, column[p])]]

Next == \E column \in Columns : WriteBars(column)

-----------------------------------------------------------------------------
\* Every bar stands on one system, in order; a system that is not the last ends at the
\* margin, and only a bar that fits on no line goes beyond it.
LinesHoldTheScore(systems, count, width) ==
  LET n == Len(systems)
      Bars(k) == Len(systems[k].measures) IN
  /\ systems[1].first = 1 /\ systems[n].last = count
  /\ \A k \in 2..n : systems[k].first = systems[k - 1].last + 1
  /\ \A k \in 1..n :
       \/ Bars(k) = 1 /\ systems[k].width > width
       \/ /\ systems[k].width <= width
          /\ k < n => systems[k].width >= width - Bars(k)

\* Reading the brackets from system to system, each bar is under the ending it was
\* written with; a bracket opens with its number where a run begins, and nowhere else.
EndingsReadBack(systems, top) ==
  LET bars == top.bars
      Over(m) == UNION {{v \in systems[k].voltas : v.from <= m /\ m <= v.to} : k \in DOMAIN systems}
      read[m \in 0..Len(bars)] ==
        IF m = 0 \/ Over(m) = {} THEN 0
        ELSE LET v == CHOOSE v \in Over(m) : TRUE IN IF v.label # 0 THEN v.label ELSE read[m - 1] IN
  \A k \in DOMAIN systems : \A m \in systems[k].first..systems[k].last :
    /\ read[m] = bars[m].ending
    /\ LET starts == bars[m].ending # 0
                     /\ (m = 1 \/ bars[m - 1].repeatEnd \/ bars[m - 1].ending # bars[m].ending) IN
       /\ starts => \E v \in Over(m) : v.from = m
       /\ \A v \in Over(m) : v.from = m => (v.label # 0 <=> starts) /\ (v.hookAtStart <=> starts)

\* Nothing of one staff, its text included, reaches the next one's, on the same system
\* or on the one after it.
NothingCollides(systems) ==
  LET Bottom(k, s) == systems[k].topOfStaff + systems[k].offsets[s] + systems[k].reach[s].bottom
      Top(k, s) == systems[k].topOfStaff + systems[k].offsets[s] + systems[k].reach[s].top IN
  \A k \in DOMAIN systems :
    LET n == Len(systems[k].offsets) IN
    /\ \A s \in 2..n : Bottom(k, s - 1) < Top(k, s)
    /\ k > 1 => Bottom(k - 1, n) < Top(k, 1)

\* The systems hold the score that was written, for every width and selection.
PageReadsBack ==
  \A hidden \in Selections :
    LET drawn == DrawnParts(written, hidden) IN
    drawn # <<>> =>
      \A width \in Widths :
        LET systems == LayOutScore(written, hidden, width) IN
        /\ LinesHoldTheScore(systems, MeasureCount(drawn), width)
        /\ EndingsReadBack(systems, drawn[1])
        /\ NothingCollides(systems)

-----------------------------------------------------------------------------
(* A behaviour the documentation states and the code does not have.        *)

\* "A tempo mark SHALL be drawn once, above the top staff, whichever parts the file
\* writes it into" (openspec/specs/every-part/spec.md:51), and a hidden part's go to
\* the top staff shown: but a run of empty bars is condensed without looking at the
\* marks the bars have borrowed, and only its first bar's are drawn.
EveryTempoIsShown ==
  \A hidden \in Selections, width \in Widths :
    LET systems == LayOutScore(written, hidden, width) IN
    systems # <<>> =>
      \A p \in DOMAIN written, m \in DOMAIN written[1].bars : \A t \in written[p].bars[m].tempos :
        \E k \in DOMAIN systems : \E u \in systems[k].tempos : u.slot[1] = m /\ u.label = t.label
=============================================================================
