--------------------------- MODULE MCDispatchDays ---------------------------
(***************************************************************************)
(* Two days of mailing, for TLC: one report under every fault, and a       *)
(* backlog that is there before the first dispatch and that nothing        *)
(* disturbs.  A behaviour exercises one of them.                           *)
(***************************************************************************)
EXTENDS MCNotificationDispatch

VARIABLE part

DaysInit == part \in {"faults", "backlog"} /\ Init

OneReportNext == Next /\ accepted' \subseteq OneReport

\* All reports come in first.
BacklogNext ==
  /\ Next
  /\ faults' = 0 /\ withdrawn' = {}
  /\ accepted # Reports => accepted' # accepted

DaysNext ==
  /\ UNCHANGED part
  /\ \/ part = "faults" /\ OneReportNext
     \/ part = "backlog" /\ BacklogNext

DaysSpec == DaysInit /\ [][DaysNext]_<<part, vars>> /\ Fairness

-----------------------------------------------------------------------------
\* README: the backlog is divided by the remaining slots, so that when the last slot
\* of a day has been used without a failure nothing of it is left in the queue.
BacklogGoneWithLastSlot ==
  /\ \E n \in Days : sentCount[n] = DailyLimit
  /\ \A d \in Dispatchers : pc[d] = "idle"
  => queue = {}

\* No email leaves more than the later slots of its day carry with batches like its
\* own, unless it is full: this is what the division by the remaining slots is for, and
\* it holds also if two dispatches count the same backlog, when the batches become
\* uneven (of six reports 2, 3 and 1).
LaterSlotsCarryTheRest ==
  \A e \in emails :
    \/ Cardinality(Unclaimed) <= (DailyLimit - e.number) * Cardinality(e.reports)
    \/ Cardinality(e.reports) = MaxBatch

\* Both, for a backlog that was there before the first dispatch.
BacklogSharedOut ==
  part = "backlog" /\ accepted = Reports => BacklogGoneWithLastSlot /\ LaterSlotsCarryTheRest
=============================================================================
