---------------------------- MODULE ScoreImport ----------------------------
(***************************************************************************)
(* Opening a score: a thread reads the file and posts its result to the    *)
(* message thread, which publishes the score and shows a summary.  The     *)
(* thread is still running for a moment after it has posted, and a new one *)
(* can be started while an earlier result waits in the message queue.      *)
(* Files are numbered in the order in which reading them was started.      *)
(***************************************************************************)
EXTENDS Naturals, Sequences

CONSTANT MaxStarts   \* bound on the imports started

VARIABLES
  thread,     \* "idle", "reading", "posted" (isThreadRunning until it is idle)
  started,    \* the file the last started import reads, 0 before the first
  results,    \* posted and not yet delivered: the file and whether it was read
  score,      \* the current score: the file it came from, 0 for none
  opened,     \* the last file that was read, to say what score should be
  window      \* what the import window shows, closed or not

import == <<thread, started, results, score, opened, window>>

ImportAssumption == MaxStarts \in Nat

Closed == [shows |-> "closed", file |-> 0]
Progress(file) == [shows |-> "progress", file |-> file]
Summary(file) == [shows |-> "summary", file |-> file]

Init ==
  /\ thread = "idle" /\ started = 0 /\ results = <<>>
  /\ score = 0 /\ opened = 0 /\ window = Closed

\* startScoreImport of a file the user chose, or of the bundled sample.
Start ==
  /\ thread = "idle" /\ started < MaxStarts
  /\ thread' = "reading" /\ started' = started + 1
  /\ window' = Progress(started + 1)
  /\ UNCHANGED <<results, score, opened>>

\* A second file while the thread runs is refused, and the window is brought
\* back with the progress of the first; fileBeingRead asks again whether the
\* thread runs, and names no file if it has just ended.
Refuse ==
  /\ thread # "idle"
  /\ \/ window' = Progress(started) /\ UNCHANGED thread
     \/ thread = "posted" /\ thread' = "idle" /\ window' = Progress(0)
  /\ UNCHANGED <<started, results, score, opened>>

\* run: the file is read, or is not a score, and the result is posted.
Read(succeeded) ==
  /\ thread = "reading"
  /\ thread' = "posted"
  /\ results' = Append(results, [file |-> started, succeeded |-> succeeded])
  /\ opened' = IF succeeded THEN started ELSE opened
  /\ UNCHANGED <<started, score, window>>

ThreadEnds ==
  /\ thread = "posted" /\ thread' = "idle"
  /\ UNCHANGED <<started, results, score, opened, window>>

\* Mutation: a failed import closes the score that is open.
DeliverWhatever ==
  /\ results # <<>>
  /\ score' = IF Head(results).succeeded THEN Head(results).file ELSE 0
  /\ window' = Summary(Head(results).file)
  /\ results' = Tail(results)
  /\ UNCHANGED <<thread, started, opened>>

\* finishScoreImport: the score is published if there is one, the score view
\* opened, and the window brought back with the summary.
Deliver ==
  /\ results # <<>>
  /\ score' = IF Head(results).succeeded THEN Head(results).file ELSE score
  /\ window' = Summary(Head(results).file)
  /\ results' = Tail(results)
  /\ UNCHANGED <<thread, started, opened>>

CloseWindow ==
  /\ window # Closed /\ window' = Closed
  /\ UNCHANGED <<thread, started, results, score, opened>>

\* The owner goes: the thread is told to exit and waited for, and what is
\* posted finds no owner.
Shutdown ==
  /\ thread' = "idle" /\ results' = <<>> /\ window' = Closed
  /\ score' = 0 /\ opened' = 0 /\ started' = MaxStarts

Next ==
  \/ Start \/ Refuse \/ ThreadEnds \/ Deliver \/ CloseWindow \/ Shutdown
  \/ \E succeeded \in BOOLEAN : Read(succeeded)

Spec == Init /\ [][Next]_import

-----------------------------------------------------------------------------
(* Properties.                                                             *)

\* Once every result is delivered the current score is the one of the last
\* import that succeeded, however results waited, failed or overlapped a start.
LastOpenedIsCurrent == results = <<>> /\ thread # "reading" => score = opened

\* What the comment on a refused second file says: the window then shows the
\* progress of the import that runs, so a summary is still to come.
ProgressIsOfARunningImport ==
  window.shows = "progress" => thread = "reading" \/ results # <<>>

=============================================================================
