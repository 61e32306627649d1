------------------------------ MODULE TargetNote ------------------------------
(***************************************************************************)
(* The note the target-note tool points at: the first of the first part of *)
(* the open score.  The tool reads the score it is given once, when the    *)
(* pointer of the current score changes, so the selection is an operator   *)
(* on a score (see ScoreInvariants for its form).  Titles, names and       *)
(* seconds are left out.                                                   *)
(***************************************************************************)
EXTENDS Integers, Sequences, FiniteSetsExt

IsTargetable(event) == event.notes # <<>> /\ ~event.isGrace

\* The events of a voice are looked at until the first that can be a target, whatever its
\* onset: they are taken to be in order.
FirstIn(voice) ==
  LET targets == {e \in DOMAIN voice.events : IsTargetable(voice.events[e])}
  IN IF targets = {} THEN {} ELSE {Min(targets)}

\* The earliest of a measure; voices that start together are told apart by their number and
\* then by their place.
EarliestIn(measure) ==
  LET candidates == UNION {{<<v, e>> : e \in FirstIn(measure.voices[v])} :
                             v \in DOMAIN measure.voices}
      Onset(c) == measure.voices[c[1]].events[c[2]].onset
      Number(c) == measure.voices[c[1]].number
      Beats(c, d) == \/ Onset(c) < Onset(d)
                     \/ Onset(c) = Onset(d) /\ Number(c) < Number(d)
                     \/ Onset(c) = Onset(d) /\ Number(c) = Number(d) /\ c[1] < d[1]
  IN {c \in candidates : \A d \in candidates \ {c} : Beats(c, d)}

\* The first measure that holds a target; none is found in a score without parts or notes.
Selected(score) ==
  LET measures == IF score.parts = <<>> THEN <<>> ELSE score.parts[1].measures
      sounding == {m \in DOMAIN measures : EarliestIn(measures[m]) # {}}
  IN IF sounding = {} THEN {}
     ELSE {<<Min(sounding), c[1], c[2]>> : c \in EarliestIn(measures[Min(sounding)])}

StartOf(part, at) ==
  part.measures[at[1]].start + part.measures[at[1]].voices[at[2]].events[at[3]].onset

\* The selection is one note, and it is found in every score whose first part has a note that
\* is not a grace note; no note of that part sounds before it, unless it begins before its own
\* bar does, which a file with negative durations can ask for and no repair prevents.
SelectedIsTheFirst(score) ==
  score.parts # <<>> =>
    LET part == score.parts[1]
        all == UNION {UNION {{<<m, v, e>> :
                 e \in {i \in DOMAIN part.measures[m].voices[v].events :
                          IsTargetable(part.measures[m].voices[v].events[i])}} :
                 v \in DOMAIN part.measures[m].voices} : m \in DOMAIN part.measures}
        InItsBar(at) == part.measures[at[1]].start <= StartOf(part, at)
    IN /\ Cardinality(Selected(score)) = (IF all = {} THEN 0 ELSE 1)
       /\ \A at \in Selected(score) : at \in all /\ \A other \in all :
            InItsBar(other) => StartOf(part, at) <= StartOf(part, other)
=============================================================================
