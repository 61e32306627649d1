--------------------------- MODULE ReportMailbox ---------------------------
(***************************************************************************)
(* What the email path of the feedback service promises, with no dispatch, *)
(* claim, slot or failure in it: a report that was accepted waits until it *)
(* has been mailed at least once, unless its copy is withdrawn; it may be  *)
(* mailed again, and it does not wait for ever.                            *)
(***************************************************************************)
CONSTANT Reports

VARIABLES
  accepted,   (* reports the service took in                       *)
  waiting,    (* those it still owes an email                      *)
  mailed,     (* those that are in at least one delivered email    *)
  withdrawn   (* those removed by retention or by an administrator *)

vars == <<accepted, waiting, mailed, withdrawn>>

Accept(r) ==
  /\ r \notin accepted
  /\ accepted' = accepted \cup {r}
  /\ waiting' = waiting \cup {r}
  /\ UNCHANGED <<mailed, withdrawn>>

Withdraw(r) ==
  /\ r \in waiting
  /\ waiting' = waiting \ {r}
  /\ withdrawn' = withdrawn \cup {r}
  /\ UNCHANGED <<accepted, mailed>>

\* An email goes out; what it contains may be withdrawn, or mailed, already.
Mail(S) ==
  /\ S \subseteq accepted
  /\ mailed' = mailed \cup S
  /\ UNCHANGED <<accepted, waiting, withdrawn>>

\* Only what has been mailed stops waiting.
Settle(S) ==
  /\ S \subseteq waiting \cap mailed
  /\ waiting' = waiting \ S
  /\ UNCHANGED <<accepted, mailed, withdrawn>>

Init == accepted = {} /\ waiting = {} /\ mailed = {} /\ withdrawn = {}

Next ==
  \/ \E r \in Reports : Accept(r) \/ Withdraw(r)
  \/ \E S \in SUBSET Reports : Mail(S) \/ Settle(S)

Spec == Init /\ [][Next]_vars

Fairness ==
  \A r \in Reports :
    /\ WF_vars(r \in waiting \ mailed /\ \E S \in SUBSET Reports : r \in S /\ Mail(S))
    /\ WF_vars(\E S \in SUBSET Reports : r \in S /\ Settle(S))

FairSpec == Spec /\ Fairness
=============================================================================
