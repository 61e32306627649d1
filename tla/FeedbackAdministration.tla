----------------------- MODULE FeedbackAdministration -----------------------
(***************************************************************************)
(* The inbox behind services/feedback-intake/src/admin.ts and the daily    *)
(* retention of operations.ts: requests of the administrator and retention *)
(* runs that overlap, each a chain of single statements without a          *)
(* transaction, on a table whose duplicate_of is a foreign key.            *)
(*                                                                         *)
(* A report is old when it has passed the retention period of its status;  *)
(* a run takes the time once, when it starts.  Text, notes, tags, listing, *)
(* export and the periods of the other tables are left out.                *)
(***************************************************************************)
EXTENDS Integers, Sequences, FiniteSets, Functions

CONSTANTS
  Reports,       (* receipt ids                                             *)
  Handlers,      (* invocations that can run at the same time               *)
  ReviewStatuses,      (* among them needs_review, duplicate and the Closed ones  *)
  Closed,        (* statuses with a retention period of their own           *)
  NoReport,
  MaxRequests,   (* bound: requests and runs begun                          *)
  MaxFaults      (* bound: statements that fail and invocations evicted     *)

VARIABLES
  inbox,      (* feedback_submissions: from a subset of Reports to rows     *)
  queue,      (* feedback_email_queue                                       *)
  receipts,   (* per report: delete receipts in admin_action_receipts       *)
  pc,         (* per handler: the statement it executes next                *)
  todo,       (* per handler: the reports of its request still to delete    *)
  expired,    (* per handler: the reports older than the cutoffs of its run *)
  deleted,    (* per handler: the reports its answer will name as deleted   *)
  answered,   (* history: reports an answer has named as deleted            *)
  made,       (* the number of reports ever received: receipt ids are fresh *)
  begun, faults

table == <<inbox, queue, receipts>>
handler == <<pc, todo, expired, deleted>>
administration == <<table, handler, answered, made, begun, faults>>

\* Receipt ids are numbers, and the steps of a request are no status.
AdministrationAssumption ==
  /\ Reports \subseteq Nat /\ NoReport \notin Reports
  /\ Closed \cap {"idle", "unlink", "delete", "purge", "purgeMissing", "receipt"} = {}

Row(status, target, old) == [status |-> status, target |-> target, old |-> old]
Stored == DOMAIN inbox
Referring(ids) == {r \in Stored : inbox[r].target \in ids}

\* duplicate_of = NULL, status = 'needs_review' for what refers to one of the ids.
Unlinked(ids) ==
  [r \in Stored |-> IF r \in Referring(ids)
                    THEN [inbox[r] EXCEPT !.target = NoReport, !.status = "needs_review"]
                    ELSE inbox[r]]

\* The foreign key: nothing that stays refers to what is deleted.
Deletable(ids) == Referring(ids) \subseteq ids

Goto(h, label) == pc' = [pc EXCEPT ![h] = label]

Begin == begun < MaxRequests /\ begun' = begun + 1

-----------------------------------------------------------------------------
(* Reports come in, age, and their copies are mailed.                      *)

\* A quarantined report and one the administrator creates are not queued.
Receive(r) ==
  /\ r = made + 1 /\ made' = r
  /\ inbox' = [s \in Stored \cup {r} |-> IF s = r THEN Row("new", NoReport, FALSE) ELSE inbox[s]]
  /\ queue' \in {queue, queue \cup {r}}
  /\ UNCHANGED <<receipts, handler, answered, begun, faults>>

Grow(r) ==
  /\ r \in Stored /\ ~inbox[r].old
  /\ inbox' = [inbox EXCEPT ![r].old = TRUE]
  /\ UNCHANGED <<queue, receipts, handler, answered, made, begun, faults>>

Mail(r) ==
  /\ r \in queue /\ queue' = queue \ {r}
  /\ UNCHANGED <<inbox, receipts, handler, answered, made, begun, faults>>

-----------------------------------------------------------------------------
(* Requests of the administrator.                                          *)

\* updateSubmission: a status or a quarantine (which is needs_review), or a
\* duplicate target or none.  A report or a target that does not exist changes
\* nothing.
Update(h, r) ==
  /\ pc[h] = "idle" /\ Begin
  /\ r \in Stored
  /\ \/ \E status \in ReviewStatuses : inbox' = [inbox EXCEPT ![r].status = status]
     \/ \E target \in Stored \ {r} :
          inbox' = [inbox EXCEPT ![r].target = target, ![r].status = "duplicate"]
     \/ inbox' = [inbox EXCEPT ![r].target = NoReport]
  /\ UNCHANGED <<queue, receipts, handler, answered, made, faults>>

\* deleteSubmission, and deleteSubmissions of several ids in turn.
Request(h, ids) ==
  /\ pc[h] = "idle" /\ Begin
  /\ todo' = [todo EXCEPT ![h] = ids]
  /\ deleted' = [deleted EXCEPT ![h] = {}]
  /\ Goto(h, "unlink")
  /\ UNCHANGED <<table, expired, answered, made, faults>>

Unlink(h) ==
  /\ pc[h] = "unlink"
  /\ inbox' = Unlinked({Head(todo[h])})
  /\ Goto(h, "delete")
  /\ UNCHANGED <<queue, receipts, todo, expired, deleted, answered, made, begun, faults>>

\* What matched no row is missing, and gets no receipt.
DeleteRow(h) ==
  LET r == Head(todo[h]) IN
  /\ pc[h] = "delete" /\ Deletable({r})
  /\ inbox' = Restrict(inbox, Stored \ {r})
  /\ Goto(h, IF r \in Stored THEN "purge" ELSE "purgeMissing")
  /\ UNCHANGED <<queue, receipts, todo, expired, deleted, answered, made, begun, faults>>

\* The next id, or the answer.
Continue(h, named) ==
  /\ todo' = [todo EXCEPT ![h] = Tail(@)]
  /\ deleted' = [deleted EXCEPT ![h] = named]
  /\ Goto(h, IF Len(todo[h]) = 1 THEN "idle" ELSE "unlink")
  /\ answered' = IF Len(todo[h]) = 1 THEN answered \cup named ELSE answered

\* Mutation: whether the DELETE changed a row is not looked at.
PurgeWhatever(h) ==
  /\ pc[h] \in {"purge", "purgeMissing"}
  /\ queue' = queue \ {Head(todo[h])}
  /\ Goto(h, "receipt") /\ UNCHANGED <<todo, deleted, answered>>
  /\ UNCHANGED <<inbox, receipts, expired, made, begun, faults>>

Purge(h) ==
  /\ pc[h] \in {"purge", "purgeMissing"}
  /\ queue' = queue \ {Head(todo[h])}
  /\ IF pc[h] = "purgeMissing" THEN Continue(h, deleted[h])
     ELSE Goto(h, "receipt") /\ UNCHANGED <<todo, deleted, answered>>
  /\ UNCHANGED <<inbox, receipts, expired, made, begun, faults>>

RecordAction(h) ==
  /\ pc[h] = "receipt"
  /\ receipts' = [receipts EXCEPT ![Head(todo[h])] = @ + 1]
  /\ Continue(h, deleted[h] \cup {Head(todo[h])})
  /\ UNCHANGED <<inbox, queue, expired, made, begun, faults>>

-----------------------------------------------------------------------------
(* runRetention.                                                           *)

Expired(h, status) == {r \in expired[h] \cap Stored : inbox[r].status = status}

Start(h) ==
  /\ pc[h] = "idle" /\ Begin
  /\ expired' = [expired EXCEPT ![h] = {r \in Stored : inbox[r].old}]
  /\ Goto(h, "release")
  /\ UNCHANGED <<table, todo, deleted, answered, made, faults>>

Release(h) ==
  /\ pc[h] = "release"
  /\ inbox' = Unlinked(UNION {Expired(h, status) : status \in Closed \cup {"duplicate"}})
  /\ Goto(h, "duplicate")
  /\ UNCHANGED <<queue, receipts, todo, expired, deleted, answered, made, begun, faults>>

AfterSweep(status) ==
  IF status = "duplicate" THEN Closed ELSE (Closed \ {status}) \cup {"sweepQueue"}

\* The statuses one after the other, duplicates first; the order of the others is
\* left open.
Sweep(h, status) ==
  /\ pc[h] = status /\ status \in Closed \cup {"duplicate"}
  /\ Deletable(Expired(h, status))
  /\ inbox' = Restrict(inbox, Stored \ Expired(h, status))
  /\ pc' \in {[pc EXCEPT ![h] = next] :
                next \in AfterSweep(status)}
  /\ UNCHANGED <<queue, receipts, todo, expired, deleted, answered, made, begun, faults>>

\* Copies that are too old or whose report is gone; then the other tables.
SweepQueue(h) ==
  /\ pc[h] = "sweepQueue"
  /\ queue' = queue \cap (Stored \ expired[h])
  /\ Goto(h, "idle")
  /\ UNCHANGED <<inbox, receipts, todo, expired, deleted, answered, made, begun, faults>>

\* A foreign key refuses a DELETE, which is an exception, or anything else
\* fails, or the invocation is evicted: the rest does not happen, and what
\* has happened stays.
Abort(h) ==
  /\ pc[h] # "idle"
  /\ \/ pc[h] = "delete" /\ ~Deletable({Head(todo[h])}) /\ UNCHANGED faults
     \/ pc[h] \in Closed \cup {"duplicate"} /\ ~Deletable(Expired(h, pc[h])) /\ UNCHANGED faults
     \/ faults < MaxFaults /\ faults' = faults + 1
  /\ Goto(h, "idle")
  /\ UNCHANGED <<table, todo, expired, deleted, answered, made, begun>>

-----------------------------------------------------------------------------

Init ==
  /\ inbox = [r \in {} |-> Row("new", NoReport, FALSE)] /\ queue = {}
  /\ receipts = [r \in Reports |-> 0]
  /\ pc = [h \in Handlers |-> "idle"]
  /\ todo = [h \in Handlers |-> <<>>]
  /\ expired = [h \in Handlers |-> {}]
  /\ deleted = [h \in Handlers |-> {}]
  /\ answered = {} /\ made = 0 /\ begun = 0 /\ faults = 0

Batches == {<<r>> : r \in Reports} \cup {ids \in Reports \X Reports : ids[1] # ids[2]}

Next ==
  \/ \E r \in Reports : Receive(r) \/ Grow(r) \/ Mail(r)
  \/ \E h \in Handlers :
       \/ \E r \in Reports : Update(h, r)
       \/ \E ids \in Batches : Request(h, ids)
       \/ Unlink(h) \/ DeleteRow(h) \/ Purge(h) \/ RecordAction(h)
       \/ Start(h) \/ Release(h) \/ SweepQueue(h) \/ Abort(h)
       \/ \E status \in ReviewStatuses : Sweep(h, status)

Spec == Init /\ [][Next]_administration

-----------------------------------------------------------------------------
(* Properties.                                                             *)

\* "purges the queued email copy of each removed record, and leaves a minimal
\* administrative receipt": a report that an answer names as deleted is gone
\* from every table, nothing refers to it, and exactly one receipt says so,
\* whatever other deletions and retention runs were doing at the same time.
DeletionComplete ==
  \A r \in answered :
    r \notin Stored \cup queue /\ Referring({r}) = {} /\ receipts[r] = 1
=============================================================================
