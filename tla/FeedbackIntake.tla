--------------------------- MODULE FeedbackIntake ---------------------------
(***************************************************************************)
(* The way of a report from the feedback form to the inbox: the desktop    *)
(* client of features/feedback/FeedbackComponent.cpp and createSubmission  *)
(* of services/feedback-intake/src/index.ts, several invocations of which  *)
(* run at once.  A handler is a chain of reads of the submissions table    *)
(* and one batch that inserts; nothing keeps the reads true meanwhile.     *)
(*                                                                         *)
(* An attempt is one press of Submit.  It has its own clientSubmissionId   *)
(* and its own authorization, so its number stands for both.  The form     *)
(* belongs to the message thread; the request is made by a thread that     *)
(* ends by posting its outcome, so that an attempt can begin while the     *)
(* outcome of the one before waits in the queue.  Every installation has   *)
(* an address of its own: the limit per client_hash and the one per        *)
(* installation_hash count the same rows.  Sizes in bytes and the email    *)
(* copy (NotificationDispatch) are left out.                               *)
(***************************************************************************)
EXTENDS Integers, Sequences, FiniteSets

CONSTANTS
  Installations,
  Reports, NoDraft,  (* what can stand in the editors, and nothing saved     *)
  Manual,            (* receipt ids of the rows the administrator creates    *)
  Handlers,          (* invocations that can run at the same time            *)
  SubmissionsPerHour, MaxSubmissionsPerHour,
  MaximumStored,     (* maximumStoredSubmissions                             *)
  MaximumPerInstallation,
  MaxAttempts,       (* bound: presses of Submit                             *)
  MaxFaults          (* bound: duplicated requests, evictions, failures and  *)
                     (* rows of the administrator                            *)

VARIABLES
  rows,       (* feedback_submissions: the attempt that made a row is its id *)
  recent,     (* attempts whose row is less than an hour old                 *)
  consumed,   (* consumed_authorizations                                     *)
  enabled,    (* per installation: submitButton, submissionState # submitting *)
  draft,      (* per installation: the report saved in the settings          *)
  attempt,    (* per installation: pendingDraft.clientSubmissionId           *)
  thread,     (* per installation: what the submission thread does           *)
  posted,     (* per installation: outcomes on their way to the form         *)
  sent,       (* every attempt made, with its installation and its report    *)
  thanked,    (* history: attempts a form has given thanks for               *)
  requests,   (* attempts whose request is on its way                        *)
  replies,    (* responses on their way                                      *)
  pc,         (* per handler: what it does next                              *)
  serving,    (* per handler: the attempt it serves                          *)
  unread,     (* per handler: capacity queries not answered yet              *)
  stored,     (* history: attempts ever stored                               *)
  faults

client  == <<enabled, draft, attempt, thread, posted, sent, thanked>>
handler == <<pc, serving, unread>>
table   == <<rows, recent, consumed>>
vars    == <<table, client, requests, replies, handler, stored, faults>>

\* At least one invocation runs, and only so many do at once.
IntakeAssumption ==
  /\ IsFiniteSet(Handlers) /\ Handlers # {} /\ IsFiniteSet(Manual)
  /\ NoDraft \notin Reports /\ Manual \cap 1..MaxAttempts = {}
  /\ {SubmissionsPerHour, MaxSubmissionsPerHour, MaximumStored, MaximumPerInstallation,
      MaxAttempts, MaxFaults} \subseteq Nat

NoAttempt == 0
Attempts  == 1..MaxAttempts

InstallationOf(a) == (CHOOSE s \in sent : s.attempt = a).installation
ReportOf(a)       == (CHOOSE s \in sent : s.attempt = a).report

\* The rows that carry the installation_hash of c; those of the administrator carry
\* 'manual'.
RowsOf(c) == {a \in rows \ Manual : InstallationOf(a) = c}

Fault == faults < MaxFaults /\ faults' = faults + 1

-----------------------------------------------------------------------------
(* The feedback form. *)

\* Submit or Preview is pressed and the text or the screenshot is no good: whatever
\* the form was waiting for, Submit is enabled again.
Refuse(c) ==
  /\ enabled' = [enabled EXCEPT ![c] = TRUE]
  /\ UNCHANGED <<table, draft, attempt, thread, posted, sent, thanked,
                 requests, replies, handler, stored, faults>>

\* submit: a fresh identifier, the draft saved, and the thread started.  The editors
\* stay enabled whatever the form waits for, so any report may stand in them.  While
\* a thread runs nothing happens.
Submit(c, r) ==
  LET a == Cardinality(sent) + 1 IN
  /\ enabled[c] /\ thread[c] = "stopped" /\ a \in Attempts
  /\ attempt' = [attempt EXCEPT ![c] = a]
  /\ sent' = sent \cup {[attempt |-> a, installation |-> c, report |-> r]}
  /\ draft' = [draft EXCEPT ![c] = r]
  /\ enabled' = [enabled EXCEPT ![c] = FALSE]
  /\ thread' = [thread EXCEPT ![c] = "authorizing"]
  /\ UNCHANGED <<table, posted, thanked, requests, replies, handler, stored,
                 faults>>

\* callAsync, the last thing the thread does.
Post(c, outcome) ==
  /\ posted' = [posted EXCEPT ![c] = Append(@, [attempt |-> attempt[c], outcome |-> outcome])]
  /\ thread' = [thread EXCEPT ![c] = "stopped"]

\* The authorization arrives and the submission goes out, or the report is "Queued
\* locally", which to the form is one more failure.
Authorize(c) ==
  /\ thread[c] = "authorizing"
  /\ \/ /\ requests' = requests \cup {attempt[c]}
        /\ thread' = [thread EXCEPT ![c] = "waiting"]
        /\ UNCHANGED posted
     \/ Post(c, "failed") /\ UNCHANGED requests
  /\ UNCHANGED <<table, enabled, draft, attempt, sent, thanked, replies, handler,
                 stored, faults>>

\* Mutation: any answer is a success.
Answered(status) == TRUE

Succeeded(status) == status \in {200, 201}

\* Nobody reads a response any more when its connection is closed.
Disconnect(c) == replies' = {r \in replies : r.attempt # attempt[c]}

\* The thread reads the response on the connection of its own request, or gets none.
Answer(c) ==
  /\ thread[c] = "waiting"
  /\ \/ \E r \in replies :
          /\ r.attempt = attempt[c]
          /\ Post(c, IF Succeeded(r.status) THEN "succeeded" ELSE "failed")
     \/ Post(c, "failed")
  /\ Disconnect(c)
  /\ UNCHANGED <<table, enabled, draft, attempt, sent, thanked, requests, handler,
                 stored, faults>>

\* The callback on the message thread.  It asks only whether the form is still there:
\* a success clears the saved draft (and the editors), whatever that is by now.
Inform(c) ==
  /\ posted[c] # <<>>
  /\ posted' = [posted EXCEPT ![c] = Tail(@)]
  /\ LET news == Head(posted[c]) IN
       /\ enabled' = [enabled EXCEPT ![c] = TRUE]
       /\ IF news.outcome = "succeeded"
          THEN /\ draft' = [draft EXCEPT ![c] = NoDraft]
               /\ thanked' = thanked \cup {news.attempt}
          ELSE UNCHANGED <<draft, thanked>>
  /\ UNCHANGED <<table, attempt, thread, sent, requests, replies, handler, stored,
                 faults>>

\* The form goes away with its thread, and what was posted finds no form; the next
\* one restores the draft.
Leave(c) ==
  /\ enabled' = [enabled EXCEPT ![c] = TRUE]
  /\ thread' = [thread EXCEPT ![c] = "stopped"]
  /\ posted' = [posted EXCEPT ![c] = <<>>]
  /\ Disconnect(c)
  /\ UNCHANGED <<table, draft, attempt, sent, thanked, requests, handler, stored, faults>>

-----------------------------------------------------------------------------
(* createSubmission. *)

\* The invocation ends.
Forget(h) ==
  /\ pc' = [pc EXCEPT ![h] = "idle"]
  /\ serving' = [serving EXCEPT ![h] = NoAttempt]

\* The response goes to the thread that waits for it.
Reply(h, status, receipt) ==
  /\ replies' = replies \cup
       {[attempt |-> attempt[c], status |-> status, receipt |-> receipt] :
          c \in {i \in Installations : thread[i] = "waiting" /\ attempt[i] = serving[h]}}
  /\ Forget(h)

Continue(h, label) == pc' = [pc EXCEPT ![h] = label] /\ UNCHANGED <<serving, replies>>

\* The request arrives, once or twice.
Receive(h) ==
  /\ pc[h] = "idle"
  /\ \E a \in requests :
       /\ \/ requests' = requests \ {a} /\ UNCHANGED faults
          \/ Fault /\ UNCHANGED requests
       /\ serving' = [serving EXCEPT ![h] = a]
  /\ pc' = [pc EXCEPT ![h] = "verify"]
  /\ UNCHANGED <<table, client, replies, unread, stored>>

\* An authorization is good for five minutes.
VerifyToken(h) ==
  /\ pc[h] = "verify"
  /\ Reply(h, 401, NoAttempt) \/ Continue(h, "rate")
  /\ UNCHANGED <<table, client, requests, unread, stored, faults>>

\* Mutation: the comparison is off by one.
AboveLimit(count, limit) == count > limit

AtLimit(count, limit) == count >= limit

CheckRate(h) ==
  /\ pc[h] = "rate"
  /\ IF AtLimit(Cardinality(recent \cap RowsOf(InstallationOf(serving[h]))), SubmissionsPerHour)
     THEN Reply(h, 429, NoAttempt)
     ELSE Continue(h, "globalRate")
  /\ UNCHANGED <<table, client, requests, unread, stored, faults>>

CheckGlobalRate(h) ==
  /\ pc[h] = "globalRate"
  /\ IF AtLimit(Cardinality(recent), MaxSubmissionsPerHour)
     THEN Reply(h, 429, NoAttempt) /\ UNCHANGED unread
     ELSE /\ Continue(h, "capacity")
          /\ unread' = [unread EXCEPT ![h] = {"storage", "installation"}]
  /\ UNCHANGED <<table, client, requests, stored, faults>>

AtCapacity(h, query) ==
  \/ query = "storage" /\ AtLimit(Cardinality(rows), MaximumStored)
  \/ query = "installation"
     /\ AtLimit(Cardinality(RowsOf(InstallationOf(serving[h]))), MaximumPerInstallation)

\* checkStorageCapacity: two queries at once, answered in either order.
CheckCapacity(h) ==
  /\ pc[h] = "capacity"
  /\ \E query \in unread[h] :
       /\ IF AtCapacity(h, query)
          THEN /\ Reply(h, IF query = "storage" THEN 503 ELSE 429, NoAttempt)
               /\ unread' = [unread EXCEPT ![h] = {}]
          ELSE /\ unread' = [unread EXCEPT ![h] = @ \ {query}]
               /\ Continue(h, IF unread[h] = {query} THEN "insert" ELSE "capacity")
  /\ UNCHANGED <<table, client, requests, stored, faults>>

\* Mutation: only the identifier is unique.
KnownIdentifier(a) == a \in rows

\* A primary key or the unique index refuses the batch.
Refused(a) == a \in consumed \/ a \in rows

\* The batch: the authorization and the row, or neither.
InsertRow(a) ==
  /\ consumed' = consumed \cup {a}
  /\ rows' = rows \cup {a} /\ recent' = recent \cup {a}
  /\ stored' = stored \cup {a}

Insert(h) ==
  /\ pc[h] = "insert"
  /\ \/ /\ Refused(serving[h])
        /\ Continue(h, "lookup")
        /\ UNCHANGED <<table, stored>>
     \/ /\ ~Refused(serving[h])
        /\ InsertRow(serving[h])
        /\ Reply(h, 201, serving[h])
  /\ UNCHANGED <<client, requests, unread, faults>>

\* Any statement fails: an exception becomes 500.  A batch may have been committed.
Fails(h) ==
  /\ pc[h] \notin {"idle", "verify"}
  /\ Fault
  /\ \/ pc[h] = "insert" /\ ~Refused(serving[h]) /\ InsertRow(serving[h])
     \/ UNCHANGED <<table, stored>>
  /\ Reply(h, 500, NoAttempt)
  /\ unread' = [unread EXCEPT ![h] = {}]
  /\ UNCHANGED <<client, requests>>

\* Mutation: the first receipt of the installation, whatever the identifier.
SameInstallation(a) == RowsOf(InstallationOf(a))

SameIdentifier(a) == rows \cap {a}

\* The receipt of the row that was there first, unless it has been deleted since.
Lookup(h) ==
  /\ pc[h] = "lookup"
  /\ LET existing == SameIdentifier(serving[h]) IN
       \/ \E receipt \in existing : Reply(h, 200, receipt)
       \/ existing = {} /\ Reply(h, 409, NoAttempt)
  /\ UNCHANGED <<table, client, requests, unread, stored, faults>>

\* The invocation is evicted without an answer.
Kill(h) ==
  /\ pc[h] # "idle"
  /\ Fault
  /\ Forget(h)
  /\ unread' = [unread EXCEPT ![h] = {}]
  /\ UNCHANGED <<table, client, requests, replies, stored>>

-----------------------------------------------------------------------------
\* An hour has passed since received_at, the time the invocation that made the row
\* began.
Age(a) ==
  /\ a \in recent
  /\ recent' = recent \ {a}
  /\ UNCHANGED <<rows, consumed, client, requests, replies, handler, stored, faults>>

\* createSubmission of admin.ts: a row without any check of rate or capacity.
Create(m) ==
  /\ m \in Manual \ stored /\ Fault
  /\ rows' = rows \cup {m} /\ recent' = recent \cup {m} /\ stored' = stored \cup {m}
  /\ UNCHANGED <<consumed, client, requests, replies, handler>>

\* The administrator or retention deletes a row.
Delete(a) ==
  /\ a \in rows
  /\ rows' = rows \ {a} /\ recent' = recent \ {a}
  /\ UNCHANGED <<consumed, client, requests, replies, handler, stored, faults>>

Init ==
  /\ rows = {} /\ recent = {} /\ consumed = {}
  /\ enabled = [c \in Installations |-> TRUE]
  /\ draft = [c \in Installations |-> NoDraft]
  /\ thread = [c \in Installations |-> "stopped"]
  /\ posted = [c \in Installations |-> <<>>]
  /\ attempt = [c \in Installations |-> NoAttempt]
  /\ sent = {} /\ thanked = {} /\ requests = {} /\ replies = {}
  /\ pc = [h \in Handlers |-> "idle"]
  /\ serving = [h \in Handlers |-> NoAttempt]
  /\ unread = [h \in Handlers |-> {}]
  /\ stored = {} /\ faults = 0

Next ==
  \/ \E c \in Installations :
       \/ \E r \in Reports : Submit(c, r)
       \/ Refuse(c) \/ Authorize(c) \/ Answer(c) \/ Inform(c) \/ Leave(c)
  \/ \E h \in Handlers :
       \/ Receive(h) \/ VerifyToken(h) \/ CheckRate(h) \/ CheckGlobalRate(h)
       \/ CheckCapacity(h) \/ Insert(h) \/ Fails(h) \/ Lookup(h) \/ Kill(h)
  \/ \E a \in Attempts \cup Manual : Age(a) \/ Delete(a)
  \/ \E m \in Manual : Create(m)

Spec == Init /\ [][Next]_vars

-----------------------------------------------------------------------------
Statuses == {200, 201, 401, 409, 429, 500, 503}

Outcomes == {"succeeded", "failed"}

TypeOK ==
  /\ recent \subseteq rows /\ rows \subseteq stored /\ stored \subseteq Attempts \cup Manual
  /\ stored \ Manual \subseteq consumed /\ consumed \subseteq Attempts
  /\ enabled \in [Installations -> BOOLEAN]
  /\ draft \in [Installations -> Reports \cup {NoDraft}]
  /\ attempt \in [Installations -> Attempts \cup {NoAttempt}]
  /\ thread \in [Installations -> {"stopped", "authorizing", "waiting"}]
  /\ posted \in [Installations -> Seq([attempt : Attempts, outcome : Outcomes])]
  /\ sent \subseteq [attempt : Attempts, installation : Installations, report : Reports]
  /\ thanked \subseteq Attempts
  /\ requests \subseteq Attempts
  /\ replies \subseteq [attempt : Attempts, status : Statuses,
                        receipt : Attempts \cup {NoAttempt}]
  /\ pc \in [Handlers -> {"idle", "verify", "rate", "globalRate", "capacity", "insert", "lookup"}]
  /\ serving \in [Handlers -> Attempts \cup {NoAttempt}]
  /\ unread \in [Handlers -> SUBSET {"storage", "installation"}]
  /\ faults \in 0..MaxFaults

\* "Every accepted submission is stored before the client receives its receipt": what a
\* form gives thanks for was stored, and the draft of an attempt leaves the settings
\* of no form that has not given thanks.  It need not be for the same attempt: see
\* DraftPreserved.
SuccessMeansStored ==
  /\ thanked \subseteq stored
  /\ \A c \in Installations :
       attempt[c] # NoAttempt =>
         \/ draft[c] = ReportOf(attempt[c])
         \/ \E a \in thanked : InstallationOf(a) = c

\* "A non-success response from the submission route is reported as failed and also
\* preserves the draft", as a failed authorization does: the draft of the attempt the
\* form is about to report on, the last one it made, is in the settings, unless the
\* same report has been stored all the same.  An earlier success that is still posted
\* when that attempt begins takes the draft with it.
DraftPreserved ==
  \A c \in Installations :
    posted[c] # <<>> =>
      LET news == Head(posted[c]) IN
      news.attempt = attempt[c] /\ news.outcome # "succeeded" =>
        \/ draft[c] = ReportOf(news.attempt)
        \/ \E a \in stored \ Manual : ReportOf(a) = ReportOf(news.attempt)

\* The same request delivered twice gets the receipt of its own row, never that of
\* another report.
OwnReceipt == \A r \in replies : Succeeded(r.status) => r.receipt = r.attempt

\* "consumes that authorization once": what was deleted is not brought back by a
\* request that was delivered twice.
DeletedStaysDeleted == [][\A a \in stored \ rows : a \notin rows']_vars

\* The limits are checked before the insert and not with it: of the reports that came
\* in from clients, the excess is what the other invocations had in hand, never more.
\* What the administrator creates is not checked and comes on top.
OvershootBounded ==
  LET excess == Cardinality(Handlers) - 1 IN
  /\ Cardinality(rows \ Manual) <= MaximumStored + excess
  /\ Cardinality(recent \ Manual) <= MaxSubmissionsPerHour + excess
  /\ \A c \in Installations :
       /\ Cardinality(RowsOf(c)) <= MaximumPerInstallation + excess
       /\ Cardinality(recent \cap RowsOf(c)) <= SubmissionsPerHour + excess
=============================================================================
