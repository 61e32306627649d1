------------------------ MODULE NotificationDispatch ------------------------
(***************************************************************************)
(* The email side of the feedback service: sendPendingFeedbackBatch of     *)
(* services/feedback-intake/src/notifications.ts, run by the three daily   *)
(* schedules and, concurrently, by the administrator's manual dispatch.    *)
(*                                                                         *)
(* A dispatch is a chain of separate database statements and one call to   *)
(* the mail provider.  Each statement is atomic; between two of them other *)
(* dispatches, the intake, the retention job and the administrator run,    *)
(* and the invocation itself may be killed (a killed invocation and a      *)
(* rejected statement look alike: nothing after that point happens).       *)
(*                                                                         *)
(* Time is abstracted to the two facts the code reads from it: the UTC day *)
(* and whether a claim is older than staleClaimSeconds.                    *)
(***************************************************************************)
EXTENDS Integers, FiniteSets

CONSTANTS
  Reports,        (* receipts, numbered in (received_at, receipt_id) order     *)
  Dispatchers,    (* invocations that can be in progress at the same time      *)
  DailyLimit,     (* FEEDBACK_MAX_DAILY_EMAILS                                 *)
  MaxBatch,       (* maximumFeedbackPerEmail                                   *)
  LastDay,        (* bound: days are 1..LastDay                                *)
  MaxFaults       (* bound: kills, failed or ambiguous sends, lost statements  *)

ASSUME DispatchAssumption ==
  /\ Reports \subseteq Nat /\ IsFiniteSet(Reports)
  /\ IsFiniteSet(Dispatchers)
  /\ DailyLimit \in Nat \ {0}
  /\ MaxBatch \in Nat \ {0}
  /\ LastDay \in Nat \ {0}
  /\ MaxFaults \in Nat

VARIABLES
  queue,      (* receipt ids with a row in feedback_email_queue               *)
  claim,      (* its claim_id column, NoClaim for NULL                        *)
  stale,      (* claim ids whose claimed_at is older than staleClaimSeconds   *)
  sentCount,  (* feedback_notification_days.sent_count, per day               *)
  lastAttempt,(* outcome of the newest 'notification' row of maintenance_runs *)
  today,      (* the current UTC day                                          *)
  pc,         (* per dispatcher: the statement it executes next               *)
  day,        (* per dispatcher: notificationDay                              *)
  pending,    (* per dispatcher: pendingCount                                 *)
  number,     (* per dispatcher: reservation.sent_count                       *)
  token,      (* per dispatcher: claimId                                      *)
  batch,      (* per dispatcher: reports, the rows its claim returned         *)
  outcome,    (* per dispatcher: the outcome it is about to record            *)
  nextClaim,  (* source of fresh claim ids (crypto.randomUUID)                *)
  faults,     (* faults so far, bounded by MaxFaults                          *)
  accepted,   (* history: every receipt ever queued                           *)
  withdrawn,  (* history: receipts whose queue copy was purged                *)
  outlived,   (* history: claims that grew stale under a running dispatch     *)
  emails      (* history: every email the provider delivered                  *)

table   == <<queue, claim, stale>>
locals  == <<day, pending, number, token, batch, outcome>>
history == <<accepted, withdrawn, outlived>>
vars    == <<queue, claim, stale, sentCount, lastAttempt, today, pc, day, pending,
             number, token, batch, outcome, nextClaim, faults, accepted, withdrawn,
             outlived, emails>>

NoClaim == 0
Days    == 1..LastDay

Outcomes == {"sent", "nothing_pending", "not_configured", "daily_limit_reached",
             "send_failed"}

\* Mutation: the claim_id IS NULL filter is missing.
AnyQueued == queue

Unclaimed == {r \in queue : claim[r] = NoClaim}
Rows(c)   == {r \in queue : claim[r] = c}

\* Mutation: the whole backlog in one email.
Undivided(a, b) == a

CeilDiv(a, b) == (a + b - 1) \div b

Least(a, b) == IF a < b THEN a ELSE b

\* The rows "ORDER BY received_at ASC, receipt_id ASC LIMIT k" selects.
Oldest(S, k) == {r \in S : Cardinality({q \in S : q < r}) < k}

\* Mutation: the backlog is divided by the slots of the whole day.
BatchSizeOfDay(d) == Least(CeilDiv(pending[d], DailyLimit), MaxBatch)

\* min(ceil(pending / remaining slots), 100), from the count and the slot d holds.
BatchSize(d) == Least(CeilDiv(pending[d], DailyLimit - number[d] + 1), MaxBatch)

\* Mutation: one slot too many.
SlotFreeAtLimit(n) == sentCount[n] <= DailyLimit

SlotFree(n) == sentCount[n] < DailyLimit

\* Mutation: a failed dispatch clears the day's counter.
Cleared(count) == 0

\* MAX(sent_count - 1, 0)
Released(count) == IF count > 0 THEN count - 1 ELSE 0

\* Mutation: claims are never given back.
Kept(r) == claim[r]

\* The claim_id of the row r once stale claims have been given back.
Freed(r) == IF claim[r] \in stale THEN NoClaim ELSE claim[r]

Goto(d, label) == pc' = [pc EXCEPT ![d] = label]

Finish(d, o) == Goto(d, "record") /\ outcome' = [outcome EXCEPT ![d] = o]

Fault == faults < MaxFaults /\ faults' = faults + 1

-----------------------------------------------------------------------------
\* The intake stores a report and its queue copy in one batch.
Accept(r) ==
  /\ r \notin accepted
  /\ accepted' = accepted \cup {r}
  /\ queue' = queue \cup {r}
  /\ UNCHANGED <<claim, stale, sentCount, lastAttempt, today, pc, locals, nextClaim, faults,
                 withdrawn, outlived, emails>>

\* Retention (30 days, or an orphaned copy) and manual deletion drop the copy,
\* claimed or not.
Withdraw(r) ==
  /\ r \in queue
  /\ queue' = queue \ {r}
  /\ claim' = [claim EXCEPT ![r] = NoClaim]
  /\ withdrawn' = withdrawn \cup {r}
  /\ UNCHANGED <<stale, sentCount, lastAttempt, today, pc, locals, nextClaim, faults,
                 accepted, outlived, emails>>

NextDay ==
  /\ today < LastDay
  /\ today' = today + 1
  /\ UNCHANGED <<table, sentCount, lastAttempt, pc, locals, nextClaim, faults, history, emails>>

HolderOf(c) == {d \in Dispatchers : pc[d] # "idle" /\ token[d] = c}

\* Half an hour passes for the claim c.  That a dispatch is still at work on it is a
\* fault: the schedules cut an invocation off sooner, the container does not.
Age(c) ==
  /\ c \notin stale
  /\ Rows(c) # {}
  /\ \/ HolderOf(c) = {} /\ UNCHANGED <<faults, outlived>>
     \/ HolderOf(c) # {} /\ Fault /\ outlived' = outlived \cup {c}
  /\ stale' = stale \cup {c}
  /\ UNCHANGED <<queue, claim, sentCount, lastAttempt, today, pc, locals, nextClaim, accepted,
                 withdrawn, emails>>

-----------------------------------------------------------------------------
\* The configuration check of a deployment that cannot send.
Unconfigured(d) ==
  /\ pc[d] = "idle"
  /\ Fault
  /\ Finish(d, "not_configured")
  /\ UNCHANGED <<table, sentCount, lastAttempt, today, day, pending, number, token, batch,
                 nextClaim, history, emails>>

\* Take the clock, then give back every claim older than staleClaimSeconds.
Begin(d) ==
  /\ pc[d] = "idle"
  /\ Goto(d, "count")
  /\ day' = [day EXCEPT ![d] = today]
  /\ claim' = [r \in Reports |-> Freed(r)]
  /\ UNCHANGED <<queue, stale, sentCount, lastAttempt, today, pending, number, token, batch,
                 outcome, nextClaim, faults, history, emails>>

\* SELECT COUNT(*) of the unclaimed rows.
Count(d) ==
  /\ pc[d] = "count"
  /\ pending' = [pending EXCEPT ![d] = Cardinality(Unclaimed)]
  /\ IF Unclaimed = {}
     THEN Finish(d, "nothing_pending")
     ELSE Goto(d, "reserve") /\ UNCHANGED outcome
  /\ UNCHANGED <<table, sentCount, lastAttempt, today, day, number, token, batch, nextClaim,
                 faults, history, emails>>

\* The conditional upsert that takes one of the day's slots.
Reserve(d) ==
  /\ pc[d] = "reserve"
  /\ \/ /\ SlotFree(day[d])
        /\ sentCount' = [sentCount EXCEPT ![day[d]] = @ + 1]
        /\ number' = [number EXCEPT ![d] = sentCount[day[d]] + 1]
        /\ Goto(d, "claim")
        /\ UNCHANGED outcome
     \/ /\ ~SlotFree(day[d])
        /\ Finish(d, "daily_limit_reached")
        /\ UNCHANGED <<sentCount, number>>
  /\ UNCHANGED <<table, lastAttempt, today, day, pending, token, batch, nextClaim, faults,
                 history, emails>>

\* UPDATE ... RETURNING: mark the oldest unclaimed rows with a fresh claim id.
\* Another dispatch may have taken the backlog since the count.
Claim(d) ==
  LET taken == Oldest(Unclaimed, BatchSize(d)) IN
  /\ pc[d] = "claim"
  /\ \/ /\ taken # {}
        /\ claim' = [r \in Reports |-> IF r \in taken THEN nextClaim ELSE claim[r]]
        /\ token' = [token EXCEPT ![d] = nextClaim]
        /\ batch' = [batch EXCEPT ![d] = taken]
        /\ nextClaim' = nextClaim + 1
        /\ Goto(d, "send")
        /\ UNCHANGED outcome
     \/ /\ taken = {}
        /\ Goto(d, "releaseSlot")
        /\ outcome' = [outcome EXCEPT ![d] = "nothing_pending"]
        /\ UNCHANGED <<claim, token, batch, nextClaim>>
  /\ UNCHANGED <<queue, stale, sentCount, lastAttempt, today, day, pending, number, faults,
                 history, emails>>

\* An email as the recipient has it; status follows what the dispatcher knows.
EmailOf(d, status) == [claim |-> token[d], day |-> day[d], number |-> number[d],
                       reports |-> batch[d], status |-> status]

\* The provider accepts the message.
Send(d) ==
  /\ pc[d] = "send"
  /\ emails' = emails \cup {EmailOf(d, "sent")}
  /\ Goto(d, "delete")
  /\ UNCHANGED <<table, sentCount, lastAttempt, today, locals, nextClaim, faults, history>>

\* Mutation: the catch handler falls through to the deletion.
SendFailsThenDeletes(d) ==
  /\ pc[d] = "send"
  /\ Fault
  /\ emails' \in {emails, emails \cup {EmailOf(d, "unacknowledged")}}
  /\ Goto(d, "delete")
  /\ UNCHANGED <<table, sentCount, lastAttempt, today, locals, nextClaim, history>>

\* email.send throws.  A refusal delivers nothing; a timeout may hide a delivery.
SendFails(d) ==
  /\ pc[d] = "send"
  /\ Fault
  /\ emails' \in {emails, emails \cup {EmailOf(d, "unacknowledged")}}
  /\ Goto(d, "releaseClaim")
  /\ outcome' = [outcome EXCEPT ![d] = "send_failed"]
  /\ UNCHANGED <<table, sentCount, lastAttempt, today, day, pending, number, token, batch,
                 nextClaim, history>>

\* releaseClaim: the catch handler gives the rows back; its own failure is logged
\* and swallowed.
ReleaseClaim(d) ==
  /\ pc[d] = "releaseClaim"
  /\ \/ /\ claim' = [r \in Reports |-> IF claim[r] = token[d] THEN NoClaim ELSE claim[r]]
        /\ UNCHANGED faults
     \/ Fault /\ UNCHANGED claim
  /\ Goto(d, "releaseSlot")
  /\ UNCHANGED <<queue, stale, sentCount, lastAttempt, today, locals, nextClaim, history, emails>>

\* releaseReservation; its failure is swallowed too.
ReleaseSlot(d) ==
  /\ pc[d] = "releaseSlot"
  /\ \/ /\ sentCount' = [sentCount EXCEPT ![day[d]] = Released(@)]
        /\ UNCHANGED faults
     \/ Fault /\ UNCHANGED sentCount
  /\ Goto(d, "record")
  /\ UNCHANGED <<table, lastAttempt, today, locals, nextClaim, history, emails>>

\* The email e once the rows of the claim c are deleted.
Settled(e, c) == IF e.claim = c /\ e.status = "sent" THEN [e EXCEPT !.status = "settled"]
                                                     ELSE e

\* DELETE FROM feedback_email_queue WHERE claim_id = ?
DeleteSent(d) ==
  /\ pc[d] = "delete"
  /\ queue' = queue \ Rows(token[d])
  /\ claim' = [r \in Reports |-> IF claim[r] = token[d] THEN NoClaim ELSE claim[r]]
  /\ emails' = {Settled(e, token[d]) : e \in emails}
  /\ Finish(d, "sent")
  /\ UNCHANGED <<stale, sentCount, lastAttempt, today, day, pending, number, token, batch,
                 nextClaim, faults, history>>

\* The invocation's local values are gone once it has ended.
Forget(d) ==
  /\ Goto(d, "idle")
  /\ day' = [day EXCEPT ![d] = 1]
  /\ pending' = [pending EXCEPT ![d] = 0]
  /\ number' = [number EXCEPT ![d] = 0]
  /\ token' = [token EXCEPT ![d] = NoClaim]
  /\ batch' = [batch EXCEPT ![d] = {}]
  /\ outcome' = [outcome EXCEPT ![d] = "none"]

\* recordDispatchAttempt, whose failure changes nothing for the caller.
Record(d) ==
  /\ pc[d] = "record"
  /\ \/ lastAttempt' = outcome[d] /\ UNCHANGED faults
     \/ Fault /\ UNCHANGED lastAttempt
  /\ Forget(d)
  /\ UNCHANGED <<table, sentCount, today, nextClaim, history, emails>>

\* The invocation is evicted, or one of its statements rejects and the exception
\* leaves sendPendingFeedbackBatch.  Killed during the send, the message may be out.
Kill(d) ==
  /\ pc[d] # "idle"
  /\ Fault
  /\ \/ UNCHANGED emails
     \/ /\ pc[d] = "send"
        /\ emails' = emails \cup {EmailOf(d, "unacknowledged")}
  /\ Forget(d)
  /\ UNCHANGED <<table, sentCount, lastAttempt, today, nextClaim, history>>

-----------------------------------------------------------------------------
Init ==
  /\ queue = {}
  /\ claim = [r \in Reports |-> NoClaim]
  /\ stale = {}
  /\ sentCount = [n \in Days |-> 0]
  /\ lastAttempt = "none"
  /\ today = 1
  /\ pc = [d \in Dispatchers |-> "idle"]
  /\ day = [d \in Dispatchers |-> 1]
  /\ pending = [d \in Dispatchers |-> 0]
  /\ number = [d \in Dispatchers |-> 0]
  /\ token = [d \in Dispatchers |-> NoClaim]
  /\ batch = [d \in Dispatchers |-> {}]
  /\ outcome = [d \in Dispatchers |-> "none"]
  /\ nextClaim = 1
  /\ faults = 0
  /\ accepted = {} /\ withdrawn = {} /\ outlived = {} /\ emails = {}

\* One statement of the dispatch d as the code runs it when nothing goes wrong.
Step(d) ==
  \/ Begin(d) \/ Count(d) \/ Reserve(d) \/ Claim(d) \/ Send(d) \/ DeleteSent(d)
  \/ ReleaseClaim(d) \/ ReleaseSlot(d) \/ Record(d)

Next ==
  \/ \E r \in Reports : Accept(r) \/ Withdraw(r)
  \/ NextDay
  \/ \E c \in 1..(nextClaim - 1) : Age(c)
  \/ \E d \in Dispatchers : Step(d) \/ Unconfigured(d) \/ SendFails(d) \/ Kill(d)

Spec == Init /\ [][Next]_vars

\* The schedules fire for ever and a started statement is answered; days pass and
\* abandoned claims grow old.
Fairness ==
  /\ \A d \in Dispatchers : WF_vars(Step(d))
  /\ WF_vars(NextDay)
  /\ WF_vars(\E c \in 1..(nextClaim - 1) : HolderOf(c) = {} /\ Age(c))

FairSpec == Spec /\ Fairness

-----------------------------------------------------------------------------
Labels == {"idle", "count", "reserve", "claim", "send", "releaseClaim", "releaseSlot",
           "delete", "record"}

Email == [claim : Nat, day : Days, number : Nat, reports : SUBSET Reports,
          status : {"sent", "unacknowledged", "settled"}]

TypeOK ==
  /\ queue \subseteq Reports
  /\ claim \in [Reports -> Nat]
  /\ stale \subseteq Nat
  /\ sentCount \in [Days -> 0..DailyLimit]
  /\ lastAttempt \in Outcomes \cup {"none"}
  /\ today \in Days
  /\ pc \in [Dispatchers -> Labels]
  /\ day \in [Dispatchers -> Days]
  /\ pending \in [Dispatchers -> Nat]
  /\ number \in [Dispatchers -> 0..DailyLimit]
  /\ token \in [Dispatchers -> Nat]
  /\ batch \in [Dispatchers -> SUBSET Reports]
  /\ outcome \in [Dispatchers -> Outcomes \cup {"none"}]
  /\ nextClaim \in Nat \ {0}
  /\ faults \in 0..MaxFaults
  /\ accepted \subseteq Reports
  /\ withdrawn \subseteq Reports
  /\ outlived \subseteq Nat
  /\ emails \subseteq Email

\* The emails of the day n that the provider is known to have accepted.
Acknowledged(n) == {e \in emails : e.day = n /\ e.status # "unacknowledged"}

\* Whatever dispatches overlap, fail or are killed, a day never has more
\* acknowledged emails than FEEDBACK_MAX_DAILY_EMAILS (the slot is reserved before
\* the claim, and only the dispatch that holds it gives it back).
WithinDailyLimit == \A n \in Days : Cardinality(Acknowledged(n)) <= DailyLimit

\* A queued report is never lost: it stays in the table until an email that contains
\* it has gone out, or retention or the administrator removed the copy.
UnemailedReportsRetained ==
  \A r \in accepted : \/ r \in queue \cup withdrawn
                       \/ \E e \in emails : r \in e.reports

\* Once a dispatch that did not outlive its claim has deleted the rows it mailed, no
\* claim made after its own puts one of its reports into another email.
SettledReportsNotMailedAgain ==
  \A e, f \in emails :
    e.status = "settled" /\ e.claim \notin outlived /\ e.claim < f.claim
      => e.reports \cap f.reports = {}

\* README: "the Worker sends at most FEEDBACK_MAX_DAILY_EMAILS emails per UTC day".
\* A send that throws gives its slot back even when the message went out.
DeliveredWithinDailyLimit ==
  \A n \in Days : Cardinality({e \in emails : e.day = n}) <= DailyLimit

\* Every queued copy eventually leaves the queue: a failed, killed or overtaken
\* dispatch is always made good by a later one.
QueueDrains == \A r \in Reports : r \in queue ~> r \notin queue

\* The service keeps the promise of the abstract mailbox.
Mailbox == INSTANCE ReportMailbox WITH
             waiting <- queue,
             mailed <- UNION {e.reports : e \in emails}

MailboxSpec == Mailbox!FairSpec
=============================================================================
