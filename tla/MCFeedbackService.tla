------------------------- MODULE MCFeedbackService -------------------------
(***************************************************************************)
(* The feedback service, for TLC: the mailing of reports under every       *)
(* fault, their intake, and the administration of the inbox.  Each is a    *)
(* state machine of its own; a behaviour exercises one of them.            *)
(***************************************************************************)
EXTENDS MCNotificationDispatch

CONSTANTS
  Drafts, NoDraft, Manual,
  Installations, Handlers, SubmissionsPerHour, MaxSubmissionsPerHour, MaximumStored,
  MaximumPerInstallation, MaxAttempts,
  Receipts, ReviewStatuses, Closed, NoReport, MaxRequests,
  ServiceFaults

VARIABLES
  part,
  rows, recent, consumed, enabled, draft, attempt, thread, posted, thanked, sent,
  requests, replies, serving, unread, stored, intakePc, intakeFaults,
  inbox, copies, receipts, todo, cutoff, deleted, answered, made, begun, adminPc, adminFaults

dispatch == <<queue, claim, stale, sentCount, lastAttempt, today, pc, day, pending, number,
              token, batch, outcome, nextClaim, faults, accepted, withdrawn, outlived, emails>>
intake == <<rows, recent, consumed, enabled, draft, attempt, thread, posted, thanked, sent,
            requests, replies, serving, unread, stored, intakePc, intakeFaults>>
administration == <<inbox, copies, receipts, todo, cutoff, deleted, answered, made, begun,
                    adminPc, adminFaults>>

Intake == INSTANCE FeedbackIntake WITH
  pc <- intakePc, faults <- intakeFaults, Reports <- Drafts, MaxFaults <- ServiceFaults

Administration == INSTANCE FeedbackAdministration WITH
  queue <- copies, expired <- cutoff, pc <- adminPc, faults <- adminFaults,
  Reports <- Receipts, MaxFaults <- ServiceFaults

ASSUME ServiceAssumption == Intake!IntakeAssumption /\ Administration!AdministrationAssumption

ServiceInit ==
  /\ part \in {"dispatch", "intake", "administration"}
  /\ Init /\ Intake!Init /\ Administration!Init

\* One of the reports may be withdrawn.
MailingNext == Next /\ withdrawn' \subseteq OneReport

ServiceNext ==
  /\ UNCHANGED part
  /\ \/ /\ part = "dispatch" /\ MailingNext
        /\ UNCHANGED intake /\ UNCHANGED administration
     \/ /\ part = "intake" /\ Intake!Next
        /\ UNCHANGED dispatch /\ UNCHANGED administration
     \/ /\ part = "administration" /\ Administration!Next
        /\ UNCHANGED dispatch /\ UNCHANGED intake

ServiceSpec == ServiceInit /\ [][ServiceNext]_<<part, dispatch, intake, administration>>

SuccessMeansStored == Intake!SuccessMeansStored
OwnReceipt == Intake!OwnReceipt
OvershootBounded == Intake!OvershootBounded
DeletedStaysDeleted == Intake!DeletedStaysDeleted
DeletionComplete == Administration!DeletionComplete
=============================================================================
