------------------------ MODULE FeedbackServiceProofs ------------------------
(***************************************************************************)
(* What is proved of the parts of the feedback service holds in their      *)
(* union, the state machine MCFeedbackService explores: a step of the      *)
(* union is a step of one part and leaves the others alone.                *)
(***************************************************************************)
EXTENDS MCFeedbackService, Sequences, TLAPS

IntakeFacts == INSTANCE FeedbackIntakeProofs WITH
  pc <- intakePc, faults <- intakeFaults, Reports <- Drafts, MaxFaults <- ServiceFaults

\* The intake of reports runs in the union as it does alone.
LEMMA IntakeRuns == ServiceSpec => IntakeFacts!Spec
<1>1. Intake!Init => IntakeFacts!Init
  BY DEF Intake!Init, IntakeFacts!Init, Intake!NoAttempt, IntakeFacts!NoAttempt
<1>2. Intake!Next => IntakeFacts!Next
  <2>1. ASSUME NEW c, NEW r, Intake!Submit(c, r) PROVE IntakeFacts!Submit(c, r)
    BY <2>1, Zenon
       DEF Intake!Submit, Intake!Cardinality, Intake!table, Intake!handler, Intake!Attempts,
           IntakeFacts!Submit, IntakeFacts!Cardinality, IntakeFacts!table,
           IntakeFacts!handler, IntakeFacts!Attempts
  <2>2. ASSUME NEW c, Intake!Refuse(c) \/ Intake!Authorize(c) \/ Intake!Answer(c)
                        \/ Intake!Inform(c) \/ Intake!Leave(c)
        PROVE  IntakeFacts!Refuse(c) \/ IntakeFacts!Authorize(c) \/ IntakeFacts!Answer(c)
                 \/ IntakeFacts!Inform(c) \/ IntakeFacts!Leave(c)
    BY <2>2
       DEF Intake!Refuse, Intake!Authorize, Intake!Answer, Intake!Inform, Intake!Leave,
           Intake!Post, Intake!Disconnect, Intake!Succeeded, Intake!table, Intake!handler,
           IntakeFacts!Refuse, IntakeFacts!Authorize, IntakeFacts!Answer,
           IntakeFacts!Inform, IntakeFacts!Leave, IntakeFacts!Post,
           IntakeFacts!Disconnect, IntakeFacts!Succeeded, IntakeFacts!table,
           IntakeFacts!handler
  <2>3. ASSUME NEW h, Intake!Receive(h) \/ Intake!VerifyToken(h) \/ Intake!Insert(h)
                        \/ Intake!Fails(h) \/ Intake!Lookup(h) \/ Intake!Kill(h)
        PROVE  IntakeFacts!Receive(h) \/ IntakeFacts!VerifyToken(h) \/ IntakeFacts!Insert(h)
                 \/ IntakeFacts!Fails(h) \/ IntakeFacts!Lookup(h) \/ IntakeFacts!Kill(h)
    BY <2>3
       DEF Intake!Receive, Intake!VerifyToken, Intake!Insert, Intake!Fails, Intake!Lookup,
           Intake!Kill, Intake!Fault, Intake!Reply, Intake!Forget, Intake!Continue,
           Intake!Refused, Intake!InsertRow, Intake!SameIdentifier, Intake!NoAttempt,
           Intake!table, Intake!client, IntakeFacts!Receive, IntakeFacts!VerifyToken,
           IntakeFacts!Insert, IntakeFacts!Fails, IntakeFacts!Lookup, IntakeFacts!Kill,
           IntakeFacts!Fault, IntakeFacts!Reply, IntakeFacts!Forget, IntakeFacts!Continue,
           IntakeFacts!Refused, IntakeFacts!InsertRow, IntakeFacts!SameIdentifier,
           IntakeFacts!NoAttempt, IntakeFacts!table, IntakeFacts!client
  <2>4. ASSUME NEW h, Intake!CheckRate(h) PROVE IntakeFacts!CheckRate(h)
    BY <2>4, Zenon
       DEF Intake!CheckRate, Intake!Cardinality, Intake!AtLimit, Intake!RowsOf,
           Intake!InstallationOf, Intake!Reply, Intake!Forget, Intake!Continue,
           Intake!NoAttempt, Intake!table, Intake!client, IntakeFacts!CheckRate,
           IntakeFacts!Cardinality, IntakeFacts!AtLimit, IntakeFacts!RowsOf,
           IntakeFacts!InstallationOf, IntakeFacts!Reply, IntakeFacts!Forget,
           IntakeFacts!Continue, IntakeFacts!NoAttempt, IntakeFacts!table,
           IntakeFacts!client
  <2>5. ASSUME NEW h, Intake!CheckGlobalRate(h) PROVE IntakeFacts!CheckGlobalRate(h)
    BY <2>5, Zenon
       DEF Intake!CheckGlobalRate, Intake!Cardinality, Intake!AtLimit, Intake!Reply,
           Intake!Forget, Intake!Continue, Intake!NoAttempt, Intake!table, Intake!client,
           IntakeFacts!CheckGlobalRate, IntakeFacts!Cardinality, IntakeFacts!AtLimit,
           IntakeFacts!Reply, IntakeFacts!Forget, IntakeFacts!Continue,
           IntakeFacts!NoAttempt, IntakeFacts!table, IntakeFacts!client
  <2>6. ASSUME NEW h, Intake!CheckCapacity(h) PROVE IntakeFacts!CheckCapacity(h)
    BY <2>6, Zenon
       DEF Intake!CheckCapacity, Intake!Cardinality, Intake!AtCapacity, Intake!AtLimit,
           Intake!RowsOf, Intake!InstallationOf, Intake!Reply, Intake!Forget,
           Intake!Continue, Intake!NoAttempt, Intake!table, Intake!client,
           IntakeFacts!CheckCapacity, IntakeFacts!Cardinality, IntakeFacts!AtCapacity,
           IntakeFacts!AtLimit, IntakeFacts!RowsOf, IntakeFacts!InstallationOf,
           IntakeFacts!Reply, IntakeFacts!Forget, IntakeFacts!Continue,
           IntakeFacts!NoAttempt, IntakeFacts!table, IntakeFacts!client
  <2>7. ASSUME NEW a, Intake!Age(a) \/ Intake!Delete(a)
        PROVE  IntakeFacts!Age(a) \/ IntakeFacts!Delete(a)
    BY <2>7
       DEF Intake!Age, Intake!Delete, Intake!table, Intake!client, Intake!handler,
           IntakeFacts!Age, IntakeFacts!Delete, IntakeFacts!table, IntakeFacts!client,
           IntakeFacts!handler
  <2>8. ASSUME NEW m, Intake!Create(m) PROVE IntakeFacts!Create(m)
    BY <2>8
       DEF Intake!Create, Intake!Fault, Intake!client, Intake!handler, IntakeFacts!Create,
           IntakeFacts!Fault, IntakeFacts!client, IntakeFacts!handler
  <2>. QED
    BY <2>1, <2>2, <2>3, <2>4, <2>5, <2>6, <2>7, <2>8
       DEF Intake!Next, Intake!Attempts, IntakeFacts!Next, IntakeFacts!Attempts
<1>3. ServiceInit => IntakeFacts!Init
  BY <1>1 DEF ServiceInit
<1>4. [ServiceNext]_<<part, dispatch, intake, administration>> =>
        [IntakeFacts!Next]_IntakeFacts!vars
  BY <1>2 DEF ServiceNext, intake, IntakeFacts!vars, IntakeFacts!table, IntakeFacts!client,
              IntakeFacts!handler
<1>. QED
  BY <1>3, <1>4, PTL DEF ServiceSpec, IntakeFacts!Spec

LEMMA IntakeConstants == IntakeFacts!IntakeAssumption
BY ServiceAssumption
   DEF Intake!IntakeAssumption, Intake!IsFiniteSet, IntakeFacts!IntakeAssumption,
       IntakeFacts!IsFiniteSet

\* "Every accepted submission is stored before the client receives its receipt": what a
\* form gives thanks for was stored, and it lets go of no draft before it has given
\* thanks, however late the answer and whatever else was pressed meanwhile
\* (FeedbackComponent's callback, createSubmission).
THEOREM ServiceStores == ServiceSpec => []SuccessMeansStored
<1>1. IntakeFacts!Spec => []IntakeFacts!SuccessMeansStored
  BY IntakeConstants, IntakeFacts!NoDraftLost
<1>2. IntakeFacts!SuccessMeansStored => SuccessMeansStored
  BY DEF IntakeFacts!SuccessMeansStored, SuccessMeansStored, Intake!SuccessMeansStored,
         IntakeFacts!InstallationOf, Intake!InstallationOf, IntakeFacts!ReportOf,
         Intake!ReportOf, IntakeFacts!NoAttempt, Intake!NoAttempt
<1>. QED
  BY <1>1, <1>2, IntakeRuns, PTL

\* The same request delivered twice gets the receipt of its own row, never that of
\* another report (createSubmission looks the identifier up).
THEOREM ServiceReceipts == ServiceSpec => []OwnReceipt
<1>1. IntakeFacts!Spec => []IntakeFacts!OwnReceipt
  BY IntakeConstants, IntakeFacts!ReceiptIsOwn
<1>2. IntakeFacts!OwnReceipt => OwnReceipt
  BY DEF IntakeFacts!OwnReceipt, OwnReceipt, Intake!OwnReceipt, IntakeFacts!Succeeded,
         Intake!Succeeded
<1>. QED
  BY <1>1, <1>2, IntakeRuns, PTL

\* The limits are checked before the insert and not with it: of the reports that came
\* in from clients, the excess is what the other invocations had in hand, never more,
\* whatever the administrator creates beside them (checkStorageCapacity,
\* checkRateLimit, createSubmission of admin.ts).
THEOREM ServiceOvershoot == ServiceSpec => []OvershootBounded
<1>1. IntakeFacts!Spec => []IntakeFacts!OvershootBounded
  BY IntakeConstants, IntakeFacts!OvershootIsBounded
<1>2. IntakeFacts!OvershootBounded => OvershootBounded
  BY Zenon
     DEF IntakeFacts!OvershootBounded, OvershootBounded, Intake!OvershootBounded,
         IntakeFacts!RowsOf, Intake!RowsOf, IntakeFacts!InstallationOf, Intake!InstallationOf,
         IntakeFacts!Cardinality, Intake!Cardinality
<1>. QED
  BY <1>1, <1>2, IntakeRuns, PTL

\* "consumes that authorization once": what was deleted is not brought back by a
\* request that was delivered twice.
THEOREM ServiceDeletes == ServiceSpec => DeletedStaysDeleted
<1>1. IntakeFacts!Spec => IntakeFacts!DeletedStaysDeleted
  BY IntakeConstants, IntakeFacts!NothingComesBack
<1>2. [\A a \in stored \ rows : a \notin rows']_IntakeFacts!vars =>
        [\A a \in stored \ rows : a \notin rows']_Intake!vars
  BY DEF IntakeFacts!vars, IntakeFacts!table, IntakeFacts!client, IntakeFacts!handler,
         Intake!vars, Intake!table, Intake!client, Intake!handler
<1>. QED
  BY <1>1, <1>2, IntakeRuns, PTL
     DEF IntakeFacts!DeletedStaysDeleted, DeletedStaysDeleted, Intake!DeletedStaysDeleted

-----------------------------------------------------------------------------
(* Deletion. *)

Stored == Administration!Stored

AdminRow ==
  [status : {"new", "needs_review", "duplicate"} \cup ReviewStatuses,
   target : Receipts \cup {NoReport}, old : BOOLEAN]

\* The foreign key, and the freshness of receipt ids.
TableInv ==
  /\ made \in Nat /\ Stored \subseteq Receipts /\ copies \subseteq Receipts
  /\ \A r \in Stored \cup copies : r <= made
  /\ inbox \in [Stored -> AdminRow]
  /\ \A r \in Stored : inbox[r].target \in Stored \cup {NoReport}

LEMMA StepsAreNoStatus == "purge" \notin Closed /\ "receipt" \notin Closed
<1>1. Administration!AdministrationAssumption
  BY ServiceAssumption
<1>. QED
  BY <1>1 DEF Administration!AdministrationAssumption

\* A step that stores no other report, and leaves none referring to what it deletes.
LEMMA TableKept ==
  ASSUME TableInv, made' = made, copies' \subseteq copies,
         Stored' \subseteq Stored, inbox' \in [Stored' -> AdminRow],
         \A r \in Stored' : inbox'[r].target \in Stored' \cup {NoReport}
  PROVE  TableInv'
BY DEF TableInv

LEMMA UnlinkedRows ==
  ASSUME TableInv, NEW ids, inbox' = Administration!Unlinked(ids)
  PROVE  /\ Stored' = Stored /\ inbox' \in [Stored' -> AdminRow]
         /\ \A r \in Stored' : inbox'[r].target \in Stored' \cup {NoReport}
<1>1. Stored' = Stored
  BY DEF Administration!Unlinked, Stored, Administration!Stored
<1>2. \A r \in Stored : inbox[r] \in AdminRow
  BY DEF TableInv
<1>3. \A r \in Stored :
        inbox'[r] \in {[inbox[r] EXCEPT !.target = NoReport, !.status = "needs_review"], inbox[r]}
  BY DEF Administration!Unlinked, Stored
<1>4. \A r \in Stored : inbox'[r] \in AdminRow /\ inbox'[r].target \in {NoReport, inbox[r].target}
  BY <1>2, <1>3 DEF AdminRow
<1>5. inbox' \in [Stored -> AdminRow]
  BY <1>4 DEF Administration!Unlinked, Stored
<1>. QED
  BY <1>1, <1>4, <1>5 DEF TableInv

LEMMA DeletedRows ==
  ASSUME TableInv, NEW ids, Administration!Deletable(ids),
         inbox' = Administration!Restrict(inbox, Stored \ ids)
  PROVE  /\ Stored' = Stored \ ids /\ inbox' \in [Stored' -> AdminRow]
         /\ \A r \in Stored' : inbox'[r].target \in Stored' \cup {NoReport}
<1>1. Stored' = Stored \ ids /\ inbox' = [r \in Stored \ ids |-> inbox[r]]
  BY DEF Administration!Restrict, Stored, Administration!Stored
<1>2. \A r \in Stored \ ids : inbox[r].target \notin ids
  BY DEF Administration!Deletable, Administration!Referring, Stored
<1>. QED
  BY <1>1, <1>2 DEF TableInv

LEMMA NoReportIsNone == NoReport \notin Receipts /\ Receipts \subseteq Nat
<1>1. Administration!AdministrationAssumption
  BY ServiceAssumption
<1>. QED
  BY <1>1 DEF Administration!AdministrationAssumption

Gone(r) == r \in Receipts /\ r <= made /\ r \notin Stored
Complete(r) == Gone(r) /\ r \notin copies /\ receipts[r] = 1

\* The row is deleted and the receipt is not written yet.
Deleting(h) == adminPc[h] \in {"purge", "receipt"}

HandlerInv ==
  /\ DOMAIN adminPc = Handlers /\ DOMAIN todo = Handlers /\ DOMAIN deleted = Handlers
  /\ receipts \in [Receipts -> Nat]

\* What is stored, or not received yet, has no delete receipt.
NoReceiptEarly ==
  \A r \in Receipts : r \in Stored \/ r > made => receipts[r] = 0

\* The foundation of a receipt: this invocation's DELETE removed the row.
DeletingInv ==
  \A h \in Handlers : Deleting(h) =>
    /\ Gone(Head(todo[h])) /\ receipts[Head(todo[h])] = 0
    /\ adminPc[h] = "receipt" => Head(todo[h]) \notin copies

OneDeletes ==
  \A g, h \in Handlers :
    Deleting(g) /\ Deleting(h) /\ Head(todo[g]) = Head(todo[h]) => g = h

NamedInv ==
  /\ \A r \in answered : Complete(r)
  /\ \A h \in Handlers : \A r \in deleted[h] : Complete(r)

DeletionInv ==
  TableInv /\ HandlerInv /\ NoReceiptEarly /\ DeletingInv /\ OneDeletes /\ NamedInv

\* A report once gone stays gone, and its copy too: identifiers are fresh.
Receives(r) ==
  /\ r \in Receipts /\ r = made + 1 /\ made' = r /\ Stored' = Stored \cup {r}
  /\ copies' \in {copies, copies \cup {r}}

Shrinks == made' = made /\ Stored' \subseteq Stored /\ copies' \subseteq copies

LEMMA GoneStays ==
  ASSUME TableInv, Shrinks \/ \E r \in Receipts : Receives(r), NEW r, Gone(r)
  PROVE  Gone(r)' /\ (r \notin copies => r \notin copies')
<1>. r \in Nat /\ made \in Nat
  BY NoReportIsNone DEF Gone, TableInv
<1>1. CASE Shrinks
  BY <1>1 DEF Shrinks, Gone
<1>2. ASSUME NEW s \in Receipts, Receives(s) PROVE Gone(r)' /\ (r \notin copies => r \notin copies')
  BY <1>2 DEF Receives, Gone
<1>. QED
  BY <1>1, <1>2

\* What does not delete, and writes no receipt: whoever was deleting goes on with
\* the same report, or no longer does.
LEMMA NothingDeleted ==
  ASSUME DeletionInv, TableInv', HandlerInv', Shrinks \/ \E r \in Receipts : Receives(r),
         receipts' = receipts, answered' = answered,
         \A h \in Handlers : deleted'[h] \subseteq deleted[h],
         \A h \in Handlers : Deleting(h)' =>
           /\ Deleting(h) /\ todo'[h] = todo[h]
           /\ adminPc'[h] = "receipt" => adminPc[h] = "receipt" \/ Head(todo[h]) \notin copies'
  PROVE  DeletionInv'
<1>1. NoReceiptEarly'
  <2>1. CASE Shrinks
    BY <2>1 DEF Shrinks, DeletionInv, NoReceiptEarly
  <2>2. ASSUME NEW s \in Receipts, Receives(s) PROVE NoReceiptEarly'
    <3>1. \A r \in Receipts : r \in Stored' \/ r > made' => r \in Stored \/ r > made
      BY <2>2, NoReportIsNone DEF Receives, DeletionInv, TableInv
    <3>. QED
      BY <3>1 DEF DeletionInv, NoReceiptEarly
  <2>. QED
    BY <2>1, <2>2
<1>2. DeletingInv'
  <2>. SUFFICES ASSUME NEW h \in Handlers, Deleting(h)'
                PROVE  /\ Gone(Head(todo[h]))' /\ receipts'[Head(todo'[h])] = 0
                       /\ adminPc'[h] = "receipt" => Head(todo'[h]) \notin copies'
    BY DEF DeletingInv
  <2>1. Deleting(h) /\ todo'[h] = todo[h]
    OBVIOUS
  <2>2. Gone(Head(todo[h])) /\ receipts[Head(todo[h])] = 0
    BY <2>1 DEF DeletionInv, DeletingInv
  <2>3. Gone(Head(todo[h]))' /\ (Head(todo[h]) \notin copies => Head(todo[h]) \notin copies')
    <3>. DEFINE r == Head(todo[h])
    <3>1. Gone(r)
      BY <2>2
    <3>. HIDE DEF r
    <3>2. r \in Nat /\ made \in Nat
      BY <3>1, NoReportIsNone DEF Gone, DeletionInv, TableInv
    <3>3. r <= made' /\ r \notin Stored' /\ (r \notin copies => r \notin copies')
      <4>1. CASE Shrinks
        BY <4>1, <3>1 DEF Shrinks, Gone
      <4>2. ASSUME NEW s \in Receipts, Receives(s)
            PROVE  r <= made' /\ r \notin Stored' /\ (r \notin copies => r \notin copies')
        BY <4>2, <3>1, <3>2 DEF Receives, Gone
      <4>. QED
        BY <4>1, <4>2
    <3>. QED
      BY <3>1, <3>3, <2>1 DEF Gone, r
  <2>4. adminPc'[h] = "receipt" => Head(todo[h]) \notin copies'
    BY <2>1, <2>3 DEF DeletionInv, DeletingInv
  <2>. QED
    BY <2>1, <2>2, <2>3, <2>4
<1>3. OneDeletes'
  BY DEF DeletionInv, OneDeletes
<1>4. \A r : Complete(r) => Complete(r)'
  <2>. SUFFICES ASSUME NEW r, Complete(r) PROVE Complete(r)'
    OBVIOUS
  <2>1. Gone(r) /\ r \notin copies /\ receipts[r] = 1
    BY DEF Complete
  <2>2. Gone(r)' /\ r \notin copies'
    BY <2>1, GoneStays DEF DeletionInv
  <2>. QED
    BY <2>1, <2>2 DEF Complete
<1>5. NamedInv'
  BY <1>4 DEF DeletionInv, NamedInv
<1>. QED
  BY <1>1, <1>2, <1>3, <1>5 DEF DeletionInv

LEMMA TableUpdated ==
  ASSUME TableInv, NEW r \in Stored, NEW row \in AdminRow, row.target \in Stored \cup {NoReport},
         inbox' = [inbox EXCEPT ![r] = row]
  PROVE  /\ Stored' = Stored /\ inbox' \in [Stored' -> AdminRow]
         /\ \A s \in Stored' : inbox'[s].target \in Stored' \cup {NoReport}
BY DEF TableInv, Stored, Administration!Stored

\* Steps of the table alone, and of the mailer.
LEMMA TableSteps ==
  ASSUME DeletionInv, NEW r \in Receipts,
         \/ Administration!Receive(r) \/ Administration!Grow(r) \/ Administration!Mail(r)
         \/ \E h \in Handlers : Administration!Update(h, r)
  PROVE  DeletionInv'
<1>. TableInv /\ HandlerInv
  BY DEF DeletionInv
<1>. r \in Nat /\ r # NoReport
  BY NoReportIsNone
<1>1. CASE Administration!Receive(r)
  <2>1. Receives(r) /\ inbox' = [s \in Stored \cup {r} |->
                                   IF s = r THEN Administration!Row("new", NoReport, FALSE)
                                            ELSE inbox[s]]
    BY <1>1 DEF Administration!Receive, Receives, Stored, Administration!Stored
  <2>2. Administration!Row("new", NoReport, FALSE) \in AdminRow
    BY DEF Administration!Row, AdminRow
  <2>3. Administration!Row("new", NoReport, FALSE).target = NoReport
    BY DEF Administration!Row
  <2>4. inbox' \in [Stored' -> AdminRow]
    BY <2>1, <2>2 DEF Receives, TableInv
  <2>5. \A s \in Stored' : inbox'[s].target \in Stored' \cup {NoReport}
    BY <2>1, <2>3 DEF Receives, TableInv
  <2>6. made' \in Nat /\ \A s \in Stored' \cup copies' : s \in Receipts /\ s <= made'
    BY <2>1, NoReportIsNone DEF Receives, TableInv
  <2>7. TableInv'
    BY <2>4, <2>5, <2>6 DEF TableInv
  <2>. QED
    BY <1>1, <2>1, <2>7, NothingDeleted
       DEF Administration!Receive, Administration!handler, HandlerInv, Deleting
<1>2. CASE Administration!Grow(r)
  <2>1. [inbox[r] EXCEPT !.old = TRUE] \in AdminRow
    BY <1>2 DEF Administration!Grow, TableInv, Stored, AdminRow
  <2>2. [inbox[r] EXCEPT !.old = TRUE].target = inbox[r].target
    BY <1>2 DEF Administration!Grow, TableInv, Stored, AdminRow
  <2>3. TableInv' /\ Shrinks
    BY <1>2, <2>1, <2>2, TableUpdated, TableKept
       DEF Administration!Grow, TableInv, Stored, Shrinks
  <2>. QED
    BY <1>2, <2>3, NothingDeleted
       DEF Administration!Grow, Administration!handler, HandlerInv, Deleting
<1>3. CASE Administration!Mail(r)
  <2>1. TableInv' /\ Shrinks
    BY <1>3 DEF Administration!Mail, TableInv, Shrinks, Stored, Administration!Stored
  <2>. QED
    BY <1>3, <2>1, NothingDeleted
       DEF Administration!Mail, Administration!handler, HandlerInv, Deleting
<1>4. ASSUME NEW h \in Handlers, Administration!Update(h, r) PROVE DeletionInv'
  <2>1. r \in Stored /\ inbox[r] \in AdminRow /\ inbox[r].target \in Stored \cup {NoReport}
    BY <1>4 DEF Administration!Update, TableInv, Stored
  <2>2. ASSUME NEW status \in ReviewStatuses, inbox' = [inbox EXCEPT ![r].status = status]
        PROVE  TableInv'
    <3>1. [inbox[r] EXCEPT !.status = status] \in AdminRow
      BY <2>1 DEF AdminRow
    <3>2. [inbox[r] EXCEPT !.status = status].target = inbox[r].target
      BY <2>1 DEF AdminRow
    <3>. QED
      BY <1>4, <2>1, <2>2, <3>1, <3>2, TableUpdated, TableKept
         DEF Administration!Update, TableInv
  <2>3. ASSUME NEW target \in Stored \ {r},
               inbox' = [inbox EXCEPT ![r].target = target, ![r].status = "duplicate"]
        PROVE  TableInv'
    <3>. DEFINE row == [inbox[r] EXCEPT !.target = target, !.status = "duplicate"]
    <3>1. row \in AdminRow
      BY <2>1 DEF AdminRow, TableInv
    <3>2. row.target = target
      BY <2>1 DEF AdminRow
    <3>3. inbox' = [inbox EXCEPT ![r] = row]
      BY <2>1, <2>3 DEF TableInv, AdminRow
    <3>. QED
      <4>. HIDE DEF row
      <4>. QED
        BY <1>4, <2>1, <3>1, <3>2, <3>3, TableUpdated, TableKept
           DEF Administration!Update, TableInv
  <2>4. ASSUME inbox' = [inbox EXCEPT ![r].target = NoReport] PROVE TableInv'
    <3>1. [inbox[r] EXCEPT !.target = NoReport] \in AdminRow
      BY <2>1 DEF AdminRow
    <3>2. [inbox[r] EXCEPT !.target = NoReport].target = NoReport
      BY <2>1 DEF AdminRow
    <3>. QED
      BY <1>4, <2>1, <2>4, <3>1, <3>2, TableUpdated, TableKept
         DEF Administration!Update, TableInv
  <2>5. TableInv'
    BY <1>4, <2>2, <2>3, <2>4 DEF Administration!Update, Stored
  <2>6. Shrinks
    BY <1>4 DEF Administration!Update, Shrinks, Stored, Administration!Stored
  <2>. QED
    BY <1>4, <2>5, <2>6, NothingDeleted
       DEF Administration!Update, Administration!handler, HandlerInv, Deleting
<1>. QED
  BY <1>1, <1>2, <1>3, <1>4

\* Steps of an invocation that delete nothing an answer will name.
LEMMA QuietSteps ==
  ASSUME DeletionInv, NEW h \in Handlers,
         \/ \E ids \in Administration!Batches : Administration!Request(h, ids)
         \/ Administration!Unlink(h) \/ Administration!Start(h) \/ Administration!Release(h)
         \/ Administration!SweepQueue(h) \/ Administration!Abort(h)
         \/ \E status \in ReviewStatuses : Administration!Sweep(h, status)
  PROVE  DeletionInv'
<1>. TableInv /\ HandlerInv
  BY DEF DeletionInv
<1>1. ASSUME NEW ids \in Administration!Batches, Administration!Request(h, ids)
      PROVE  DeletionInv'
  <2>1. TableInv' /\ Shrinks
    BY <1>1 DEF Administration!Request, Administration!table, TableInv, Shrinks, Stored,
                Administration!Stored
  <2>2. HandlerInv' /\ (\A g \in Handlers : deleted'[g] \subseteq deleted[g])
    BY <1>1 DEF Administration!Request, Administration!table, Administration!Goto, HandlerInv
  <2>3. \A g \in Handlers : Deleting(g)' =>
          Deleting(g) /\ todo'[g] = todo[g] /\ adminPc'[g] = adminPc[g]
    BY <1>1 DEF Administration!Request, Administration!Goto, HandlerInv, Deleting
  <2>. QED
    BY <1>1, <2>1, <2>2, <2>3, NothingDeleted
       DEF Administration!Request, Administration!table
<1>2. CASE Administration!Unlink(h)
  <2>1. TableInv' /\ Shrinks
    BY <1>2, UnlinkedRows, TableKept DEF Administration!Unlink, Shrinks
  <2>2. HandlerInv'
    BY <1>2 DEF Administration!Unlink, Administration!Goto, HandlerInv
  <2>3. \A g \in Handlers : Deleting(g)' =>
          Deleting(g) /\ todo'[g] = todo[g] /\ adminPc'[g] = adminPc[g]
    BY <1>2 DEF Administration!Unlink, Administration!Goto, HandlerInv, Deleting
  <2>. QED
    BY <1>2, <2>1, <2>2, <2>3, NothingDeleted DEF Administration!Unlink
<1>3. CASE Administration!Start(h)
  <2>1. TableInv' /\ Shrinks
    BY <1>3 DEF Administration!Start, Administration!table, TableInv, Shrinks, Stored,
                Administration!Stored
  <2>2. HandlerInv'
    BY <1>3 DEF Administration!Start, Administration!table, Administration!Goto, HandlerInv
  <2>3. \A g \in Handlers : Deleting(g)' =>
          Deleting(g) /\ todo'[g] = todo[g] /\ adminPc'[g] = adminPc[g]
    BY <1>3 DEF Administration!Start, Administration!Goto, HandlerInv, Deleting
  <2>. QED
    BY <1>3, <2>1, <2>2, <2>3, NothingDeleted DEF Administration!Start, Administration!table
<1>4. CASE Administration!Release(h)
  <2>1. TableInv' /\ Shrinks
    BY <1>4, UnlinkedRows, TableKept DEF Administration!Release, Shrinks
  <2>2. HandlerInv'
    BY <1>4 DEF Administration!Release, Administration!Goto, HandlerInv
  <2>3. \A g \in Handlers : Deleting(g)' =>
          Deleting(g) /\ todo'[g] = todo[g] /\ adminPc'[g] = adminPc[g]
    BY <1>4 DEF Administration!Release, Administration!Goto, HandlerInv, Deleting
  <2>. QED
    BY <1>4, <2>1, <2>2, <2>3, NothingDeleted DEF Administration!Release
<1>5. CASE Administration!SweepQueue(h)
  <2>1. TableInv' /\ Shrinks
    BY <1>5 DEF Administration!SweepQueue, TableInv, Shrinks, Stored, Administration!Stored
  <2>2. HandlerInv'
    BY <1>5 DEF Administration!SweepQueue, Administration!Goto, HandlerInv
  <2>3. \A g \in Handlers : Deleting(g)' =>
          Deleting(g) /\ todo'[g] = todo[g] /\ adminPc'[g] = adminPc[g]
    BY <1>5 DEF Administration!SweepQueue, Administration!Goto, HandlerInv, Deleting
  <2>. QED
    BY <1>5, <2>1, <2>2, <2>3, NothingDeleted DEF Administration!SweepQueue
<1>6. CASE Administration!Abort(h)
  <2>1. TableInv' /\ Shrinks
    BY <1>6 DEF Administration!Abort, Administration!table, TableInv, Shrinks, Stored,
                Administration!Stored
  <2>2. HandlerInv'
    BY <1>6 DEF Administration!Abort, Administration!table, Administration!Goto, HandlerInv
  <2>3. \A g \in Handlers : Deleting(g)' =>
          Deleting(g) /\ todo'[g] = todo[g] /\ adminPc'[g] = adminPc[g]
    BY <1>6 DEF Administration!Abort, Administration!Goto, HandlerInv, Deleting
  <2>. QED
    BY <1>6, <2>1, <2>2, <2>3, NothingDeleted DEF Administration!Abort, Administration!table
<1>7. ASSUME NEW status \in ReviewStatuses, Administration!Sweep(h, status)
      PROVE  DeletionInv'
  <2>1. TableInv' /\ Shrinks
    BY <1>7, DeletedRows, TableKept DEF Administration!Sweep, Shrinks, Stored
  <2>2. PICK next \in Closed \cup {"sweepQueue"} : adminPc' = [adminPc EXCEPT ![h] = next]
    BY <1>7 DEF Administration!Sweep, Administration!AfterSweep
  <2>3. next \notin {"purge", "receipt"}
    BY StepsAreNoStatus
  <2>4. HandlerInv'
    BY <1>7, <2>2 DEF Administration!Sweep, HandlerInv
  <2>5. \A g \in Handlers : Deleting(g)' =>
          Deleting(g) /\ todo'[g] = todo[g] /\ adminPc'[g] = adminPc[g]
    BY <1>7, <2>2, <2>3 DEF Administration!Sweep, HandlerInv, Deleting
  <2>. QED
    BY <1>7, <2>1, <2>4, <2>5, NothingDeleted DEF Administration!Sweep
<1>. QED
  BY <1>1, <1>2, <1>3, <1>4, <1>5, <1>6, <1>7

\* Who finds the row deletes it, and nobody else is at it: it was still there.
LEMMA DeletingSteps ==
  ASSUME DeletionInv, NEW h \in Handlers, Administration!DeleteRow(h)
  PROVE  DeletionInv'
<1>. DEFINE r == Head(todo[h])
<1>. TableInv /\ HandlerInv
  BY DEF DeletionInv
<1>1. /\ adminPc[h] = "delete" /\ Administration!Deletable({r})
      /\ inbox' = Administration!Restrict(inbox, Stored \ {r})
      /\ adminPc' = [adminPc EXCEPT ![h] = IF r \in Stored THEN "purge" ELSE "purgeMissing"]
      /\ UNCHANGED <<copies, receipts, todo, deleted, answered, made>>
  BY DEF Administration!DeleteRow, Administration!Goto, Stored
<1>. HIDE DEF r
<1>2. Stored' = Stored \ {r}
  BY <1>1, DeletedRows
<1>3. TableInv' /\ Shrinks
  <2>1. Shrinks
    BY <1>1, <1>2 DEF Shrinks
  <2>. QED
    BY <1>1, <1>2, <2>1, DeletedRows, TableKept DEF Shrinks
<1>4. HandlerInv'
  BY <1>1 DEF HandlerInv
<1>5. CASE r \notin Stored
  <2>1. \A g \in Handlers : Deleting(g)' =>
          Deleting(g) /\ todo'[g] = todo[g] /\ adminPc'[g] = adminPc[g]
    BY <1>1, <1>5 DEF HandlerInv, Deleting
  <2>. QED
    BY <1>1, <1>3, <1>4, <2>1, NothingDeleted
<1>6. CASE r \in Stored
  <2>. r \in Receipts /\ r <= made /\ receipts[r] = 0
    BY <1>6 DEF DeletionInv, NoReceiptEarly, TableInv
  <2>1. \A g \in Handlers : Deleting(g)' <=> g = h \/ Deleting(g)
    BY <1>1, <1>6 DEF HandlerInv, Deleting
  <2>2. \A g \in Handlers : Deleting(g) => Head(todo[g]) # r
    BY <1>6 DEF DeletionInv, DeletingInv, Gone
  <2>3. NoReceiptEarly'
    BY <1>1, <1>2 DEF DeletionInv, NoReceiptEarly
  <2>4. DeletingInv'
    <3>. SUFFICES ASSUME NEW g \in Handlers, Deleting(g)'
                  PROVE  /\ Gone(Head(todo[g]))' /\ receipts'[Head(todo'[g])] = 0
                         /\ adminPc'[g] = "receipt" => Head(todo'[g]) \notin copies'
      BY DEF DeletingInv
    <3>1. CASE g = h
      BY <1>1, <1>2, <1>6, <3>1 DEF Gone, HandlerInv, r
    <3>2. CASE g # h
      <4>1. Deleting(g) /\ adminPc'[g] = adminPc[g]
        BY <1>1, <2>1, <3>2 DEF HandlerInv
      <4>. QED
        BY <1>1, <1>2, <4>1 DEF DeletionInv, DeletingInv, Gone
    <3>. QED
      BY <3>1, <3>2
  <2>5. OneDeletes'
    BY <1>1, <2>1, <2>2 DEF DeletionInv, OneDeletes, r
  <2>6. NamedInv'
    BY <1>1, <1>2 DEF DeletionInv, NamedInv, Complete, Gone
  <2>. QED
    BY <1>3, <1>4, <2>3, <2>4, <2>5, <2>6 DEF DeletionInv
<1>. QED
  BY <1>5, <1>6

\* The request goes on with its next report, or answers.
LEMMA Continuing ==
  ASSUME DeletionInv, NEW h \in Handlers, NEW named, Administration!Continue(h, named),
         \A r \in named : Complete(r)', \A r : Complete(r) => Complete(r)'
  PROVE  /\ NamedInv' /\ ~Deleting(h)'
         /\ \A g \in Handlers \ {h} : todo'[g] = todo[g] /\ adminPc'[g] = adminPc[g]
         /\ DOMAIN adminPc' = Handlers /\ DOMAIN todo' = Handlers /\ DOMAIN deleted' = Handlers
<1>1. /\ DOMAIN adminPc' = Handlers /\ DOMAIN todo' = Handlers /\ DOMAIN deleted' = Handlers
      /\ \A g \in Handlers \ {h} : todo'[g] = todo[g] /\ adminPc'[g] = adminPc[g]
      /\ adminPc'[h] \in {"idle", "unlink"}
  BY DEF Administration!Continue, Administration!Goto, DeletionInv, HandlerInv
<1>2. /\ answered' \in {answered, answered \cup named}
      /\ \A g \in Handlers : deleted'[g] \in {deleted[g], named}
  BY DEF Administration!Continue, DeletionInv, HandlerInv
<1>3. NamedInv'
  BY <1>2 DEF DeletionInv, NamedInv
<1>. QED
  BY <1>1, <1>3 DEF Deleting

LEMMA PurgingSteps ==
  ASSUME DeletionInv, NEW h \in Handlers, Administration!Purge(h)
  PROVE  DeletionInv'
<1>. TableInv /\ HandlerInv
  BY DEF DeletionInv
<1>1. /\ adminPc[h] \in {"purge", "purgeMissing"} /\ copies' = copies \ {Head(todo[h])}
      /\ UNCHANGED <<inbox, receipts, made>>
  BY DEF Administration!Purge
<1>2. Stored' = Stored
  BY <1>1 DEF Stored, Administration!Stored
<1>3. TableInv' /\ Shrinks
  BY <1>1, <1>2 DEF TableInv, Shrinks
<1>4. CASE adminPc[h] = "purge"
  <2>1. UNCHANGED <<todo, deleted, answered>> /\ adminPc' = [adminPc EXCEPT ![h] = "receipt"]
    BY <1>4 DEF Administration!Purge, Administration!Goto
  <2>2. \A g \in Handlers : Deleting(g)' =>
          /\ Deleting(g) /\ todo'[g] = todo[g]
          /\ adminPc'[g] = "receipt" => adminPc[g] = "receipt" \/ Head(todo[g]) \notin copies'
    BY <1>1, <1>4, <2>1 DEF HandlerInv, Deleting
  <2>3. HandlerInv'
    BY <1>1, <2>1 DEF HandlerInv
  <2>. QED
    BY <1>1, <1>3, <2>1, <2>2, <2>3, NothingDeleted
<1>5. CASE adminPc[h] = "purgeMissing"
  <2>1. Administration!Continue(h, deleted[h])
    BY <1>5 DEF Administration!Purge
  <2>2. \A r : Complete(r) => Complete(r)'
    BY <1>1, <1>2 DEF Complete, Gone
  <2>3. \A r \in deleted[h] : Complete(r)'
    BY <2>2 DEF DeletionInv, NamedInv
  <2>4. /\ NamedInv' /\ ~Deleting(h)'
        /\ \A g \in Handlers \ {h} : todo'[g] = todo[g] /\ adminPc'[g] = adminPc[g]
        /\ DOMAIN adminPc' = Handlers /\ DOMAIN todo' = Handlers /\ DOMAIN deleted' = Handlers
    BY <2>1, <2>2, <2>3, Continuing
  <2>5. HandlerInv'
    BY <1>1, <2>4 DEF HandlerInv
  <2>6. NoReceiptEarly'
    BY <1>1, <1>2 DEF DeletionInv, NoReceiptEarly
  <2>7. \A g \in Handlers : Deleting(g)' =>
          Deleting(g) /\ todo'[g] = todo[g] /\ adminPc'[g] = adminPc[g]
    BY <2>4 DEF Deleting
  <2>8. DeletingInv' /\ OneDeletes'
    BY <1>1, <1>2, <2>7 DEF DeletionInv, DeletingInv, OneDeletes, Gone
  <2>. QED
    BY <1>3, <2>4, <2>5, <2>6, <2>8 DEF DeletionInv
<1>. QED
  BY <1>1, <1>4, <1>5

\* The first and only receipt.
LEMMA RecordingSteps ==
  ASSUME DeletionInv, NEW h \in Handlers, Administration!RecordAction(h)
  PROVE  DeletionInv'
<1>. PICK r : r = Head(todo[h])
  OBVIOUS
<1>. TableInv /\ HandlerInv
  BY DEF DeletionInv
<1>1. /\ adminPc[h] = "receipt" /\ UNCHANGED <<inbox, copies, made>>
      /\ receipts' = [receipts EXCEPT ![r] = receipts[r] + 1]
      /\ Administration!Continue(h, deleted[h] \cup {r})
  BY DEF Administration!RecordAction
<1>2. Gone(r) /\ receipts[r] = 0 /\ r \notin copies /\ r \in Receipts
  BY <1>1 DEF DeletionInv, DeletingInv, Deleting, Gone
<1>3. \A g \in Handlers \ {h} : Deleting(g) => Head(todo[g]) # r
  BY <1>1 DEF DeletionInv, OneDeletes, Deleting
<1>4. Stored' = Stored
  BY <1>1 DEF Stored, Administration!Stored
<1>5. TableInv'
  BY <1>1, <1>4 DEF TableInv
<1>6. /\ receipts' \in [Receipts -> Nat] /\ receipts'[r] = 1
      /\ \A s \in Receipts \ {r} : receipts'[s] = receipts[s]
  BY <1>1, <1>2 DEF HandlerInv
<1>7. Complete(r)' /\ \A s : Complete(s) => Complete(s)'
  <2>1. \A s : Complete(s) => s \in Receipts \ {r}
    BY <1>2 DEF Complete, Gone
  <2>2. \A s : Complete(s) => Complete(s)'
    BY <1>1, <1>4, <1>6, <2>1 DEF Complete, Gone
  <2>3. Gone(r)' /\ r \notin copies' /\ receipts'[r] = 1
    BY <1>1, <1>2, <1>4, <1>6 DEF Gone
  <2>. QED
    BY <2>2, <2>3 DEF Complete
<1>8. /\ NamedInv' /\ ~Deleting(h)'
      /\ \A g \in Handlers \ {h} : todo'[g] = todo[g] /\ adminPc'[g] = adminPc[g]
      /\ DOMAIN adminPc' = Handlers /\ DOMAIN todo' = Handlers /\ DOMAIN deleted' = Handlers
  <2>1. \A s \in deleted[h] \cup {r} : Complete(s)'
    BY <1>7 DEF DeletionInv, NamedInv
  <2>. QED
    BY <1>1, <1>7, <2>1, Continuing
<1>9. HandlerInv'
  BY <1>6, <1>8 DEF HandlerInv
<1>10. NoReceiptEarly'
  BY <1>1, <1>2, <1>4, <1>6, NoReportIsNone DEF DeletionInv, NoReceiptEarly, Gone, TableInv
<1>11. \A g \in Handlers : Deleting(g)' =>
         /\ g # h /\ Deleting(g) /\ todo'[g] = todo[g] /\ adminPc'[g] = adminPc[g]
         /\ Head(todo[g]) \in Receipts \ {r}
  BY <1>3, <1>8 DEF Deleting, DeletionInv, DeletingInv, Gone
<1>12. DeletingInv' /\ OneDeletes'
  BY <1>1, <1>4, <1>6, <1>11 DEF DeletionInv, DeletingInv, OneDeletes, Gone
<1>. QED
  BY <1>5, <1>8, <1>9, <1>10, <1>12 DEF DeletionInv

\* "purges the queued email copy of each removed record, and leaves a minimal
\* administrative receipt": whatever requests and retention runs overlap, and wherever
\* they fail, a report an answer names as deleted is gone from every table, nothing
\* refers to it, and it has exactly one receipt (deleteSubmission, runRetention).
THEOREM ServiceDeletesCompletely == ServiceSpec => []DeletionComplete
<1>1. ServiceInit => DeletionInv
  <2>. SUFFICES ASSUME ServiceInit PROVE DeletionInv
    OBVIOUS
  <2>1. Administration!Init
    BY DEF ServiceInit
  <2>2. Stored = {} /\ TableInv
    BY <2>1 DEF Administration!Init, TableInv, Stored, Administration!Stored
  <2>3. HandlerInv /\ NoReceiptEarly
    BY <2>1 DEF Administration!Init, HandlerInv, NoReceiptEarly
  <2>4. DeletingInv /\ OneDeletes /\ NamedInv
    BY <2>1 DEF Administration!Init, DeletingInv, OneDeletes, NamedInv, Deleting
  <2>. QED
    BY <2>2, <2>3, <2>4 DEF DeletionInv
<1>2. DeletionInv /\ [ServiceNext]_<<part, dispatch, intake, administration>> => DeletionInv'
  <2>1. DeletionInv /\ Administration!Next => DeletionInv'
    BY TableSteps, QuietSteps, DeletingSteps, PurgingSteps, RecordingSteps
       DEF Administration!Next
  <2>2. DeletionInv /\ UNCHANGED administration => DeletionInv'
    BY DEF administration, DeletionInv, TableInv, HandlerInv, NoReceiptEarly, DeletingInv,
           OneDeletes, NamedInv, Complete, Gone, Deleting, Stored, Administration!Stored
  <2>. QED
    BY <2>1, <2>2 DEF ServiceNext
<1>3. DeletionInv => DeletionComplete
  BY NoReportIsNone
     DEF DeletionInv, TableInv, NamedInv, Complete, Gone, DeletionComplete,
         Administration!DeletionComplete, Administration!Referring, Stored
<1>. QED
  BY <1>1, <1>2, <1>3, PTL DEF ServiceSpec
=============================================================================
