------------------------ MODULE FeedbackIntakeProofs ------------------------
(***************************************************************************)
(* Proofs about FeedbackIntake, for any number of installations, of        *)
(* invocations that run at once, of presses of Submit and of faults, and   *)
(* for any limits.                                                         *)
(***************************************************************************)
EXTENDS FeedbackIntake, FiniteSetTheorems, SequenceTheorems, TLAPS

\* The attempts that somebody made.
Known == {s.attempt : s \in sent}

MadeBy(c) == {s.attempt : s \in {t \in sent : t.installation = c}}

\* Every attempt has a number of its own, and nothing that is on its way, in hand or
\* stored was not sent by a form, except what the administrator created.
SentInv ==
  /\ IsFiniteSet(sent)
  /\ \A s \in sent : s.attempt <= Cardinality(sent)
  /\ \A s, t \in sent : s.attempt = t.attempt => s = t
  /\ stored \ Manual \subseteq Known /\ requests \subseteq Known
  /\ \A c \in Installations : thread[c] # "stopped" => attempt[c] \in Known
  /\ \A h \in Handlers : pc[h] # "idle" => serving[h] \in Known

TypeInv == TypeOK /\ SentInv

LEMMA FaultType ==
  ASSUME TypeOK, IntakeAssumption, Fault
  PROVE  faults' \in 0..MaxFaults
BY DEF TypeOK, IntakeAssumption, Fault

\* The number of a new attempt is new.
LEMMA SubmitNumbers ==
  ASSUME IntakeAssumption, TypeInv, NEW c \in Installations, NEW r \in Reports,
         Submit(c, r)
  PROVE  \E s \in [attempt : Attempts, installation : Installations, report : Reports] :
           /\ sent' = sent \cup {s} /\ s.attempt = Cardinality(sent) + 1
           /\ attempt' = [attempt EXCEPT ![c] = s.attempt]
           /\ s.attempt \notin Known /\ s.installation = c /\ s.report = r
           /\ IsFiniteSet(sent') /\ Cardinality(sent') = Cardinality(sent) + 1
<1> DEFINE a == Cardinality(sent) + 1
           s == [attempt |-> a, installation |-> c, report |-> r]
<1>1. a \in Attempts /\ attempt' = [attempt EXCEPT ![c] = a] /\ sent' = sent \cup {s}
  BY DEF Submit
<1>2. s \in [attempt : Attempts, installation : Installations, report : Reports]
  BY <1>1
<1>3. Cardinality(sent) \in Nat
  BY FS_CardinalityType DEF TypeInv, SentInv
<1>4. a \notin Known
  <2>1. \A t \in sent : t.attempt \in Nat /\ t.attempt <= Cardinality(sent)
    BY DEF TypeInv, TypeOK, SentInv, Attempts
  <2>. QED
    BY <1>3, <2>1 DEF Known
<1>5. s \notin sent
  BY <1>4 DEF Known
<1>6. IsFiniteSet(sent') /\ Cardinality(sent') = Cardinality(sent) + 1
  BY <1>1, <1>5, FS_AddElement DEF TypeInv, SentInv
<1>. QED
  BY <1>1, <1>2, <1>4, <1>6

\* Where an invocation that has something in hand can be.
Labels == {"verify", "rate", "globalRate", "capacity", "insert", "lookup"}

LEMMA InHand ==
  ASSUME TypeInv, NEW h \in Handlers, pc[h] # "idle"
  PROVE  serving[h] \in Known /\ serving[h] \in Attempts
BY DEF TypeInv, TypeOK, SentInv, Known

\* What every step of an invocation keeps.
LEMMA HandlerTypes ==
  ASSUME TypeInv, NEW h \in Handlers,
         \/ pc' = [pc EXCEPT ![h] = "idle"] /\ serving' = [serving EXCEPT ![h] = NoAttempt]
         \/ \E label \in Labels : pc' = [pc EXCEPT ![h] = label] /\ serving' = serving
                                  /\ pc[h] # "idle"
         \/ \E a \in requests : /\ pc' = [pc EXCEPT ![h] = "verify"]
                                /\ serving' = [serving EXCEPT ![h] = a],
         UNCHANGED client,
         requests' \subseteq requests,
         replies' \subseteq replies \cup
           [attempt : Attempts, status : Statuses, receipt : Attempts \cup {NoAttempt}],
         unread' \in [Handlers -> SUBSET {"storage", "installation"}],
         faults' \in 0..MaxFaults,
         \/ UNCHANGED <<rows, recent, consumed, stored>>
         \/ InsertRow(serving[h]) /\ pc[h] # "idle"
  PROVE  TypeInv'
<1>1. pc' \in [Handlers -> Labels \cup {"idle"}]
  BY DEF TypeInv, TypeOK, Labels
<1>2. serving' \in [Handlers -> Attempts \cup {NoAttempt}]
  BY DEF TypeInv, TypeOK
<1>3. /\ recent' \subseteq rows' /\ rows' \subseteq stored' /\ stored' \subseteq Attempts \cup Manual
      /\ stored' \ Manual \subseteq consumed' /\ consumed' \subseteq Attempts
      /\ stored' \ Manual \subseteq Known
  <2>1. CASE UNCHANGED <<rows, recent, consumed, stored>>
    BY <2>1 DEF TypeInv, TypeOK, SentInv
  <2>2. CASE InsertRow(serving[h]) /\ pc[h] # "idle"
    <3>1. serving[h] \in Attempts /\ serving[h] \in Known
      BY <2>2, InHand
    <3>2. /\ rows' = rows \cup {serving[h]} /\ recent' = recent \cup {serving[h]}
          /\ consumed' = consumed \cup {serving[h]} /\ stored' = stored \cup {serving[h]}
      BY <2>2 DEF InsertRow
    <3>. QED
      BY <3>1, <3>2 DEF TypeInv, TypeOK, SentInv
  <2>. QED
    BY <2>1, <2>2
<1>4. TypeOK'
  BY <1>1, <1>2, <1>3 DEF client, TypeInv, TypeOK, Labels
<1>5. \A i \in Handlers : pc'[i] # "idle" => serving'[i] \in Known
  <2>. SUFFICES ASSUME NEW i \in Handlers, pc'[i] # "idle" PROVE serving'[i] \in Known
    OBVIOUS
  <2>1. pc \in [Handlers -> Labels \cup {"idle"}] /\ serving \in [Handlers -> Attempts \cup {NoAttempt}]
    BY DEF TypeInv, TypeOK, Labels
  <2>2. requests \subseteq Known
    BY DEF TypeInv, SentInv
  <2>3. CASE i = h
    BY <2>1, <2>2, <2>3, InHand
  <2>4. CASE i # h
    <3>1. pc'[i] = pc[i] /\ serving'[i] = serving[i]
      BY <2>1, <2>4
    <3>. QED
      BY <3>1, InHand
  <2>. QED
    BY <2>3, <2>4
<1>6. SentInv'
  BY <1>3, <1>5 DEF client, TypeInv, SentInv, Known
<1>. QED
  BY <1>4, <1>6 DEF TypeInv

LEMMA ReplyShape ==
  ASSUME TypeInv, NEW h \in Handlers, pc[h] # "idle", NEW status \in Statuses,
         NEW receipt \in Attempts \cup {NoAttempt}, Reply(h, status, receipt)
  PROVE  /\ pc' = [pc EXCEPT ![h] = "idle"] /\ serving' = [serving EXCEPT ![h] = NoAttempt]
         /\ replies' \subseteq replies \cup
              [attempt : Attempts, status : Statuses, receipt : Attempts \cup {NoAttempt}]
<1>1. attempt \in [Installations -> Attempts \cup {NoAttempt}] /\ serving[h] \in Attempts
  BY InHand DEF TypeInv, TypeOK
<1>. QED
  BY <1>1 DEF Reply, Forget

LEMMA UnreadType ==
  ASSUME TypeInv, NEW h \in Handlers, NEW Q \in SUBSET {"storage", "installation"},
         unread' = [unread EXCEPT ![h] = Q]
  PROVE  unread' \in [Handlers -> SUBSET {"storage", "installation"}]
BY DEF TypeInv, TypeOK

LEMMA HandlerStep ==
  ASSUME IntakeAssumption, TypeInv, NEW h \in Handlers,
         \/ Receive(h) \/ VerifyToken(h) \/ CheckRate(h) \/ CheckGlobalRate(h)
         \/ CheckCapacity(h) \/ Insert(h) \/ Fails(h) \/ Lookup(h) \/ Kill(h)
  PROVE  TypeInv'
<1> USE DEF table, client, handler
<1>0. /\ faults \in 0..MaxFaults /\ unread \in [Handlers -> SUBSET {"storage", "installation"}]
      /\ {"verify", "rate", "globalRate", "capacity", "insert", "lookup"} \subseteq Labels
      /\ {200, 201, 401, 409, 429, 500, 503} \subseteq Statuses
      /\ NoAttempt \in Attempts \cup {NoAttempt}
  BY DEF TypeInv, TypeOK, Labels, Statuses
<1>1. CASE Receive(h)
  <2>1. faults' \in 0..MaxFaults /\ requests' \subseteq requests
    BY <1>0, <1>1, FaultType DEF Receive, TypeInv
  <2>2. \E a \in requests : pc' = [pc EXCEPT ![h] = "verify"] /\ serving' = [serving EXCEPT ![h] = a]
    BY <1>1 DEF Receive
  <2>. QED
    BY <1>0, <1>1, <2>1, <2>2, HandlerTypes, ZenonT(40) DEF Receive
<1>2. CASE VerifyToken(h)
  <2>1. pc[h] # "idle"
    BY <1>2 DEF VerifyToken
  <2>2. Reply(h, 401, NoAttempt) \/ Continue(h, "rate")
    BY <1>2 DEF VerifyToken
  <2>. QED
    BY <1>0, <1>2, <2>1, <2>2, ReplyShape, HandlerTypes DEF VerifyToken, Continue
<1>3. CASE CheckRate(h)
  <2>1. pc[h] # "idle"
    BY <1>3 DEF CheckRate
  <2>2. Reply(h, 429, NoAttempt) \/ Continue(h, "globalRate")
    BY <1>3 DEF CheckRate
  <2>. QED
    BY <1>0, <1>3, <2>1, <2>2, ReplyShape, HandlerTypes DEF CheckRate, Continue
<1>4. CASE CheckGlobalRate(h)
  <2>1. pc[h] # "idle"
    BY <1>4 DEF CheckGlobalRate
  <2>2. Reply(h, 429, NoAttempt) \/ Continue(h, "capacity")
    BY <1>4 DEF CheckGlobalRate
  <2>3. unread' \in [Handlers -> SUBSET {"storage", "installation"}]
    BY <1>0, <1>4, UnreadType DEF CheckGlobalRate
  <2>. QED
    BY <1>0, <1>4, <2>1, <2>2, <2>3, ReplyShape, HandlerTypes DEF CheckGlobalRate, Continue
<1>5. CASE CheckCapacity(h)
  <2>1. pc[h] # "idle"
    BY <1>5 DEF CheckCapacity
  <2>2. \/ \E status \in {503, 429} : Reply(h, status, NoAttempt)
        \/ \E label \in {"insert", "capacity"} : Continue(h, label)
    BY <1>5 DEF CheckCapacity
  <2>3. unread' \in [Handlers -> SUBSET {"storage", "installation"}]
    <3>1. PICK query \in unread[h] : unread' \in {[unread EXCEPT ![h] = {}],
                                                  [unread EXCEPT ![h] = @ \ {query}]}
      BY <1>5 DEF CheckCapacity
    <3>2. unread[h] \ {query} \in SUBSET {"storage", "installation"}
      BY <1>0
    <3>. QED
      BY <1>0, <3>1, <3>2, UnreadType
  <2>4. CASE \E status \in {503, 429} : Reply(h, status, NoAttempt)
    BY <1>0, <1>5, <2>1, <2>3, <2>4, ReplyShape, HandlerTypes DEF CheckCapacity
  <2>5. CASE \E label \in {"insert", "capacity"} : Continue(h, label)
    <3>1. /\ \E label \in Labels : pc' = [pc EXCEPT ![h] = label] /\ serving' = serving
          /\ replies' = replies
      BY <1>0, <2>5, ZenonT(40) DEF Continue
    <3>2. UNCHANGED <<table, client, requests, stored, faults>>
      BY <1>5 DEF CheckCapacity
    <3>. QED
      BY <1>0, <2>1, <2>3, <3>1, <3>2, HandlerTypes, ZenonT(40)
  <2>. QED
    BY <2>2, <2>4, <2>5
<1>6. CASE Insert(h)
  <2>1. pc[h] # "idle"
    BY <1>6 DEF Insert
  <2>2. CASE Continue(h, "lookup") /\ UNCHANGED <<table, stored>>
    BY <1>0, <1>6, <2>1, <2>2, HandlerTypes, ZenonT(40) DEF Insert, Continue
  <2>3. CASE InsertRow(serving[h]) /\ Reply(h, 201, serving[h])
    BY <1>0, <1>6, <2>1, <2>3, InHand, ReplyShape, HandlerTypes DEF Insert
  <2>. QED
    BY <1>6, <2>2, <2>3 DEF Insert
<1>7. CASE Fails(h)
  <2>1. pc[h] # "idle" /\ Reply(h, 500, NoAttempt) /\ Fault
        /\ (InsertRow(serving[h]) \/ UNCHANGED <<table, stored>>)
    BY <1>7 DEF Fails
  <2>2. unread' \in [Handlers -> SUBSET {"storage", "installation"}]
    BY <1>0, <1>7, UnreadType DEF Fails
  <2>3. faults' \in 0..MaxFaults
    BY <2>1, FaultType DEF TypeInv
  <2>. QED
    BY <1>0, <1>7, <2>1, <2>2, <2>3, ReplyShape, HandlerTypes DEF Fails
<1>8. CASE Lookup(h)
  <2>1. pc[h] # "idle"
    BY <1>8 DEF Lookup
  <2>2. \/ \E receipt \in Attempts : Reply(h, 200, receipt)
        \/ Reply(h, 409, NoAttempt)
    BY <1>8, <2>1, InHand DEF Lookup, SameIdentifier
  <2>. QED
    BY <1>0, <1>8, <2>1, <2>2, ReplyShape, HandlerTypes DEF Lookup
<1>9. CASE Kill(h)
  <2>1. unread' \in [Handlers -> SUBSET {"storage", "installation"}]
    BY <1>0, <1>9, UnreadType DEF Kill
  <2>2. faults' \in 0..MaxFaults
    BY <1>9, FaultType DEF TypeInv, Kill
  <2>. QED
    BY <1>0, <1>9, <2>1, <2>2, HandlerTypes, ZenonT(40) DEF Kill, Forget
<1>. QED
  BY <1>1, <1>2, <1>3, <1>4, <1>5, <1>6, <1>7, <1>8, <1>9

\* The attempt that a running thread is about.
LEMMA InThread ==
  ASSUME TypeInv, NEW c \in Installations, thread[c] # "stopped"
  PROVE  attempt[c] \in Known /\ attempt[c] \in Attempts
BY DEF TypeInv, TypeOK, SentInv, Known

LEMMA QueueFacts ==
  ASSUME NEW S, NEW q \in Seq(S), NEW e \in S
  PROVE  /\ Append(q, e) \in Seq(S)
         /\ \A k \in 1..Len(Append(q, e)) :
              Append(q, e)[k] = e \/ (k \in 1..Len(q) /\ Append(q, e)[k] = q[k])
<1>1. /\ Append(q, e) \in Seq(S) /\ Len(Append(q, e)) = Len(q) + 1 /\ Len(q) \in Nat
      /\ \A k \in 1..Len(q) : Append(q, e)[k] = q[k]
      /\ Append(q, e)[Len(q) + 1] = e
  BY AppendProperties, LenProperties
<1>2. \A k \in 1..Len(Append(q, e)) : k = Len(q) + 1 \/ k \in 1..Len(q)
  BY <1>1
<1>. QED
  BY <1>1, <1>2, Zenon

LEMMA QueueHead ==
  ASSUME NEW S, NEW q \in Seq(S), q # <<>>
  PROVE  /\ Head(q) \in S /\ Tail(q) \in Seq(S)
         /\ 1 \in 1..Len(q) /\ Head(q) = q[1]
         /\ \A k \in 1..Len(Tail(q)) : k + 1 \in 1..Len(q) /\ Tail(q)[k] = q[k + 1]
<1>1. Len(q) \in Nat /\ Len(q) # 0
  OBVIOUS
<1>2. 1 \in 1..Len(q) /\ Head(q) = q[1] /\ Head(q) \in S
  BY <1>1
<1>3. Tail(q) \in Seq(S) /\ Len(Tail(q)) = Len(q) - 1
  BY <1>1
<1>4. \A k \in 1..Len(Tail(q)) : k + 1 \in 1..Len(q) /\ Tail(q)[k] = q[k + 1]
  BY <1>1, <1>3
<1>. QED
  BY <1>2, <1>3, <1>4

Notices == [attempt : Attempts, outcome : Outcomes]

LEMMA PostedType ==
  ASSUME TypeInv, NEW c \in Installations, NEW news \in Notices
  PROVE  /\ posted \in [Installations -> Seq(Notices)]
         /\ posted' = [posted EXCEPT ![c] = Append(@, news)] => posted' \in [Installations -> Seq(Notices)]
         /\ posted[c] # <<>> => /\ Head(posted[c]) \in Notices
                                /\ [posted EXCEPT ![c] = Tail(@)] \in [Installations -> Seq(Notices)]
         /\ [posted EXCEPT ![c] = <<>>] \in [Installations -> Seq(Notices)]
<1>1. posted \in [Installations -> Seq(Notices)]
  BY DEF TypeInv, TypeOK, Notices
<1>2. Append(posted[c], news) \in Seq(Notices) /\ <<>> \in Seq(Notices)
  BY <1>1, QueueFacts
<1>3. posted[c] # <<>> => Head(posted[c]) \in Notices /\ Tail(posted[c]) \in Seq(Notices)
  BY <1>1, QueueHead
<1>. QED
  BY <1>1, <1>2, <1>3

LEMMA SubmitType ==
  ASSUME IntakeAssumption, TypeInv, NEW c \in Installations, NEW r \in Reports, Submit(c, r)
  PROVE  TypeInv'
<1>1. PICK s \in [attempt : Attempts, installation : Installations, report : Reports] :
         /\ sent' = sent \cup {s} /\ s.attempt = Cardinality(sent) + 1
         /\ attempt' = [attempt EXCEPT ![c] = s.attempt]
         /\ s.attempt \notin Known /\ s.installation = c /\ s.report = r
         /\ IsFiniteSet(sent') /\ Cardinality(sent') = Cardinality(sent) + 1
  BY SubmitNumbers
<1>2. /\ thread' = [thread EXCEPT ![c] = "authorizing"]
      /\ draft' = [draft EXCEPT ![c] = r] /\ enabled' = [enabled EXCEPT ![c] = FALSE]
      /\ UNCHANGED <<table, posted, thanked, requests, replies, handler, stored, faults>>
  BY DEF Submit
<1>3. TypeOK'
  BY <1>1, <1>2 DEF table, handler, TypeInv, TypeOK
<1>4. Known' = Known \cup {s.attempt}
  BY <1>1 DEF Known
<1>5. Cardinality(sent) \in Nat
  BY FS_CardinalityType DEF TypeInv, SentInv
<1>6. \A t \in sent' : t.attempt <= Cardinality(sent')
  BY <1>1, <1>5 DEF Attempts, TypeInv, TypeOK, SentInv
<1>7. \A t, u \in sent' : t.attempt = u.attempt => t = u
  BY <1>1 DEF Known, TypeInv, SentInv
<1>8. \A i \in Installations : thread'[i] # "stopped" => attempt'[i] \in Known'
  BY <1>1, <1>2, <1>4 DEF TypeInv, TypeOK, SentInv
<1>9. SentInv'
  BY <1>1, <1>2, <1>4, <1>6, <1>7, <1>8 DEF table, handler, TypeInv, SentInv
<1>. QED
  BY <1>3, <1>9 DEF TypeInv

LEMMA FormStep ==
  ASSUME IntakeAssumption, TypeInv, NEW c \in Installations,
         \/ \E r \in Reports : Submit(c, r)
         \/ Refuse(c) \/ Authorize(c) \/ Answer(c) \/ Inform(c) \/ Leave(c)
  PROVE  TypeInv'
<1> USE DEF table, client, handler
<1>1. CASE Refuse(c)
  BY <1>1 DEF Refuse, TypeInv, TypeOK, SentInv, Known
<1>2. CASE Authorize(c)
  <2>1. attempt[c] \in Known /\ attempt[c] \in Attempts
    BY <1>2, InThread DEF Authorize
  <2>2. /\ requests' \subseteq requests \cup {attempt[c]}
        /\ thread' \in {[thread EXCEPT ![c] = "waiting"], [thread EXCEPT ![c] = "stopped"]}
        /\ thread[c] # "stopped"
        /\ UNCHANGED <<table, enabled, draft, attempt, sent, thanked, replies, handler, stored,
                       faults>>
    BY <1>2 DEF Authorize, Post
  <2>3. posted' \in [Installations -> Seq(Notices)]
    <3>1. [attempt |-> attempt[c], outcome |-> "failed"] \in Notices
      BY <2>1 DEF Notices, Outcomes
    <3>. QED
      BY <1>2, <3>1, PostedType DEF Authorize, Post
  <2>. QED
    BY <2>1, <2>2, <2>3 DEF Notices, TypeInv, TypeOK, SentInv, Known
<1>3. CASE Answer(c)
  <2>1. attempt[c] \in Attempts
    BY <1>3, InThread DEF Answer
  <2>2. /\ replies' \subseteq replies
        /\ thread' = [thread EXCEPT ![c] = "stopped"]
        /\ UNCHANGED <<table, enabled, draft, attempt, sent, thanked, requests, handler, stored,
                       faults>>
    BY <1>3 DEF Answer, Post, Disconnect
  <2>3. PICK outcome \in Outcomes :
          posted' = [posted EXCEPT ![c] = Append(@, [attempt |-> attempt[c], outcome |-> outcome])]
    BY <1>3 DEF Answer, Post, Outcomes
  <2>4. posted' \in [Installations -> Seq(Notices)]
    BY <2>1, <2>3, PostedType DEF Notices
  <2>. QED
    BY <2>2, <2>4 DEF Notices, TypeInv, TypeOK, SentInv, Known
<1>4. CASE Inform(c)
  <2>1. /\ posted[c] # <<>>
        /\ posted' = [posted EXCEPT ![c] = Tail(@)]
        /\ enabled' = [enabled EXCEPT ![c] = TRUE]
        /\ draft' \in {draft, [draft EXCEPT ![c] = NoDraft]}
        /\ thanked' \subseteq thanked \cup {Head(posted[c]).attempt}
        /\ UNCHANGED <<table, attempt, thread, sent, requests, replies, handler, stored, faults>>
    BY <1>4 DEF Inform
  <2>2. /\ Head(posted[c]) \in Notices /\ posted' \in [Installations -> Seq(Notices)]
    <3>1. posted \in [Installations -> Seq(Notices)]
      BY DEF TypeInv, TypeOK, Notices
    <3>2. Head(posted[c]) \in Notices /\ Tail(posted[c]) \in Seq(Notices)
      BY <2>1, <3>1, QueueHead
    <3>. QED
      BY <2>1, <3>1, <3>2
  <2>3. Head(posted[c]).attempt \in Attempts
    BY <2>2 DEF Notices
  <2>. QED
    BY <2>1, <2>2, <2>3 DEF Notices, TypeInv, TypeOK, SentInv, Known
<1>5. CASE Leave(c)
  <2>1. /\ enabled' = [enabled EXCEPT ![c] = TRUE] /\ thread' = [thread EXCEPT ![c] = "stopped"]
        /\ posted' = [posted EXCEPT ![c] = <<>>] /\ replies' \subseteq replies
        /\ UNCHANGED <<table, draft, attempt, sent, thanked, requests, handler, stored, faults>>
    BY <1>5 DEF Leave, Disconnect
  <2>2. posted' \in [Installations -> Seq(Notices)]
    <3>1. posted \in [Installations -> Seq(Notices)]
      BY DEF TypeInv, TypeOK, Notices
    <3>2. <<>> \in Seq(Notices)
      OBVIOUS
    <3>. QED
      BY <2>1, <3>1, <3>2
  <2>. QED
    BY <2>1, <2>2 DEF Notices, TypeInv, TypeOK, SentInv, Known
<1>. QED
  BY <1>1, <1>2, <1>3, <1>4, <1>5, SubmitType

LEMMA TypeStep ==
  ASSUME IntakeAssumption, TypeInv, [Next]_vars
  PROVE  TypeInv'
<1> USE DEF table, client, handler, TypeInv, TypeOK, SentInv
<1>1. ASSUME NEW a, Age(a) \/ Delete(a) PROVE TypeInv'
  BY <1>1 DEF Age, Delete, Known
<1>2. ASSUME NEW m \in Manual, Create(m) PROVE TypeInv'
  <2>1. faults' \in 0..MaxFaults
    BY <1>2, FaultType DEF Create
  <2>. QED
    BY <1>2, <2>1 DEF Create, Known
<1>3. CASE UNCHANGED vars
  BY <1>3 DEF vars, Known
<1>. QED
  BY <1>1, <1>2, <1>3, HandlerStep, FormStep DEF Next

\* Every variable stays in its range; what is stored was sent, and consumed its
\* authorization.
THEOREM TypeCorrect ==
  ASSUME IntakeAssumption
  PROVE  Spec => []TypeInv
<1>1. Init => TypeInv
  BY FS_EmptySet DEF Init, TypeInv, TypeOK, SentInv, Known, IntakeAssumption
<1>2. TypeInv /\ [Next]_vars => TypeInv'
  BY TypeStep
<1>. QED
  BY <1>1, <1>2, PTL DEF Spec

-----------------------------------------------------------------------------
(* Answers. *)

\* An answer that says success is the receipt of a row that was stored, and so is
\* what the thread took for success and posted.
RepliesInv ==
  \A r \in replies : Succeeded(r.status) => r.receipt = r.attempt /\ r.attempt \in stored

Told(c) == {posted[c][i] : i \in 1..Len(posted[c])}

PostedInv ==
  \A c \in Installations : \A news \in Told(c) :
    /\ news.attempt \in MadeBy(c)
    /\ news.outcome = "succeeded" => news.attempt \in stored

\* The draft of an attempt is saved until the form gives thanks.
Drafted(c) ==
  \/ thanked \cap MadeBy(c) # {}
  \/ \E s \in sent : s.attempt = attempt[c] /\ s.report = draft[c]

DraftInv ==
  \A c \in Installations :
    attempt[c] # NoAttempt => attempt[c] \in MadeBy(c) /\ Drafted(c)

AnswerInv == RepliesInv /\ PostedInv /\ thanked \subseteq stored /\ DraftInv

\* Only an insert and a lookup that found the row answer with success.
LEMMA AnswersOfHandlers ==
  ASSUME IntakeAssumption, TypeInv, AnswerInv, NEW h \in Handlers,
         \/ VerifyToken(h) \/ CheckRate(h) \/ CheckGlobalRate(h) \/ CheckCapacity(h)
         \/ Insert(h) \/ Fails(h) \/ Lookup(h) \/ Receive(h) \/ Kill(h)
  PROVE  AnswerInv'
<1> USE DEF table, client, handler
<1>1. \A r \in replies' \ replies :
        Succeeded(r.status) => r.receipt = r.attempt /\ r.attempt \in stored'
  <2>1. CASE VerifyToken(h) \/ CheckRate(h) \/ CheckGlobalRate(h) \/ CheckCapacity(h) \/ Fails(h)
    <3>1. \/ replies' = replies
          \/ \E status \in {401, 429, 503, 500} : Reply(h, status, NoAttempt)
      BY <2>1 DEF VerifyToken, CheckRate, CheckGlobalRate, CheckCapacity, Fails, Continue
    <3>. QED
      BY <3>1 DEF Reply, Succeeded
  <2>2. CASE Insert(h)
    <3>1. \/ replies' = replies
          \/ Reply(h, 201, serving[h]) /\ stored' = stored \cup {serving[h]}
      BY <2>2 DEF Insert, Continue, InsertRow
    <3>. QED
      BY <3>1 DEF Reply
  <2>3. CASE Lookup(h)
    <3>1. \/ Reply(h, 409, NoAttempt)
          \/ \E receipt \in rows : receipt = serving[h] /\ Reply(h, 200, receipt)
      BY <2>3 DEF Lookup, SameIdentifier
    <3>2. rows \subseteq stored /\ stored' = stored
      BY <2>3 DEF TypeInv, TypeOK, Lookup
    <3>. QED
      BY <3>1, <3>2 DEF Reply, Succeeded
  <2>4. CASE Receive(h) \/ Kill(h)
    BY <2>4 DEF Receive, Kill
  <2>. QED
    BY <2>1, <2>2, <2>3, <2>4
<1>2. stored \subseteq stored' /\ UNCHANGED client
  BY DEF VerifyToken, CheckRate, CheckGlobalRate, CheckCapacity, Insert, Fails, Lookup,
         Receive, Kill, InsertRow
<1>3. RepliesInv'
  BY <1>1, <1>2 DEF AnswerInv, RepliesInv
<1>4. PostedInv' /\ (thanked \subseteq stored)' /\ DraftInv'
  BY <1>2 DEF AnswerInv, PostedInv, DraftInv, Drafted, Told, MadeBy
<1>. QED
  BY <1>3, <1>4 DEF AnswerInv

LEMMA AnswersOfSubmit ==
  ASSUME IntakeAssumption, TypeInv, AnswerInv, NEW c \in Installations, NEW r \in Reports,
         Submit(c, r)
  PROVE  AnswerInv'
<1>1. PICK s \in [attempt : Attempts, installation : Installations, report : Reports] :
         /\ sent' = sent \cup {s} /\ attempt' = [attempt EXCEPT ![c] = s.attempt]
         /\ s.attempt \notin Known /\ s.installation = c /\ s.report = r
  BY SubmitNumbers
<1>2. draft' = [draft EXCEPT ![c] = r] /\ UNCHANGED <<posted, thanked, stored, replies>>
  BY DEF Submit
<1>3. \A i \in Installations : MadeBy(i) \subseteq MadeBy(i)'
  BY <1>1 DEF MadeBy
<1>4. RepliesInv' /\ (thanked \subseteq stored)'
  BY <1>2 DEF AnswerInv, RepliesInv
<1>5. PostedInv'
  BY <1>2, <1>3 DEF AnswerInv, PostedInv, Told
<1>6. ASSUME NEW i \in Installations, attempt'[i] # NoAttempt
      PROVE  attempt'[i] \in MadeBy(i)' /\ Drafted(i)'
  <2>1. CASE i = c
    <3>1. attempt'[i] = s.attempt /\ draft'[i] = s.report /\ s \in sent' /\ s.installation = i
      BY <1>1, <1>2, <2>1 DEF TypeInv, TypeOK
    <3>2. attempt'[i] \in MadeBy(i)'
      BY <3>1 DEF MadeBy
    <3>. QED
      BY <3>1, <3>2 DEF Drafted
  <2>2. CASE i # c
    <3>1. attempt'[i] = attempt[i] /\ draft'[i] = draft[i]
      BY <1>1, <1>2, <2>2 DEF TypeInv, TypeOK
    <3>2. attempt[i] \in MadeBy(i) /\ Drafted(i)
      BY <1>6, <3>1 DEF AnswerInv, DraftInv
    <3>. QED
      BY <1>1, <1>2, <1>3, <3>1, <3>2 DEF Drafted
  <2>. QED
    BY <2>1, <2>2
<1>. QED
  BY <1>4, <1>5, <1>6 DEF AnswerInv, DraftInv

\* What is told afterwards was told before, or posted just now.
LEMMA ToldOnce ==
  ASSUME TypeInv, NEW c \in Installations,
         NEW news \in Notices
  PROVE  /\ posted' = [posted EXCEPT ![c] = Append(@, news)] =>
              \A i \in Installations : Told(i)' \subseteq Told(i) \cup (IF i = c THEN {news} ELSE {})
         /\ posted' = [posted EXCEPT ![c] = Tail(@)] /\ posted[c] # <<>> =>
              \A i \in Installations : Told(i)' \subseteq Told(i)
         /\ posted' = [posted EXCEPT ![c] = <<>>] =>
              \A i \in Installations : Told(i)' \subseteq Told(i)
         /\ posted[c] # <<>> => Head(posted[c]) \in Told(c)
<1>1. \A i \in Installations : posted[i] \in Seq(Notices)
  BY DEF TypeInv, TypeOK, Notices
<1>2. DOMAIN posted = Installations
  BY DEF TypeInv, TypeOK
<1>3. ASSUME posted' = [posted EXCEPT ![c] = Append(@, news)], NEW i \in Installations
      PROVE  Told(i)' \subseteq Told(i) \cup (IF i = c THEN {news} ELSE {})
  <2>1. CASE i # c
    BY <1>2, <1>3, <2>1 DEF Told
  <2>2. CASE i = c
    <3>1. posted'[c] = Append(posted[c], news)
      BY <1>2, <1>3
    <3>2. \A k \in 1..Len(posted'[c]) :
            posted'[c][k] = news \/ (k \in 1..Len(posted[c]) /\ posted'[c][k] = posted[c][k])
      BY <1>1, <3>1, QueueFacts
    <3>. QED
      BY <2>2, <3>2 DEF Told
  <2>. QED
    BY <2>1, <2>2
<1>4. ASSUME posted' = [posted EXCEPT ![c] = Tail(@)], posted[c] # <<>>, NEW i \in Installations
      PROVE  Told(i)' \subseteq Told(i)
  <2>1. CASE i # c
    BY <1>2, <1>4, <2>1 DEF Told
  <2>2. CASE i = c
    <3>1. posted'[c] = Tail(posted[c])
      BY <1>2, <1>4
    <3>2. \A k \in 1..Len(posted'[c]) :
            k + 1 \in 1..Len(posted[c]) /\ posted'[c][k] = posted[c][k + 1]
      BY <1>1, <1>4, <3>1, QueueHead
    <3>. QED
      BY <2>2, <3>2 DEF Told
  <2>. QED
    BY <2>1, <2>2
<1>5. ASSUME posted' = [posted EXCEPT ![c] = <<>>], NEW i \in Installations
      PROVE  Told(i)' \subseteq Told(i)
  <2>1. posted'[i] = posted[i] \/ posted'[i] = <<>>
    BY <1>2, <1>5
  <2>. QED
    BY <2>1 DEF Told
<1>6. ASSUME posted[c] # <<>> PROVE Head(posted[c]) \in Told(c)
  <2>1. 1 \in 1..Len(posted[c]) /\ Head(posted[c]) = posted[c][1]
    BY <1>1, <1>6, QueueHead
  <2>. QED
    BY <2>1 DEF Told
<1>. QED
  BY <1>3, <1>4, <1>5, <1>6

\* The thread posts success only for a success that it read on its own connection.
LEMMA AnswersOfThread ==
  ASSUME IntakeAssumption, TypeInv, AnswerInv, NEW c \in Installations,
         Authorize(c) \/ Answer(c)
  PROVE  AnswerInv'
<1> USE DEF table, client, handler
<1>1. /\ replies' \subseteq replies
      /\ UNCHANGED <<draft, attempt, sent, thanked, stored>>
      /\ thread[c] # "stopped"
  BY DEF Authorize, Answer, Disconnect
<1>2. attempt[c] \in Attempts /\ attempt[c] \in MadeBy(c)
  <2>1. attempt[c] \in Known /\ attempt[c] \in Attempts
    BY <1>1 DEF TypeInv, TypeOK, SentInv, Known
  <2>2. attempt[c] # NoAttempt
    BY <2>1 DEF Attempts, NoAttempt
  <2>. QED
    BY <2>1, <2>2 DEF AnswerInv, DraftInv
<1>3. UNCHANGED posted \/ \E outcome \in Outcomes :
        /\ posted' = [posted EXCEPT ![c] = Append(@, [attempt |-> attempt[c], outcome |-> outcome])]
        /\ outcome = "succeeded" => attempt[c] \in stored
  <2>1. CASE Authorize(c)
    BY <2>1 DEF Authorize, Post, Outcomes
  <2>2. CASE Answer(c)
    <3>1. \/ \E r \in replies :
                r.attempt = attempt[c] /\ Post(c, IF Succeeded(r.status) THEN "succeeded" ELSE "failed")
          \/ Post(c, "failed")
      BY <2>2 DEF Answer
    <3>. QED
      BY <3>1 DEF Post, Outcomes, AnswerInv, RepliesInv
  <2>. QED
    BY <2>1, <2>2
<1>4. PostedInv'
  <2>1. CASE UNCHANGED posted
    BY <1>1, <2>1 DEF AnswerInv, PostedInv, Told, MadeBy
  <2>2. ASSUME NEW outcome \in Outcomes, outcome = "succeeded" => attempt[c] \in stored,
               posted' = [posted EXCEPT ![c] =
                            Append(@, [attempt |-> attempt[c], outcome |-> outcome])]
        PROVE  PostedInv'
    <3>. DEFINE news == [attempt |-> attempt[c], outcome |-> outcome]
    <3>1. news \in Notices
      BY <1>2 DEF Notices
    <3>2. \A i \in Installations : Told(i)' \subseteq Told(i) \cup (IF i = c THEN {news} ELSE {})
      BY <2>2, <3>1, ToldOnce
    <3>3. \A i : MadeBy(i)' = MadeBy(i)
      BY <1>1 DEF MadeBy
    <3>. QED
      BY <1>1, <1>2, <2>2, <3>2, <3>3 DEF AnswerInv, PostedInv
  <2>. QED
    BY <1>3, <2>1, <2>2
<1>5. RepliesInv' /\ (thanked \subseteq stored)' /\ DraftInv'
  BY <1>1 DEF AnswerInv, RepliesInv, DraftInv, Drafted, MadeBy
<1>. QED
  BY <1>4, <1>5 DEF AnswerInv

\* A success clears the draft and gives thanks for what was stored.
LEMMA AnswersOfForm ==
  ASSUME IntakeAssumption, TypeInv, AnswerInv, NEW c \in Installations, Inform(c) \/ Leave(c)
  PROVE  AnswerInv'
<1> USE DEF table, client, handler
<1>1. CASE Leave(c)
  <2>1. /\ replies' \subseteq replies /\ posted' = [posted EXCEPT ![c] = <<>>]
        /\ UNCHANGED <<draft, attempt, sent, thanked, stored>>
    BY <1>1 DEF Leave, Disconnect
  <2>2. \A i \in Installations : posted'[i] = posted[i] \/ posted'[i] = <<>>
    BY <2>1 DEF TypeInv, TypeOK
  <2>3. \A i \in Installations : Told(i)' \subseteq Told(i)
    BY <2>2 DEF Told
  <2>4. PostedInv'
    BY <2>1, <2>3 DEF AnswerInv, PostedInv, MadeBy
  <2>5. RepliesInv' /\ (thanked \subseteq stored)' /\ DraftInv'
    BY <2>1 DEF AnswerInv, RepliesInv, DraftInv, Drafted, MadeBy
  <2>. QED
    BY <2>4, <2>5 DEF AnswerInv
<1>2. CASE Inform(c)
  <2>. DEFINE news == Head(posted[c])
  <2>1. /\ posted[c] # <<>> /\ posted' = [posted EXCEPT ![c] = Tail(@)]
        /\ UNCHANGED <<attempt, sent, stored, replies>>
        /\ \/ UNCHANGED <<draft, thanked>>
           \/ /\ news.outcome = "succeeded" /\ thanked' = thanked \cup {news.attempt}
              /\ draft' = [draft EXCEPT ![c] = NoDraft]
    BY <1>2 DEF Inform
  <2>2. news \in Notices
    <3>1. posted[c] \in Seq(Notices)
      BY DEF TypeInv, TypeOK, Notices
    <3>. QED
      BY <2>1, <3>1, QueueHead
  <2>3. news \in Told(c) /\ \A i \in Installations : Told(i)' \subseteq Told(i)
    BY <2>1, <2>2, ToldOnce
  <2>4. PostedInv' /\ RepliesInv'
    BY <2>1, <2>3 DEF AnswerInv, PostedInv, RepliesInv, MadeBy
  <2>5. news.attempt \in MadeBy(c) /\ (news.outcome = "succeeded" => news.attempt \in stored)
    BY <2>3 DEF AnswerInv, PostedInv
  <2>6. (thanked \subseteq stored)'
    BY <2>1, <2>5 DEF AnswerInv
  <2>7. \A i : MadeBy(i)' = MadeBy(i)
    BY <2>1 DEF MadeBy
  <2>8. ASSUME NEW i \in Installations, attempt'[i] # NoAttempt
        PROVE  attempt'[i] \in MadeBy(i)' /\ Drafted(i)'
    <3>1. attempt[i] \in MadeBy(i) /\ Drafted(i)
      BY <2>1, <2>8 DEF AnswerInv, DraftInv
    <3>2. CASE draft'[i] = draft[i]
      BY <2>1, <2>7, <3>1, <3>2 DEF Drafted
    <3>3. CASE draft'[i] # draft[i]
      <4>1. i = c /\ news.attempt \in thanked'
        BY <2>1, <3>3 DEF TypeInv, TypeOK
      <4>. QED
        BY <2>1, <2>5, <2>7, <3>1, <4>1 DEF Drafted
    <3>. QED
      BY <3>2, <3>3
  <2>. QED
    BY <2>4, <2>6, <2>8 DEF AnswerInv, DraftInv
<1>. QED
  BY <1>1, <1>2

LEMMA AnswerStep ==
  ASSUME IntakeAssumption, TypeInv, AnswerInv, [Next]_vars
  PROVE  AnswerInv'
<1> USE DEF table, client, handler
<1>1. ASSUME \/ \E c \in Installations : Refuse(c)
             \/ \E a \in Attempts \cup Manual : Age(a) \/ Delete(a)
             \/ \E m \in Manual : Create(m)
             \/ UNCHANGED vars
      PROVE  AnswerInv'
  <2>1. /\ UNCHANGED <<draft, attempt, posted, sent, thanked, replies>>
        /\ stored \subseteq stored'
    BY <1>1 DEF Refuse, Age, Delete, Create, vars
  <2>2. PostedInv' /\ RepliesInv' /\ (thanked \subseteq stored)' /\ DraftInv'
    BY <2>1 DEF AnswerInv, PostedInv, RepliesInv, DraftInv, Drafted, Told, MadeBy
  <2>. QED
    BY <2>2 DEF AnswerInv
<1>. QED
  BY <1>1, AnswersOfHandlers, AnswersOfSubmit, AnswersOfThread, AnswersOfForm DEF Next

LEMMA AnswersHold ==
  ASSUME IntakeAssumption
  PROVE  Spec => []AnswerInv
<1>1. Init => AnswerInv
  BY DEF Init, AnswerInv, RepliesInv, PostedInv, Told, DraftInv
<1>2. TypeInv /\ AnswerInv /\ [Next]_vars => AnswerInv'
  BY AnswerStep
<1>. QED
  BY <1>1, <1>2, TypeCorrect, PTL DEF Spec

\* What belongs to a number is the one record of it.
LEMMA TheRecordOf ==
  ASSUME SentInv, NEW s \in sent
  PROVE  InstallationOf(s.attempt) = s.installation /\ ReportOf(s.attempt) = s.report
<1>1. (CHOOSE t \in sent : t.attempt = s.attempt) = s
  BY DEF SentInv
<1>. QED
  BY <1>1 DEF InstallationOf, ReportOf

\* What a form gives thanks for was stored, and it lets go of no draft before it has
\* given thanks, however late the answer.
THEOREM NoDraftLost ==
  ASSUME IntakeAssumption
  PROVE  Spec => []SuccessMeansStored
<1>1. ASSUME TypeInv, AnswerInv PROVE SuccessMeansStored
  <2>1. ASSUME NEW c \in Installations, attempt[c] # NoAttempt
        PROVE  \/ draft[c] = ReportOf(attempt[c])
               \/ \E a \in thanked : InstallationOf(a) = c
    <3>1. Drafted(c)
      BY <1>1, <2>1 DEF AnswerInv, DraftInv
    <3>2. ASSUME NEW a \in thanked \cap MadeBy(c) PROVE InstallationOf(a) = c
      BY <1>1, <3>2, TheRecordOf DEF MadeBy, TypeInv
    <3>3. ASSUME NEW s \in sent, s.attempt = attempt[c], s.report = draft[c]
          PROVE  draft[c] = ReportOf(attempt[c])
      BY <1>1, <3>3, TheRecordOf DEF TypeInv
    <3>. QED
      BY <3>1, <3>2, <3>3 DEF Drafted
  <2>. QED
    BY <1>1, <2>1 DEF SuccessMeansStored, AnswerInv
<1>. QED
  BY <1>1, AnswersHold, TypeCorrect, PTL

\* The same request delivered twice gets the receipt of its own row.
THEOREM ReceiptIsOwn ==
  ASSUME IntakeAssumption
  PROVE  Spec => []OwnReceipt
<1>1. AnswerInv => OwnReceipt
  BY DEF AnswerInv, RepliesInv, OwnReceipt
<1>. QED
  BY <1>1, AnswersHold, PTL

\* A row that was deleted is not brought back: its authorization stays consumed.
THEOREM NothingComesBack ==
  ASSUME IntakeAssumption
  PROVE  Spec => DeletedStaysDeleted
<1>1. TypeInv /\ [Next]_vars => [\A a \in stored \ rows : a \notin rows']_vars
  <2>. SUFFICES ASSUME TypeInv, Next, NEW a \in stored \ rows PROVE a \notin rows'
    OBVIOUS
  <2>. USE DEF table, client, handler
  <2>1. ASSUME NEW h \in Handlers, pc[h] # "idle",
               UNCHANGED rows \/ (~Refused(serving[h]) /\ InsertRow(serving[h]))
        PROVE  a \notin rows'
    <3>1. serving[h] \in Attempts /\ serving[h] \notin Manual
      BY <2>1, InHand DEF IntakeAssumption, Attempts
    <3>2. a \in Manual \/ a \in consumed
      BY DEF TypeInv, TypeOK
    <3>. QED
      BY <2>1, <3>1, <3>2 DEF Refused, InsertRow
  <2>2. ASSUME NEW h \in Handlers, Insert(h) \/ Fails(h) PROVE a \notin rows'
    BY <2>1, <2>2 DEF Insert, Fails
  <2>4. ASSUME NEW m \in Manual, Create(m) PROVE a \notin rows'
    BY <2>4 DEF Create
  <2>3. CASE ~(\E h \in Handlers : Insert(h) \/ Fails(h)) /\ ~\E m \in Manual : Create(m)
    <3>1. rows' \subseteq rows
      BY <2>3 DEF Next, Submit, Refuse, Authorize, Answer, Inform, Leave, Receive,
                        VerifyToken, CheckRate, CheckGlobalRate, CheckCapacity, Lookup, Kill, Age,
                        Delete
    <3>. QED
      BY <3>1
  <2>. QED
    BY <2>2, <2>3, <2>4
<1>. QED
  BY <1>1, TypeCorrect, PTL DEF Spec, DeletedStaysDeleted

-----------------------------------------------------------------------------
(* The limits. *)

\* What is counted against a limit, with the invocations that are past the check of
\* that limit and may still add to it.
Within(S, P, limit) == Cardinality(S) + Cardinality(P) <= limit + (Cardinality(Handlers) - 1)

\* A step keeps that when it takes from either, when an invocation that is past the
\* check adds what it has in hand and is done, or when the check is passed.
LEMMA WithinStep ==
  ASSUME IntakeAssumption, NEW limit \in Nat,
         NEW S, IsFiniteSet(S), NEW P \in SUBSET Handlers,
         NEW T, NEW Q \in SUBSET Handlers,
         \/ Within(S, P, limit) /\ T \subseteq S /\ Q \subseteq P
         \/ \E a, h : /\ Within(S, P, limit)
                      /\ h \in P /\ T \subseteq S \cup {a} /\ Q \subseteq P \ {h}
         \/ T \subseteq S /\ ~AtLimit(Cardinality(S), limit)
  PROVE  Within(T, Q, limit)
<1>1. IsFiniteSet(Handlers) /\ IsFiniteSet(P) /\ IsFiniteSet(Q)
  BY FS_Subset DEF IntakeAssumption
<1>2. /\ Cardinality(S) \in Nat /\ Cardinality(P) \in Nat /\ Cardinality(Q) \in Nat
      /\ Cardinality(Handlers) \in Nat
  BY <1>1, FS_CardinalityType
<1>3. CASE Within(S, P, limit) /\ T \subseteq S /\ Q \subseteq P
  <2>1. Cardinality(T) <= Cardinality(S) /\ Cardinality(Q) <= Cardinality(P)
    BY <1>1, <1>3, FS_Subset
  <2>2. Cardinality(T) \in Nat
    BY <1>3, FS_Subset, FS_CardinalityType
  <2>. QED
    BY <1>2, <1>3, <2>1, <2>2, IntakeAssumption DEF Within
<1>4. ASSUME NEW a, NEW h, Within(S, P, limit),
             h \in P, T \subseteq S \cup {a}, Q \subseteq P \ {h}
      PROVE  Within(T, Q, limit)
  <2>1. IsFiniteSet(S \cup {a}) /\ Cardinality(S \cup {a}) <= Cardinality(S) + 1
    <3>1. IsFiniteSet(S \cup {a})
      BY FS_AddElement
    <3>2. Cardinality(S \cup {a}) = IF a \in S THEN Cardinality(S) ELSE Cardinality(S) + 1
      BY FS_AddElement
    <3>. QED
      BY <1>2, <3>1, <3>2
  <2>2. /\ IsFiniteSet(T) /\ Cardinality(T) <= Cardinality(S \cup {a})
        /\ Cardinality(T) \in Nat /\ Cardinality(S \cup {a}) \in Nat
    BY <1>4, <2>1, FS_Subset, FS_CardinalityType
  <2>3. IsFiniteSet(P \ {h}) /\ Cardinality(P \ {h}) = Cardinality(P) - 1
    BY <1>1, <1>4, FS_RemoveElement
  <2>4. Cardinality(Q) <= Cardinality(P \ {h})
    BY <1>4, <2>3, FS_Subset
  <2>. QED
    BY <1>2, <1>4, <2>1, <2>2, <2>3, <2>4 DEF Within
<1>5. CASE T \subseteq S /\ ~AtLimit(Cardinality(S), limit)
  <2>1. Cardinality(T) <= Cardinality(S) /\ Cardinality(T) \in Nat
    BY <1>5, FS_Subset, FS_CardinalityType
  <2>2. Cardinality(Q) <= Cardinality(Handlers)
    BY <1>1, FS_Subset
  <2>. QED
    BY <1>2, <1>5, <2>1, <2>2 DEF Within, AtLimit
<1>. QED
  BY <1>3, <1>4, <1>5

\* The excess over a limit is what the other invocations had in hand.
LEMMA WithinBounds ==
  ASSUME IntakeAssumption, NEW limit \in Nat, NEW S, IsFiniteSet(S), NEW P \in SUBSET Handlers,
         Within(S, P, limit)
  PROVE  Cardinality(S) <= limit + (Cardinality(Handlers) - 1)
<1>1. IsFiniteSet(P) /\ IsFiniteSet(Handlers)
  BY FS_Subset DEF IntakeAssumption
<1>2. Cardinality(P) \in Nat /\ Cardinality(S) \in Nat /\ Cardinality(Handlers) \in Nat
  BY <1>1, FS_CardinalityType
<1>. QED
  BY <1>2 DEF Within

\* The installation that a number belongs to stays the same.
LEMMA InstallationOfOne ==
  ASSUME NEW S, \A s, t \in S : s.attempt = t.attempt => s = t, NEW s \in S
  PROVE  (CHOOSE t \in S : t.attempt = s.attempt) = s
OBVIOUS

Serving(h, c) == InstallationOf(serving[h]) = c

\* The invocations past the check of a limit, and not yet done.
PastStorage         == {h \in Handlers : \/ pc[h] = "insert"
                                         \/ pc[h] = "capacity" /\ "storage" \notin unread[h]}
PastGlobalRate      == {h \in Handlers : pc[h] \in {"capacity", "insert"}}
PastInstallation(c) == {h \in Handlers : /\ Serving(h, c)
                                         /\ \/ pc[h] = "insert"
                                            \/ pc[h] = "capacity" /\ "installation" \notin unread[h]}
PastRate(c)         == {h \in Handlers : /\ Serving(h, c)
                                         /\ pc[h] \in {"globalRate", "capacity", "insert"}}

LimitsInv ==
  /\ Within(rows \ Manual, PastStorage, MaximumStored)
  /\ Within(recent \ Manual, PastGlobalRate, MaxSubmissionsPerHour)
  /\ \A c \in Installations :
       /\ Within(RowsOf(c), PastInstallation(c), MaximumPerInstallation)
       /\ Within(recent \cap RowsOf(c), PastRate(c), SubmissionsPerHour)

LEMMA RowsFinite ==
  ASSUME IntakeAssumption, TypeInv
  PROVE  /\ IsFiniteSet(rows \ Manual) /\ IsFiniteSet(recent \ Manual)
         /\ \A c : IsFiniteSet(RowsOf(c)) /\ IsFiniteSet(recent \cap RowsOf(c))
<1>1. IsFiniteSet(Attempts)
  BY FS_Interval DEF Attempts, IntakeAssumption
<1>2. /\ rows \ Manual \subseteq Attempts /\ recent \ Manual \subseteq rows \ Manual
      /\ \A c : RowsOf(c) \subseteq rows \ Manual
  BY DEF TypeInv, TypeOK, RowsOf
<1>3. IsFiniteSet(rows \ Manual)
  BY <1>1, <1>2, FS_Subset
<1>. QED
  BY <1>2, <1>3, FS_Subset

\* The checks count the rows of the administrator too, and are the stricter for it.
LEMMA ManualRowsCount ==
  ASSUME IntakeAssumption, TypeInv, NEW limit \in Nat
  PROVE  /\ ~AtLimit(Cardinality(rows), limit) => ~AtLimit(Cardinality(rows \ Manual), limit)
         /\ ~AtLimit(Cardinality(recent), limit) => ~AtLimit(Cardinality(recent \ Manual), limit)
<1>1. IsFiniteSet(Attempts)
  BY FS_Interval DEF Attempts, IntakeAssumption
<1>2. IsFiniteSet(Attempts \cup Manual)
  BY <1>1, FS_Union DEF IntakeAssumption
<1>3. IsFiniteSet(rows) /\ IsFiniteSet(recent)
  BY <1>2, FS_Subset DEF TypeInv, TypeOK
<1>4. /\ Cardinality(rows \ Manual) <= Cardinality(rows)
      /\ Cardinality(recent \ Manual) <= Cardinality(recent)
      /\ IsFiniteSet(rows \ Manual) /\ IsFiniteSet(recent \ Manual)
  BY <1>3, FS_Subset
<1>5. /\ Cardinality(rows \ Manual) \in Nat /\ Cardinality(rows) \in Nat
      /\ Cardinality(recent \ Manual) \in Nat /\ Cardinality(recent) \in Nat
  BY <1>3, <1>4, FS_CardinalityType
<1>. QED
  BY <1>4, <1>5 DEF AtLimit

LEMMA InstallationsStay ==
  ASSUME IntakeAssumption, TypeInv, [Next]_vars
  PROVE  \A a \in Known : InstallationOf(a)' = InstallationOf(a)
<1>1. sent \subseteq sent'
  BY DEF Next, vars, client, Submit, Refuse, Authorize, Answer, Inform, Leave, Receive,
         VerifyToken, CheckRate, CheckGlobalRate, CheckCapacity, Insert, Fails, Lookup, Kill, Age,
         Delete, Create
<1>2. SentInv /\ SentInv'
  BY TypeStep DEF TypeInv
<1>3. ASSUME NEW s \in sent PROVE InstallationOf(s.attempt)' = InstallationOf(s.attempt)
  <2>1. (CHOOSE t \in sent : t.attempt = s.attempt) = s
    BY <1>2, InstallationOfOne DEF SentInv
  <2>2. \A t, u \in sent' : t.attempt = u.attempt => t = u
    BY <1>2 DEF SentInv
  <2>3. (CHOOSE t \in sent' : t.attempt = s.attempt) = s
    BY <1>1, <2>2, InstallationOfOne
  <2>. QED
    BY <2>1, <2>3 DEF InstallationOf
<1>. QED
  BY <1>3 DEF Known

LEMMA RowsOfNext ==
  ASSUME IntakeAssumption, TypeInv, [Next]_vars, rows' \ Manual \subseteq Known, NEW c
  PROVE  RowsOf(c)' = {a \in rows' \ Manual : InstallationOf(a) = c}
<1>1. \A a \in Known : InstallationOf(a)' = InstallationOf(a)
  BY InstallationsStay
<1>2. \A a \in rows' \ Manual : InstallationOf(a)' = InstallationOf(a)
  BY <1>1
<1>3. RowsOf(c)' = {a \in rows' \ Manual : InstallationOf(a)' = c}
  BY DEF RowsOf, InstallationOf
<1>. QED
  BY <1>2, <1>3

\* An invocation that does nothing stays where it is.
LEMMA PastStays ==
  ASSUME IntakeAssumption, TypeInv, [Next]_vars, NEW i \in Handlers,
         pc'[i] = pc[i], serving'[i] = serving[i], unread'[i] = unread[i]
  PROVE  /\ i \in PastStorage' => i \in PastStorage
         /\ i \in PastGlobalRate' => i \in PastGlobalRate
         /\ \A c : /\ i \in PastInstallation(c)' => i \in PastInstallation(c)
                   /\ i \in PastRate(c)' => i \in PastRate(c)
<1>1. /\ i \in PastStorage' => i \in PastStorage
      /\ i \in PastGlobalRate' => i \in PastGlobalRate
  BY DEF PastStorage, PastGlobalRate
<1>2. CASE pc[i] = "idle"
  BY <1>1, <1>2 DEF PastInstallation, PastRate
<1>3. CASE pc[i] # "idle"
  <2>1. InstallationOf(serving[i])' = InstallationOf(serving[i])
    <3>1. \A a \in Known : InstallationOf(a)' = InstallationOf(a)
      BY InstallationsStay
    <3>2. serving[i] \in Known
      BY <1>3, InHand
    <3>. QED
      BY <3>1, <3>2 DEF InstallationOf
  <2>2. \A c : Serving(i, c)' <=> Serving(i, c)
    BY <2>1 DEF Serving
  <2>. QED
    BY <1>1, <2>2 DEF PastInstallation, PastRate
<1>. QED
  BY <1>2, <1>3

\* The four sets of invocations, and what a step of h can add to them and take away.
LEMMA PastOfOthers ==
  ASSUME IntakeAssumption, TypeInv, [Next]_vars, NEW h \in Handlers,
         \A i \in Handlers \ {h} :
           pc'[i] = pc[i] /\ serving'[i] = serving[i] /\ unread'[i] = unread[i]
  PROVE  /\ PastStorage' \subseteq PastStorage \cup {h}
         /\ PastGlobalRate' \subseteq PastGlobalRate \cup {h}
         /\ \A c : /\ PastInstallation(c)' \subseteq PastInstallation(c) \cup {h}
                   /\ PastRate(c)' \subseteq PastRate(c) \cup {h}
<1>1. /\ PastStorage' \subseteq Handlers /\ PastGlobalRate' \subseteq Handlers
      /\ \A c : PastInstallation(c)' \subseteq Handlers /\ PastRate(c)' \subseteq Handlers
  BY DEF PastStorage, PastGlobalRate, PastInstallation, PastRate
<1>2. \A i \in Handlers \ {h} :
        /\ i \in PastStorage' => i \in PastStorage
        /\ i \in PastGlobalRate' => i \in PastGlobalRate
        /\ \A c : /\ i \in PastInstallation(c)' => i \in PastInstallation(c)
                  /\ i \in PastRate(c)' => i \in PastRate(c)
  BY PastStays
<1>. QED
  BY <1>1, <1>2

\* A step that neither stores anything nor passes a check.
LEMMA LimitsKept ==
  ASSUME IntakeAssumption, TypeInv, LimitsInv, [Next]_vars,
         rows' \ Manual \subseteq rows, recent' \ Manual \subseteq recent,
         PastStorage' \subseteq PastStorage, PastGlobalRate' \subseteq PastGlobalRate,
         \A c : /\ PastInstallation(c)' \subseteq PastInstallation(c)
                /\ PastRate(c)' \subseteq PastRate(c)
  PROVE  LimitsInv'
<1>1. /\ {MaximumStored, MaxSubmissionsPerHour, MaximumPerInstallation, SubmissionsPerHour} \subseteq Nat
      /\ PastStorage \subseteq Handlers /\ PastGlobalRate \subseteq Handlers
      /\ \A c : PastInstallation(c) \subseteq Handlers /\ PastRate(c) \subseteq Handlers
  BY DEF IntakeAssumption, PastStorage, PastGlobalRate, PastInstallation, PastRate
<1>2. /\ IsFiniteSet(rows \ Manual) /\ IsFiniteSet(recent \ Manual)
      /\ \A c : IsFiniteSet(RowsOf(c)) /\ IsFiniteSet(recent \cap RowsOf(c))
  BY RowsFinite
<1>3. Within(rows' \ Manual, PastStorage', MaximumStored)
  <2>1. rows' \ Manual \subseteq rows \ Manual
    OBVIOUS
  <2>. QED
    BY <1>1, <1>2, <2>1, WithinStep DEF LimitsInv
<1>4. Within(recent' \ Manual, PastGlobalRate', MaxSubmissionsPerHour)
  <2>1. recent' \ Manual \subseteq recent \ Manual
    OBVIOUS
  <2>. QED
    BY <1>1, <1>2, <2>1, WithinStep DEF LimitsInv
<1>5. ASSUME NEW c \in Installations
      PROVE  /\ Within(RowsOf(c)', PastInstallation(c)', MaximumPerInstallation)
             /\ Within(recent' \cap RowsOf(c)', PastRate(c)', SubmissionsPerHour)
  <2>1. rows' \ Manual \subseteq Known
    BY DEF TypeInv, TypeOK, SentInv
  <2>2. RowsOf(c)' \subseteq RowsOf(c) /\ RowsOf(c)' \cap Manual = {}
    BY <2>1, RowsOfNext DEF RowsOf
  <2>3. recent' \cap RowsOf(c)' \subseteq recent \cap RowsOf(c)
    BY <2>2
  <2>4. /\ Within(RowsOf(c), PastInstallation(c), MaximumPerInstallation)
        /\ Within(recent \cap RowsOf(c), PastRate(c), SubmissionsPerHour)
    BY DEF LimitsInv
  <2>5. /\ PastInstallation(c) \in SUBSET Handlers /\ PastInstallation(c)' \in SUBSET Handlers
        /\ PastRate(c) \in SUBSET Handlers /\ PastRate(c)' \in SUBSET Handlers
        /\ PastInstallation(c)' \subseteq PastInstallation(c) /\ PastRate(c)' \subseteq PastRate(c)
    BY <1>1
  <2>6. Within(RowsOf(c)', PastInstallation(c)', MaximumPerInstallation)
    BY <1>1, <1>2, <2>2, <2>4, <2>5, WithinStep
  <2>7. Within(recent' \cap RowsOf(c)', PastRate(c)', SubmissionsPerHour)
    BY <1>1, <1>2, <2>3, <2>4, <2>5, WithinStep
  <2>. QED
    BY <2>6, <2>7
<1>. QED
  BY <1>3, <1>4, <1>5 DEF LimitsInv, Within

\* The insert of what an invocation has in hand.
LEMMA LimitsInserted ==
  ASSUME IntakeAssumption, TypeInv, LimitsInv, [Next]_vars, NEW h \in Handlers,
         pc[h] = "insert", InsertRow(serving[h]), pc'[h] = "idle",
         \A i \in Handlers \ {h} :
           pc'[i] = pc[i] /\ serving'[i] = serving[i] /\ unread'[i] = unread[i]
  PROVE  LimitsInv'
<1> DEFINE a == serving[h]
<1>1. /\ {MaximumStored, MaxSubmissionsPerHour, MaximumPerInstallation, SubmissionsPerHour} \subseteq Nat
      /\ PastStorage \subseteq Handlers /\ PastGlobalRate \subseteq Handlers
      /\ \A c : PastInstallation(c) \subseteq Handlers /\ PastRate(c) \subseteq Handlers
  BY DEF IntakeAssumption, PastStorage, PastGlobalRate, PastInstallation, PastRate
<1>2. /\ IsFiniteSet(rows \ Manual) /\ IsFiniteSet(recent \ Manual)
      /\ \A c : IsFiniteSet(RowsOf(c)) /\ IsFiniteSet(recent \cap RowsOf(c))
  BY RowsFinite
<1>3. /\ h \notin PastStorage' /\ h \notin PastGlobalRate'
      /\ \A c : h \notin PastInstallation(c)' /\ h \notin PastRate(c)'
  BY DEF PastStorage, PastGlobalRate, PastInstallation, PastRate
<1>4. /\ PastStorage' \subseteq PastStorage \ {h} /\ PastGlobalRate' \subseteq PastGlobalRate \ {h}
      /\ \A c : /\ PastInstallation(c)' \subseteq PastInstallation(c) \ {h}
                /\ PastRate(c)' \subseteq PastRate(c) \ {h}
  BY <1>3, PastOfOthers
<1>5. rows' = rows \cup {a} /\ recent' = recent \cup {a}
  BY DEF InsertRow
<1>6. h \in PastStorage /\ h \in PastGlobalRate
  BY DEF PastStorage, PastGlobalRate
<1>7. Within(rows' \ Manual, PastStorage', MaximumStored)
  <2>1. rows' \ Manual \subseteq (rows \ Manual) \cup {a}
    BY <1>5
  <2>. QED
    BY <1>1, <1>2, <1>4, <1>6, <2>1, WithinStep DEF LimitsInv
<1>8. Within(recent' \ Manual, PastGlobalRate', MaxSubmissionsPerHour)
  <2>1. recent' \ Manual \subseteq (recent \ Manual) \cup {a}
    BY <1>5
  <2>. QED
    BY <1>1, <1>2, <1>4, <1>6, <2>1, WithinStep DEF LimitsInv
<1>9. ASSUME NEW c \in Installations
      PROVE  /\ Within(RowsOf(c)', PastInstallation(c)', MaximumPerInstallation)
             /\ Within(recent' \cap RowsOf(c)', PastRate(c)', SubmissionsPerHour)
  <2>1. rows' \ Manual \subseteq Known
    BY <1>5, InHand DEF TypeInv, TypeOK, SentInv
  <2>2. RowsOf(c)' = {b \in rows' \ Manual : InstallationOf(b) = c}
    BY <2>1, RowsOfNext
  <2>5. /\ Within(RowsOf(c), PastInstallation(c), MaximumPerInstallation)
        /\ Within(recent \cap RowsOf(c), PastRate(c), SubmissionsPerHour)
    BY DEF LimitsInv
  <2>6. /\ PastInstallation(c) \in SUBSET Handlers /\ PastInstallation(c)' \in SUBSET Handlers
        /\ PastRate(c) \in SUBSET Handlers /\ PastRate(c)' \in SUBSET Handlers
        /\ PastInstallation(c)' \subseteq PastInstallation(c) \ {h}
        /\ PastRate(c)' \subseteq PastRate(c) \ {h}
    BY <1>1, <1>4
  <2>3. CASE InstallationOf(a) = c
    <3>1. h \in PastInstallation(c) /\ h \in PastRate(c)
      BY <2>3 DEF PastInstallation, PastRate, Serving
    <3>2. /\ RowsOf(c)' \subseteq RowsOf(c) \cup {a}
          /\ recent' \cap RowsOf(c)' \subseteq (recent \cap RowsOf(c)) \cup {a}
      BY <1>5, <2>2 DEF RowsOf
    <3>3. Within(RowsOf(c)', PastInstallation(c)', MaximumPerInstallation)
      BY <1>1, <1>2, <2>5, <2>6, <3>1, <3>2, WithinStep
    <3>4. Within(recent' \cap RowsOf(c)', PastRate(c)', SubmissionsPerHour)
      BY <1>1, <1>2, <2>5, <2>6, <3>1, <3>2, WithinStep
    <3>. QED
      BY <3>3, <3>4
  <2>4. CASE InstallationOf(a) # c
    <3>1. /\ RowsOf(c)' \subseteq RowsOf(c)
          /\ recent' \cap RowsOf(c)' \subseteq recent \cap RowsOf(c)
      BY <1>5, <2>2, <2>4 DEF RowsOf
    <3>2. PastInstallation(c)' \subseteq PastInstallation(c) /\ PastRate(c)' \subseteq PastRate(c)
      BY <1>4
    <3>3. Within(RowsOf(c)', PastInstallation(c)', MaximumPerInstallation)
      BY <1>1, <1>2, <3>1, <3>2, WithinStep DEF LimitsInv
    <3>4. Within(recent' \cap RowsOf(c)', PastRate(c)', SubmissionsPerHour)
      BY <1>1, <1>2, <3>1, <3>2, WithinStep DEF LimitsInv
    <3>. QED
      BY <3>3, <3>4
  <2>. QED
    BY <2>3, <2>4
<1>. QED
  BY <1>7, <1>8, <1>9 DEF LimitsInv, Within

\* An invocation passes the checks that let it: whatever it joins, the count was below
\* the limit.
LEMMA LimitsPassed ==
  ASSUME IntakeAssumption, TypeInv, LimitsInv, [Next]_vars, NEW h \in Handlers,
         UNCHANGED <<rows, recent>>,
         \A i \in Handlers \ {h} :
           pc'[i] = pc[i] /\ serving'[i] = serving[i] /\ unread'[i] = unread[i],
         h \in PastStorage' =>
           h \in PastStorage \/ ~AtLimit(Cardinality(rows), MaximumStored),
         h \in PastGlobalRate' =>
           h \in PastGlobalRate \/ ~AtLimit(Cardinality(recent), MaxSubmissionsPerHour),
         \A c \in Installations :
           /\ h \in PastInstallation(c)' =>
                \/ h \in PastInstallation(c)
                \/ ~AtLimit(Cardinality(RowsOf(c)), MaximumPerInstallation)
           /\ h \in PastRate(c)' =>
                \/ h \in PastRate(c)
                \/ ~AtLimit(Cardinality(recent \cap RowsOf(c)), SubmissionsPerHour)
  PROVE  LimitsInv'
<1>1. /\ {MaximumStored, MaxSubmissionsPerHour, MaximumPerInstallation, SubmissionsPerHour} \subseteq Nat
      /\ PastStorage \in SUBSET Handlers /\ PastGlobalRate \in SUBSET Handlers
      /\ PastStorage' \in SUBSET Handlers /\ PastGlobalRate' \in SUBSET Handlers
  BY DEF IntakeAssumption, PastStorage, PastGlobalRate
<1>2. /\ IsFiniteSet(rows \ Manual) /\ IsFiniteSet(recent \ Manual)
      /\ \A c : IsFiniteSet(RowsOf(c)) /\ IsFiniteSet(recent \cap RowsOf(c))
  BY RowsFinite
<1>3. Within(rows' \ Manual, PastStorage', MaximumStored)
  <2>1. \/ PastStorage' \subseteq PastStorage
        \/ ~AtLimit(Cardinality(rows \ Manual), MaximumStored)
    BY <1>1, PastOfOthers, ManualRowsCount
  <2>2. rows' \ Manual \subseteq rows \ Manual /\ Within(rows \ Manual, PastStorage, MaximumStored)
    BY DEF LimitsInv
  <2>. QED
    BY <1>1, <1>2, <2>1, <2>2, WithinStep
<1>4. Within(recent' \ Manual, PastGlobalRate', MaxSubmissionsPerHour)
  <2>1. \/ PastGlobalRate' \subseteq PastGlobalRate
        \/ ~AtLimit(Cardinality(recent \ Manual), MaxSubmissionsPerHour)
    BY <1>1, PastOfOthers, ManualRowsCount
  <2>2. /\ recent' \ Manual \subseteq recent \ Manual
        /\ Within(recent \ Manual, PastGlobalRate, MaxSubmissionsPerHour)
    BY DEF LimitsInv
  <2>. QED
    BY <1>1, <1>2, <2>1, <2>2, WithinStep
<1>5. ASSUME NEW c \in Installations
      PROVE  /\ Within(RowsOf(c)', PastInstallation(c)', MaximumPerInstallation)
             /\ Within(recent' \cap RowsOf(c)', PastRate(c)', SubmissionsPerHour)
  <2>1. rows' \ Manual \subseteq Known
    BY DEF TypeInv, TypeOK, SentInv
  <2>2. RowsOf(c)' \subseteq RowsOf(c) /\ recent' \cap RowsOf(c)' \subseteq recent \cap RowsOf(c)
    BY <2>1, RowsOfNext DEF RowsOf
  <2>3. /\ Within(RowsOf(c), PastInstallation(c), MaximumPerInstallation)
        /\ Within(recent \cap RowsOf(c), PastRate(c), SubmissionsPerHour)
    BY DEF LimitsInv
  <2>4. /\ PastInstallation(c) \in SUBSET Handlers /\ PastInstallation(c)' \in SUBSET Handlers
        /\ PastRate(c) \in SUBSET Handlers /\ PastRate(c)' \in SUBSET Handlers
    BY DEF PastInstallation, PastRate
  <2>5. \/ PastInstallation(c)' \subseteq PastInstallation(c)
        \/ ~AtLimit(Cardinality(RowsOf(c)), MaximumPerInstallation)
    BY PastOfOthers
  <2>6. \/ PastRate(c)' \subseteq PastRate(c)
        \/ ~AtLimit(Cardinality(recent \cap RowsOf(c)), SubmissionsPerHour)
    BY PastOfOthers
  <2>7. Within(RowsOf(c)', PastInstallation(c)', MaximumPerInstallation)
    BY <1>1, <1>2, <2>2, <2>3, <2>4, <2>5, WithinStep
  <2>8. Within(recent' \cap RowsOf(c)', PastRate(c)', SubmissionsPerHour)
    BY <1>1, <1>2, <2>2, <2>3, <2>4, <2>6, WithinStep
  <2>. QED
    BY <2>7, <2>8
<1>. QED
  BY <1>3, <1>4, <1>5 DEF LimitsInv, Within

LEMMA LimitsStep ==
  ASSUME IntakeAssumption, TypeInv, LimitsInv, [Next]_vars
  PROVE  LimitsInv'
<1> USE DEF table, client, handler
<1>0. /\ pc \in [Handlers -> Labels \cup {"idle"}] /\ serving \in [Handlers -> Attempts \cup {NoAttempt}]
      /\ unread \in [Handlers -> SUBSET {"storage", "installation"}]
  BY DEF TypeInv, TypeOK, Labels
\* Most steps of an invocation leave it outside, or where it was.
<1>1. ASSUME NEW h \in Handlers,
             \/ Receive(h) \/ VerifyToken(h) \/ Lookup(h) \/ Kill(h)
             \/ Insert(h) /\ Refused(serving[h])
             \/ Fails(h) /\ UNCHANGED <<rows, recent>>
      PROVE  LimitsInv'
  <2>1. /\ \A i \in Handlers \ {h} :
             pc'[i] = pc[i] /\ serving'[i] = serving[i] /\ unread'[i] = unread[i]
        /\ pc'[h] \in {"idle", "verify", "rate", "lookup"}
        /\ UNCHANGED <<rows, recent>>
    BY <1>0, <1>1 DEF Receive, VerifyToken, Lookup, Kill, Insert, Fails, Reply, Continue, Forget,
                      Refused, InsertRow
  <2>2. /\ h \notin PastStorage' /\ h \notin PastGlobalRate'
        /\ \A c : h \notin PastInstallation(c)' /\ h \notin PastRate(c)'
    BY <2>1 DEF PastStorage, PastGlobalRate, PastInstallation, PastRate
  <2>. QED
    BY <2>1, <2>2, LimitsPassed
<1>2. ASSUME NEW h \in Handlers, pc[h] = "insert", ~Refused(serving[h]), InsertRow(serving[h]),
             Insert(h) \/ Fails(h)
      PROVE  LimitsInv'
  <2>1. /\ \A i \in Handlers \ {h} :
             pc'[i] = pc[i] /\ serving'[i] = serving[i] /\ unread'[i] = unread[i]
        /\ pc'[h] = "idle"
    BY <1>0, <1>2 DEF Insert, Fails, Reply, Forget
  <2>. QED
    BY <1>2, <2>1, LimitsInserted
\* Some step into what is counted, from one check to the next.
<1>3. ASSUME NEW h \in Handlers, CheckRate(h) PROVE LimitsInv'
  <2> DEFINE c0 == InstallationOf(serving[h])
  <2>1. /\ \A i \in Handlers \ {h} :
             pc'[i] = pc[i] /\ serving'[i] = serving[i] /\ unread'[i] = unread[i]
        /\ pc'[h] = "idle" \/ /\ pc'[h] = "globalRate" /\ serving' = serving
                              /\ ~AtLimit(Cardinality(recent \cap RowsOf(c0)), SubmissionsPerHour)
        /\ pc[h] = "rate" /\ UNCHANGED <<rows, recent, sent>>
    BY <1>0, <1>3 DEF CheckRate, Reply, Continue, Forget
  <2>2. /\ h \notin PastStorage' /\ h \notin PastGlobalRate'
        /\ \A c : h \notin PastInstallation(c)'
    BY <2>1 DEF PastStorage, PastGlobalRate, PastInstallation
  <2>3. ASSUME NEW c, h \in PastRate(c)'
        PROVE  ~AtLimit(Cardinality(recent \cap RowsOf(c)), SubmissionsPerHour)
    BY <2>1, <2>3 DEF PastRate, Serving, InstallationOf
  <2>. QED
    BY <2>1, <2>2, <2>3, LimitsPassed
<1>4. ASSUME NEW h \in Handlers, CheckGlobalRate(h) PROVE LimitsInv'
  <2>1. /\ \A i \in Handlers \ {h} :
             pc'[i] = pc[i] /\ serving'[i] = serving[i] /\ unread'[i] = unread[i]
        /\ \/ pc'[h] = "idle"
           \/ /\ pc'[h] = "capacity" /\ serving' = serving
              /\ unread'[h] = {"storage", "installation"}
              /\ ~AtLimit(Cardinality(recent), MaxSubmissionsPerHour)
        /\ pc[h] = "globalRate" /\ UNCHANGED <<rows, recent, sent>>
    BY <1>0, <1>4 DEF CheckGlobalRate, Reply, Continue, Forget
  <2>2. h \notin PastStorage' /\ \A c : h \notin PastInstallation(c)'
    BY <2>1 DEF PastStorage, PastInstallation
  <2>3. h \in PastGlobalRate' => ~AtLimit(Cardinality(recent), MaxSubmissionsPerHour)
    BY <2>1 DEF PastGlobalRate
  <2>4. ASSUME NEW c, h \in PastRate(c)'
        PROVE  h \in PastRate(c)
    <3>1. Serving(h, c)' /\ serving' = serving /\ sent' = sent
      BY <2>1, <2>4 DEF PastRate
    <3>2. Serving(h, c)
      BY <3>1 DEF Serving, InstallationOf
    <3>. QED
      BY <2>1, <3>2 DEF PastRate
  <2>. QED
    BY <2>1, <2>2, <2>3, <2>4, LimitsPassed
<1>5. ASSUME NEW h \in Handlers, CheckCapacity(h) PROVE LimitsInv'
  <2>1. PICK query \in unread[h] :
          \/ pc' = [pc EXCEPT ![h] = "idle"] /\ serving' = [serving EXCEPT ![h] = NoAttempt]
             /\ unread' = [unread EXCEPT ![h] = {}]
          \/ /\ ~AtCapacity(h, query) /\ serving' = serving
             /\ unread' = [unread EXCEPT ![h] = @ \ {query}]
             /\ pc' = [pc EXCEPT ![h] = IF unread[h] = {query} THEN "insert" ELSE "capacity"]
    BY <1>5 DEF CheckCapacity, Reply, Continue, Forget
  <2>2. /\ pc[h] = "capacity" /\ UNCHANGED <<rows, recent, sent>>
        /\ query \in {"storage", "installation"} /\ unread[h] \subseteq {"storage", "installation"}
    BY <1>0, <1>5 DEF CheckCapacity
  <2>3. \A i \in Handlers \ {h} :
          pc'[i] = pc[i] /\ serving'[i] = serving[i] /\ unread'[i] = unread[i]
    BY <1>0, <2>1
  <2>4. h \in PastStorage' => h \in PastStorage \/ ~AtLimit(Cardinality(rows), MaximumStored)
    BY <1>0, <2>1, <2>2 DEF PastStorage, AtCapacity
  <2>5. h \in PastGlobalRate
    BY <2>2 DEF PastGlobalRate
  <2>6. ASSUME NEW c, h \in PastInstallation(c)'
        PROVE  \/ h \in PastInstallation(c)
               \/ ~AtLimit(Cardinality(RowsOf(c)), MaximumPerInstallation)
    <3>1. Serving(h, c)'
      BY <2>6 DEF PastInstallation
    <3>2. pc'[h] # "idle"
      BY <2>6 DEF PastInstallation
    <3>3. serving' = serving /\ InstallationOf(serving[h]) = c
      <4>1. serving' = serving
        BY <1>0, <2>1, <3>2
      <4>. QED
        BY <2>2, <3>1, <4>1 DEF Serving, InstallationOf
    <3>4. \/ "installation" \notin unread[h]
          \/ ~AtLimit(Cardinality(RowsOf(c)), MaximumPerInstallation)
      BY <1>0, <2>1, <2>2, <2>6, <3>2, <3>3 DEF PastInstallation, AtCapacity
    <3>. QED
      BY <2>2, <3>3, <3>4 DEF PastInstallation, Serving
  <2>7. ASSUME NEW c, h \in PastRate(c)'
        PROVE  h \in PastRate(c)
    <3>1. Serving(h, c)' /\ pc'[h] # "idle"
      BY <2>7 DEF PastRate
    <3>2. serving' = serving
      BY <1>0, <2>1, <3>1
    <3>3. Serving(h, c)
      BY <2>2, <3>1, <3>2 DEF Serving, InstallationOf
    <3>. QED
      BY <2>2, <3>3 DEF PastRate
  <2>. QED
    BY <2>2, <2>3, <2>4, <2>5, <2>6, <2>7, LimitsPassed
<1>6. CASE UNCHANGED handler /\ rows' \ Manual \subseteq rows /\ recent' \ Manual \subseteq recent
  <2>1. \A i \in Handlers :
          pc'[i] = pc[i] /\ serving'[i] = serving[i] /\ unread'[i] = unread[i]
    BY <1>6
  <2>2. PICK h \in Handlers : TRUE
    BY DEF IntakeAssumption
  <2>3. \A i \in Handlers : /\ i \in PastStorage' => i \in PastStorage
                            /\ i \in PastGlobalRate' => i \in PastGlobalRate
                            /\ \A c : /\ i \in PastInstallation(c)' => i \in PastInstallation(c)
                                      /\ i \in PastRate(c)' => i \in PastRate(c)
    BY <2>1, PastStays
  <2>4. /\ PastStorage' \subseteq Handlers /\ PastGlobalRate' \subseteq Handlers
        /\ \A c : PastInstallation(c)' \subseteq Handlers /\ PastRate(c)' \subseteq Handlers
    BY DEF PastStorage, PastGlobalRate, PastInstallation, PastRate
  <2>5. /\ PastStorage' \subseteq PastStorage /\ PastGlobalRate' \subseteq PastGlobalRate
        /\ \A c : /\ PastInstallation(c)' \subseteq PastInstallation(c)
                  /\ PastRate(c)' \subseteq PastRate(c)
    BY <2>3, <2>4
  <2>. QED
    BY <1>6, <2>5, LimitsKept
<1>7. CASE \/ \E c \in Installations :
                \/ \E r \in Reports : Submit(c, r)
                \/ Refuse(c) \/ Authorize(c) \/ Answer(c) \/ Inform(c) \/ Leave(c)
           \/ \E a \in Attempts \cup Manual : Age(a) \/ Delete(a)
           \/ \E m \in Manual : Create(m)
           \/ UNCHANGED vars
  <2>1. UNCHANGED handler /\ rows' \ Manual \subseteq rows /\ recent' \ Manual \subseteq recent
    BY <1>7 DEF Submit, Refuse, Authorize, Answer, Inform, Leave, Age, Delete, Create, vars
  <2>. QED
    BY <1>6, <2>1
<1>8. ASSUME NEW h \in Handlers, Insert(h) \/ Fails(h) PROVE LimitsInv'
  BY <1>1, <1>2, <1>8 DEF Insert, Fails
<1>. QED
  BY <1>1, <1>3, <1>4, <1>5, <1>7, <1>8 DEF Next

\* The limits are checked before the insert and not with it; the excess is what the
\* other invocations had in hand, never more.
THEOREM OvershootIsBounded ==
  ASSUME IntakeAssumption
  PROVE  Spec => []OvershootBounded
<1>1. ASSUME Init PROVE LimitsInv
  <2>1. rows = {} /\ recent = {} /\ \A c : RowsOf(c) = {} /\ recent \cap RowsOf(c) = {}
    BY <1>1 DEF Init, RowsOf
  <2>2. /\ PastStorage = {} /\ PastGlobalRate = {}
        /\ \A c : PastInstallation(c) = {} /\ PastRate(c) = {}
    BY <1>1 DEF Init, PastStorage, PastGlobalRate, PastInstallation, PastRate
  <2>3. Cardinality(Handlers) \in Nat /\ Cardinality(Handlers) >= 1
    BY FS_CardinalityType, FS_EmptySet DEF IntakeAssumption
  <2>4. \A limit \in Nat : Within({}, {}, limit)
    BY <2>3, FS_EmptySet DEF Within
  <2>. QED
    BY <2>1, <2>2, <2>4 DEF LimitsInv, IntakeAssumption
<1>2. TypeInv /\ LimitsInv /\ [Next]_vars => LimitsInv'
  BY LimitsStep
<1>3. ASSUME TypeInv, LimitsInv PROVE OvershootBounded
  <2>1. /\ {MaximumStored, MaxSubmissionsPerHour, MaximumPerInstallation, SubmissionsPerHour} \subseteq Nat
        /\ PastStorage \in SUBSET Handlers /\ PastGlobalRate \in SUBSET Handlers
        /\ \A c : PastInstallation(c) \in SUBSET Handlers /\ PastRate(c) \in SUBSET Handlers
    BY DEF IntakeAssumption, PastStorage, PastGlobalRate, PastInstallation, PastRate
  <2>. QED
    BY <1>3, <2>1, RowsFinite, WithinBounds DEF LimitsInv, OvershootBounded
<1>. QED
  BY <1>1, <1>2, <1>3, TypeCorrect, PTL DEF Spec
=============================================================================
