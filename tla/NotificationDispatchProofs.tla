--------------------- MODULE NotificationDispatchProofs ---------------------
(***************************************************************************)
(* Proofs about NotificationDispatch, for every set of reports, every      *)
(* number of concurrent dispatches, every daily limit and any number of    *)
(* faults.                                                                 *)
(***************************************************************************)
EXTENDS NotificationDispatch, FiniteSetTheorems, TLAPS

\* A set of queue rows is finite, so the COUNT(*) of it is a number.
LEMMA UnclaimedCount ==
  ASSUME queue \subseteq Reports
  PROVE  Cardinality(Unclaimed) \in Nat
<1>1. Unclaimed \subseteq Reports
  BY DEF Unclaimed
<1>2. IsFiniteSet(Unclaimed)
  BY <1>1, FS_Subset, DispatchAssumption
<1>. QED
  BY <1>2, FS_CardinalityType

\* The rows a claim takes are unclaimed rows of the queue.
LEMMA OldestIsSubset ==
  ASSUME NEW S, NEW k
  PROVE  Oldest(S, k) \subseteq S
BY DEF Oldest

LEMMA EmailOfType ==
  ASSUME TypeOK, NEW d \in Dispatchers,
         NEW status \in {"sent", "unacknowledged", "settled"}
  PROVE  EmailOf(d, status) \in Email
BY DEF TypeOK, EmailOf, Email

LEMMA FaultType ==
  ASSUME TypeOK, Fault
  PROVE  faults' \in 0..MaxFaults
BY DispatchAssumption DEF TypeOK, Fault

LEMMA GotoType ==
  ASSUME TypeOK, NEW d \in Dispatchers, NEW label \in Labels, Goto(d, label)
  PROVE  pc' \in [Dispatchers -> Labels]
BY DEF TypeOK, Goto

LEMMA FinishType ==
  ASSUME TypeOK, NEW d \in Dispatchers, NEW o \in Outcomes, Finish(d, o)
  PROVE  /\ pc' \in [Dispatchers -> Labels]
         /\ outcome' \in [Dispatchers -> Outcomes \cup {"none"}]
<1>1. "record" \in Labels
  BY DEF Labels
<1>. QED
  BY <1>1, GotoType DEF TypeOK, Finish

LEMMA ForgetType ==
  ASSUME TypeOK, NEW d \in Dispatchers, Forget(d)
  PROVE  /\ pc' \in [Dispatchers -> Labels]
         /\ day' \in [Dispatchers -> Days]
         /\ pending' \in [Dispatchers -> Nat]
         /\ number' \in [Dispatchers -> 0..DailyLimit]
         /\ token' \in [Dispatchers -> Nat]
         /\ batch' \in [Dispatchers -> SUBSET Reports]
         /\ outcome' \in [Dispatchers -> Outcomes \cup {"none"}]
<1>1. "idle" \in Labels
  BY DEF Labels
<1>2. pc' \in [Dispatchers -> Labels]
  BY <1>1, GotoType DEF Forget
<1>3. 1 \in Days /\ NoClaim \in Nat
  BY DispatchAssumption DEF Days, NoClaim
<1>4. day' \in [Dispatchers -> Days] /\ pending' \in [Dispatchers -> Nat]
  BY <1>3 DEF TypeOK, Forget
<1>5. number' \in [Dispatchers -> 0..DailyLimit] /\ token' \in [Dispatchers -> Nat]
  BY <1>3, DispatchAssumption DEF TypeOK, Forget
<1>6. batch' \in [Dispatchers -> SUBSET Reports]
  BY DEF TypeOK, Forget
<1>7. outcome' \in [Dispatchers -> Outcomes \cup {"none"}]
  BY DEF TypeOK, Forget
<1>. QED
  BY <1>2, <1>4, <1>5, <1>6, <1>7

\* Every variable stays in its range along every behaviour, faults included.
THEOREM TypeCorrect == Spec => []TypeOK
<1> USE DispatchAssumption DEF NoClaim, Days
<1>1. Init => TypeOK
  BY DEF Init, TypeOK, Labels
<1>2. TypeOK /\ [Next]_vars => TypeOK'
  <2> SUFFICES ASSUME TypeOK, [Next]_vars
               PROVE  TypeOK'
    OBVIOUS
  <2> USE DEF table, locals, history
  <2>1. ASSUME NEW r \in Reports, Accept(r) PROVE TypeOK'
    BY <2>1 DEF Accept, TypeOK
  <2>2. ASSUME NEW r \in Reports, Withdraw(r) PROVE TypeOK'
    BY <2>2 DEF Withdraw, TypeOK
  <2>3. CASE NextDay
    <3>1. today' \in Days
      BY <2>3, DispatchAssumption DEF NextDay, Days, TypeOK
    <3>2. UNCHANGED <<queue, claim, stale, sentCount, lastAttempt, pc, day, pending, number,
                      token, batch, outcome, nextClaim, faults, accepted, withdrawn, outlived,
                      emails>>
      BY <2>3 DEF NextDay
    <3>. QED
      BY <3>1, <3>2 DEF TypeOK
  <2>4. ASSUME NEW c \in 1..(nextClaim - 1), Age(c) PROVE TypeOK'
    <3>1. faults' \in 0..MaxFaults
      BY <2>4, FaultType DEF Age, TypeOK
    <3>2. stale' = stale \cup {c} /\ outlived' \in {outlived, outlived \cup {c}} /\ c \in Nat
      BY <2>4 DEF Age, TypeOK
    <3>3. stale' \subseteq Nat /\ outlived' \subseteq Nat
      BY <3>2 DEF TypeOK
    <3>. QED
      BY <2>4, <3>1, <3>3 DEF Age, TypeOK
  <2>5. ASSUME NEW d \in Dispatchers, Begin(d) PROVE TypeOK'
    <3>1. pc' \in [Dispatchers -> Labels]
      BY <2>5, GotoType DEF Begin, Labels
    <3>2. day' \in [Dispatchers -> Days] /\ claim' \in [Reports -> Nat]
      BY <2>5 DEF Begin, Freed, TypeOK
    <3>3. UNCHANGED <<queue, stale, sentCount, lastAttempt, today, pending, number, token,
                      batch, outcome, nextClaim, faults, accepted, withdrawn, outlived, emails>>
      BY <2>5 DEF Begin
    <3>. QED
      BY <3>1, <3>2, <3>3 DEF TypeOK
  <2>6. ASSUME NEW d \in Dispatchers, Count(d) PROVE TypeOK'
    <3>1. pending' \in [Dispatchers -> Nat]
      BY <2>6, UnclaimedCount DEF Count, TypeOK
    <3>2. /\ pc' \in [Dispatchers -> Labels]
          /\ outcome' \in [Dispatchers -> Outcomes \cup {"none"}]
      <4>1. CASE Unclaimed = {}
        BY <2>6, <4>1, FinishType DEF Count, Outcomes
      <4>2. CASE Unclaimed # {}
        <5>1. Goto(d, "reserve") /\ UNCHANGED outcome
          BY <2>6, <4>2 DEF Count
        <5>. QED
          BY <5>1, GotoType DEF Labels, TypeOK
      <4>. QED
        BY <4>1, <4>2
    <3>3. UNCHANGED <<queue, claim, stale, sentCount, lastAttempt, today, day, number, token,
                      batch, nextClaim, faults, accepted, withdrawn, outlived, emails>>
      BY <2>6 DEF Count
    <3>. QED
      BY <3>1, <3>2, <3>3 DEF TypeOK
  <2>7. ASSUME NEW d \in Dispatchers, Reserve(d) PROVE TypeOK'
    <3>1. /\ sentCount' \in [Days -> 0..DailyLimit] /\ number' \in [Dispatchers -> 0..DailyLimit]
          /\ pc' \in [Dispatchers -> Labels]
          /\ outcome' \in [Dispatchers -> Outcomes \cup {"none"}]
      <4>1. CASE SlotFree(day[d])
        <5>1. day[d] \in Days /\ sentCount[day[d]] \in Nat
          BY DEF TypeOK
        <5>2. Goto(d, "claim") /\ UNCHANGED outcome
          BY <2>7, <4>1, <5>1 DEF Reserve
        <5>3. /\ sentCount' = [sentCount EXCEPT ![day[d]] = @ + 1]
              /\ number' = [number EXCEPT ![d] = sentCount[day[d]] + 1]
          BY <2>7, <4>1, <5>1 DEF Reserve
        <5>4. pc' \in [Dispatchers -> Labels]
          BY <5>2, GotoType DEF Labels
        <5>5. sentCount' \in [Days -> 0..DailyLimit]
          BY <4>1, <5>1, <5>3 DEF SlotFree, TypeOK
        <5>6. number' \in [Dispatchers -> 0..DailyLimit]
          BY <4>1, <5>1, <5>3 DEF SlotFree, TypeOK
        <5>. QED
          BY <5>2, <5>4, <5>5, <5>6 DEF TypeOK
      <4>2. CASE ~SlotFree(day[d])
        <5>1. Finish(d, "daily_limit_reached") /\ UNCHANGED <<sentCount, number>>
          BY <2>7, <4>2 DEF Reserve
        <5>. QED
          BY <5>1, FinishType DEF Outcomes, TypeOK
      <4>. QED
        BY <4>1, <4>2
    <3>2. UNCHANGED <<queue, claim, stale, lastAttempt, today, day, pending, token, batch,
                      nextClaim, faults, accepted, withdrawn, outlived, emails>>
      BY <2>7 DEF Reserve
    <3>. QED
      BY <3>1, <3>2 DEF TypeOK
  <2>8. ASSUME NEW d \in Dispatchers, Claim(d) PROVE TypeOK'
    <3> DEFINE taken == Oldest(Unclaimed, BatchSize(d))
    <3>1. taken \subseteq Reports
      BY OldestIsSubset DEF Unclaimed, TypeOK
    <3> HIDE DEF taken
    <3>2. CASE taken # {}
      <4>1. /\ claim' = [r \in Reports |-> IF r \in taken THEN nextClaim ELSE claim[r]]
            /\ token' = [token EXCEPT ![d] = nextClaim]
            /\ batch' = [batch EXCEPT ![d] = taken]
            /\ nextClaim' = nextClaim + 1
            /\ Goto(d, "send")
            /\ UNCHANGED outcome
        BY <2>8, <3>2 DEF Claim, taken
      <4>2. pc' \in [Dispatchers -> Labels]
        BY <4>1, GotoType DEF Labels
      <4>3. claim' \in [Reports -> Nat] /\ token' \in [Dispatchers -> Nat]
        BY <4>1 DEF TypeOK
      <4>4. batch' \in [Dispatchers -> SUBSET Reports] /\ nextClaim' \in Nat \ {0}
        BY <4>1, <3>1 DEF TypeOK
      <4>. QED
        BY <2>8, <4>1, <4>2, <4>3, <4>4 DEF Claim, TypeOK
    <3>3. CASE taken = {}
      <4>1. Goto(d, "releaseSlot") /\ UNCHANGED <<claim, token, batch, nextClaim>>
        BY <2>8, <3>3 DEF Claim, taken
      <4>2. outcome' = [outcome EXCEPT ![d] = "nothing_pending"]
        BY <2>8, <3>3 DEF Claim, taken
      <4>3. pc' \in [Dispatchers -> Labels]
        BY <4>1, GotoType DEF Labels
      <4>4. outcome' \in [Dispatchers -> Outcomes \cup {"none"}]
        BY <4>2 DEF TypeOK, Outcomes
      <4>. QED
        BY <2>8, <4>1, <4>3, <4>4 DEF Claim, TypeOK
    <3>. QED
      BY <3>2, <3>3
  <2>9. ASSUME NEW d \in Dispatchers, Send(d) PROVE TypeOK'
    <3>1. emails' \subseteq Email
      BY <2>9, EmailOfType DEF Send, TypeOK
    <3>2. pc' \in [Dispatchers -> Labels]
      BY <2>9, GotoType DEF Send, Labels
    <3>3. UNCHANGED <<queue, claim, stale, sentCount, lastAttempt, today, day, pending,
                      number, token, batch, outcome, nextClaim, faults, accepted,
                      withdrawn, outlived>>
      BY <2>9 DEF Send
    <3>. QED
      BY <3>1, <3>2, <3>3 DEF TypeOK
  <2>10. ASSUME NEW d \in Dispatchers, SendFails(d) PROVE TypeOK'
    <3>1. emails' \subseteq Email
      <4>1. emails' \in {emails, emails \cup {EmailOf(d, "unacknowledged")}}
        BY <2>10 DEF SendFails
      <4>2. EmailOf(d, "unacknowledged") \in Email
        BY EmailOfType
      <4>. QED
        BY <4>1, <4>2 DEF TypeOK
    <3>2. faults' \in 0..MaxFaults
      BY <2>10, FaultType DEF SendFails
    <3>3. pc' \in [Dispatchers -> Labels]
      BY <2>10, GotoType DEF SendFails, Labels
    <3>4. outcome' \in [Dispatchers -> Outcomes \cup {"none"}]
      BY <2>10 DEF SendFails, TypeOK, Outcomes
    <3>5. UNCHANGED <<queue, claim, stale, sentCount, lastAttempt, today, day, pending,
                      number, token, batch, nextClaim, accepted, withdrawn, outlived>>
      BY <2>10 DEF SendFails
    <3>. QED
      BY <3>1, <3>2, <3>3, <3>4, <3>5 DEF TypeOK
  <2>11. ASSUME NEW d \in Dispatchers, ReleaseClaim(d) PROVE TypeOK'
    <3>1. faults' \in 0..MaxFaults
      BY <2>11, FaultType DEF ReleaseClaim, TypeOK
    <3>2. pc' \in [Dispatchers -> Labels]
      BY <2>11, GotoType DEF ReleaseClaim, Labels
    <3>3. claim' \in [Reports -> Nat]
      <4>1. \/ claim' = [r \in Reports |-> IF claim[r] = token[d] THEN NoClaim ELSE claim[r]]
            \/ claim' = claim
        BY <2>11 DEF ReleaseClaim
      <4>2. claim \in [Reports -> Nat]
        BY DEF TypeOK
      <4>. QED
        BY <4>1, <4>2
    <3>4. UNCHANGED <<queue, stale, sentCount, lastAttempt, today, day, pending, number,
                      token, batch, outcome, nextClaim, accepted, withdrawn, outlived, emails>>
      BY <2>11 DEF ReleaseClaim
    <3>. QED
      BY <3>1, <3>2, <3>3, <3>4 DEF TypeOK
  <2>12. ASSUME NEW d \in Dispatchers, ReleaseSlot(d) PROVE TypeOK'
    <3>1. faults' \in 0..MaxFaults
      BY <2>12, FaultType DEF ReleaseSlot, TypeOK
    <3>2. sentCount' \in [Days -> 0..DailyLimit]
      <4>1. \/ sentCount' = [sentCount EXCEPT ![day[d]] = Released(@)]
            \/ sentCount' = sentCount
        BY <2>12 DEF ReleaseSlot
      <4>2. day[d] \in Days /\ sentCount \in [Days -> 0..DailyLimit]
        BY DEF TypeOK
      <4>3. Released(sentCount[day[d]]) \in 0..DailyLimit
        BY <4>2, DispatchAssumption DEF Released
      <4>. QED
        BY <4>1, <4>2, <4>3
    <3>3. pc' \in [Dispatchers -> Labels]
      BY <2>12, GotoType DEF ReleaseSlot, Labels
    <3>4. UNCHANGED <<queue, claim, stale, lastAttempt, today, day, pending, number, token,
                      batch, outcome, nextClaim, accepted, withdrawn, outlived, emails>>
      BY <2>12 DEF ReleaseSlot
    <3>. QED
      BY <3>1, <3>2, <3>3, <3>4 DEF TypeOK
  <2>13. ASSUME NEW d \in Dispatchers, DeleteSent(d) PROVE TypeOK'
    <3>1. emails' \subseteq Email
      <4>1. emails' = {Settled(e, token[d]) : e \in emails}
        BY <2>13 DEF DeleteSent
      <4>2. ASSUME NEW e \in Email PROVE Settled(e, token[d]) \in Email
        BY DEF Settled, Email
      <4>. QED
        BY <4>1, <4>2 DEF TypeOK
    <3>2. queue' \subseteq Reports /\ claim' \in [Reports -> Nat]
      BY <2>13 DEF DeleteSent, TypeOK
    <3>3. /\ pc' \in [Dispatchers -> Labels]
          /\ outcome' \in [Dispatchers -> Outcomes \cup {"none"}]
      BY <2>13, FinishType DEF DeleteSent, Outcomes
    <3>4. UNCHANGED <<stale, sentCount, lastAttempt, today, day, pending, number, token,
                      batch, nextClaim, faults, accepted, withdrawn, outlived>>
      BY <2>13 DEF DeleteSent
    <3>. QED
      BY <3>1, <3>2, <3>3, <3>4 DEF TypeOK
  <2>14. ASSUME NEW d \in Dispatchers, Record(d) PROVE TypeOK'
    <3>1. faults' \in 0..MaxFaults
      BY <2>14, FaultType DEF Record, TypeOK
    <3>2. lastAttempt' \in Outcomes \cup {"none"}
      BY <2>14 DEF Record, TypeOK
    <3>3. UNCHANGED <<queue, claim, stale, sentCount, today, nextClaim, accepted, withdrawn, outlived,
                      emails>>
      BY <2>14 DEF Record
    <3>4. Forget(d)
      BY <2>14 DEF Record
    <3>. QED
      BY <3>1, <3>2, <3>3, <3>4, ForgetType DEF TypeOK
  <2>15. ASSUME NEW d \in Dispatchers, Unconfigured(d) PROVE TypeOK'
    <3>1. faults' \in 0..MaxFaults
      BY <2>15, FaultType DEF Unconfigured
    <3>2. /\ pc' \in [Dispatchers -> Labels]
          /\ outcome' \in [Dispatchers -> Outcomes \cup {"none"}]
      BY <2>15, FinishType DEF Unconfigured, Outcomes
    <3>3. UNCHANGED <<queue, claim, stale, sentCount, lastAttempt, today, day, pending,
                      number, token, batch, nextClaim, accepted, withdrawn, outlived, emails>>
      BY <2>15 DEF Unconfigured
    <3>. QED
      BY <3>1, <3>2, <3>3 DEF TypeOK
  <2>16. ASSUME NEW d \in Dispatchers, Kill(d) PROVE TypeOK'
    <3>1. emails' \subseteq Email
      <4>1. emails' = emails \/ emails' = emails \cup {EmailOf(d, "unacknowledged")}
        BY <2>16 DEF Kill
      <4>2. EmailOf(d, "unacknowledged") \in Email
        BY EmailOfType
      <4>. QED
        BY <4>1, <4>2 DEF TypeOK
    <3>2. faults' \in 0..MaxFaults
      BY <2>16, FaultType DEF Kill
    <3>3. UNCHANGED <<queue, claim, stale, sentCount, lastAttempt, today, nextClaim, accepted,
                      withdrawn, outlived>>
      BY <2>16 DEF Kill
    <3>4. Forget(d)
      BY <2>16 DEF Kill
    <3>. QED
      BY <3>1, <3>2, <3>3, <3>4, ForgetType DEF TypeOK
  <2>17. CASE UNCHANGED vars
    BY <2>17 DEF vars, TypeOK
  <2>. QED
    BY <2>1, <2>2, <2>3, <2>4, <2>5, <2>6, <2>7, <2>8, <2>9, <2>10, <2>11, <2>12, <2>13,
       <2>14, <2>15, <2>16, <2>17 DEF Next, Step
<1>. QED
  BY <1>1, <1>2, PTL DEF Spec

-----------------------------------------------------------------------------
(***************************************************************************)
(* The daily limit.  The dispatches that hold a slot of a day, and the     *)
(* emails of the day the provider acknowledged, are together no more than  *)
(* the day's counter, which the conditional upsert keeps within the limit. *)
(***************************************************************************)
Holding == {"claim", "send", "releaseClaim", "releaseSlot"}

Holders(n) == {d \in Dispatchers : day[d] = n /\ pc[d] \in Holding}

SlotsCovered(n) ==
  /\ sentCount[n] <= DailyLimit
  /\ Cardinality(Holders(n)) + Cardinality(Acknowledged(n)) <= sentCount[n]

SlotInv == IsFiniteSet(emails) /\ \A n \in Days : SlotsCovered(n)

LEMMA HoldersFinite == \A n : IsFiniteSet(Holders(n)) /\ Cardinality(Holders(n)) \in Nat
<1>1. \A n : Holders(n) \subseteq Dispatchers
  BY DEF Holders
<1>. QED
  BY <1>1, FS_Subset, FS_CardinalityType, DispatchAssumption

LEMMA AcknowledgedFinite ==
  ASSUME IsFiniteSet(emails)
  PROVE  \A n : IsFiniteSet(Acknowledged(n)) /\ Cardinality(Acknowledged(n)) \in Nat
<1>1. \A n : Acknowledged(n) \subseteq emails
  BY DEF Acknowledged
<1>. QED
  BY <1>1, FS_Subset, FS_CardinalityType

LEMMA SmallerSet ==
  ASSUME NEW S, IsFiniteSet(S), NEW T \in SUBSET S
  PROVE  /\ Cardinality(S) \in Nat /\ Cardinality(T) \in Nat
         /\ Cardinality(T) <= Cardinality(S)
BY FS_Subset, FS_CardinalityType

\* A step that takes no slot, acknowledges nothing and leaves the counter alone keeps
\* a day covered.
LEMMA SlotsKept ==
  ASSUME TypeOK, SlotInv, NEW n \in Days,
         Holders(n)' \subseteq Holders(n), Acknowledged(n)' \subseteq Acknowledged(n),
         sentCount'[n] = sentCount[n]
  PROVE  SlotsCovered(n)'
<1>1. IsFiniteSet(Holders(n)) /\ IsFiniteSet(Acknowledged(n))
  BY HoldersFinite, AcknowledgedFinite DEF SlotInv
<1>2. /\ Cardinality(Holders(n)') <= Cardinality(Holders(n))
      /\ Cardinality(Holders(n)) \in Nat /\ Cardinality(Holders(n)') \in Nat
  BY <1>1, SmallerSet
<1>3. /\ Cardinality(Acknowledged(n)') <= Cardinality(Acknowledged(n))
      /\ Cardinality(Acknowledged(n)) \in Nat /\ Cardinality(Acknowledged(n)') \in Nat
  BY <1>1, SmallerSet
<1>4. sentCount[n] \in Nat /\ DailyLimit \in Nat
  BY DispatchAssumption DEF TypeOK
<1>. QED
  BY <1>2, <1>3, <1>4 DEF SlotInv, SlotsCovered

\* Settling an email changes its status, not the number of acknowledged emails.
LEMMA SettlingKeepsCount ==
  ASSUME TypeOK, IsFiniteSet(emails), NEW c, NEW n \in Days,
         emails' = {Settled(e, c) : e \in emails}
  PROVE  /\ IsFiniteSet(emails')
         /\ Cardinality(Acknowledged(n)') \in Nat
         /\ Cardinality(Acknowledged(n)') <= Cardinality(Acknowledged(n))
<1> DEFINE f == [e \in Acknowledged(n) |-> Settled(e, c)]
           g == [e \in emails |-> Settled(e, c)]
<1>1. ASSUME NEW e \in emails
      PROVE  /\ Settled(e, c).day = e.day
             /\ (Settled(e, c).status = "unacknowledged") <=> (e.status = "unacknowledged")
  BY DEF Settled, TypeOK, Email
<1>2. Acknowledged(n)' = {Settled(e, c) : e \in Acknowledged(n)}
  <2>1. ASSUME NEW x \in Acknowledged(n)' PROVE \E e \in Acknowledged(n) : x = Settled(e, c)
    <3>1. PICK e \in emails : x = Settled(e, c)
      BY DEF Acknowledged
    <3>2. x.day = n /\ x.status # "unacknowledged"
      BY DEF Acknowledged
    <3>. QED
      BY <1>1, <3>1, <3>2 DEF Acknowledged
  <2>2. ASSUME NEW e \in Acknowledged(n) PROVE Settled(e, c) \in Acknowledged(n)'
    BY <1>1 DEF Acknowledged
  <2>. QED
    BY <2>1, <2>2
<1>3. f \in Surjection(Acknowledged(n), Acknowledged(n)')
  BY <1>2 DEF Surjection
<1>4. g \in Surjection(emails, emails')
  BY DEF Surjection
<1>5. IsFiniteSet(Acknowledged(n))
  BY AcknowledgedFinite
<1>6. /\ IsFiniteSet(Acknowledged(n)')
      /\ Cardinality(Acknowledged(n)') <= Cardinality(Acknowledged(n))
  BY <1>3, <1>5, FS_Surjection
<1>7. IsFiniteSet(emails')
  BY <1>4, FS_Surjection
<1>. QED
  BY <1>6, <1>7, FS_CardinalityType

LEMMA SlotInvInit == Init => SlotInv
<1> SUFFICES ASSUME Init PROVE SlotInv
  OBVIOUS
<1>1. IsFiniteSet(emails)
  BY FS_EmptySet DEF Init
<1>2. ASSUME NEW n \in Days PROVE SlotsCovered(n)
  <2>1. Cardinality(Holders(n)) = 0
    <3>1. Holders(n) = {}
      BY DEF Init, Holders, Holding
    <3>. QED
      BY <3>1, FS_EmptySet
  <2>2. Cardinality(Acknowledged(n)) = 0
    <3>1. Acknowledged(n) = {}
      BY DEF Init, Acknowledged
    <3>. QED
      BY <3>1, FS_EmptySet
  <2>3. sentCount[n] = 0
    BY DEF Init
  <2>. QED
    BY <2>1, <2>2, <2>3, DispatchAssumption DEF SlotsCovered
<1>. QED
  BY <1>1, <1>2 DEF SlotInv

LEMMA SlotInvStep ==
  ASSUME TypeOK, SlotInv, [Next]_vars
  PROVE  SlotInv'
<1> USE DEF table, locals, history
<1> DEFINE Same(n) == /\ Holders(n)' \subseteq Holders(n)
                      /\ Acknowledged(n)' \subseteq Acknowledged(n)
                      /\ sentCount'[n] = sentCount[n]
<1>0. ASSUME IsFiniteSet(emails'), \A n \in Days : Same(n) PROVE SlotInv'
  BY <1>0, SlotsKept DEF SlotInv
<1>1. ASSUME NEW r \in Reports, Accept(r) \/ Withdraw(r) PROVE SlotInv'
  BY <1>1, <1>0 DEF Accept, Withdraw, Holders, Acknowledged, SlotInv
<1>2. CASE NextDay
  BY <1>2, <1>0 DEF NextDay, Holders, Acknowledged, SlotInv
<1>3. ASSUME NEW c \in 1..(nextClaim - 1), Age(c) PROVE SlotInv'
  BY <1>3, <1>0 DEF Age, Holders, Acknowledged, SlotInv
<1>4. ASSUME NEW d \in Dispatchers, Begin(d) PROVE SlotInv'
  <2>1. \A n \in Days : Holders(n)' \subseteq Holders(n)
    BY <1>4 DEF Begin, Goto, Holders, Holding, TypeOK
  <2>. QED
    BY <1>4, <2>1, <1>0 DEF Begin, Acknowledged, SlotInv
<1>5. ASSUME NEW d \in Dispatchers, Count(d) PROVE SlotInv'
  <2>1. pc' \in {[pc EXCEPT ![d] = "record"], [pc EXCEPT ![d] = "reserve"]} /\ day' = day
    BY <1>5 DEF Count, Goto, Finish
  <2>2. \A n \in Days : Holders(n)' \subseteq Holders(n)
    BY <2>1 DEF Holders, Holding, TypeOK
  <2>. QED
    BY <1>5, <2>2, <1>0 DEF Count, Acknowledged, SlotInv
<1>6. ASSUME NEW d \in Dispatchers, Reserve(d) PROVE SlotInv'
  <2> DEFINE m == day[d]
  <2>1. m \in Days /\ sentCount[m] \in Nat /\ pc[d] = "reserve" /\ DailyLimit \in Nat
    BY <1>6, DispatchAssumption DEF Reserve, TypeOK
  <2>2. emails' = emails /\ day' = day
    BY <1>6 DEF Reserve
  <2>3. CASE SlotFree(m)
    <3>1. sentCount' = [sentCount EXCEPT ![m] = @ + 1] /\ pc' = [pc EXCEPT ![d] = "claim"]
      BY <1>6, <2>1, <2>3 DEF Reserve, Goto
    <3>2. \A n \in Days \ {m} : Same(n)
      BY <2>1, <2>2, <3>1 DEF Holders, Holding, Acknowledged, TypeOK
    <3>3. Holders(m)' = Holders(m) \cup {d} /\ d \notin Holders(m)
      BY <2>1, <2>2, <3>1 DEF Holders, Holding, TypeOK
    <3>4. Cardinality(Holders(m)') = Cardinality(Holders(m)) + 1
      BY <3>3, HoldersFinite, FS_AddElement
    <3>5. sentCount'[m] = sentCount[m] + 1
      BY <2>1, <3>1 DEF TypeOK
    <3>6. Acknowledged(m)' = Acknowledged(m) /\ Cardinality(Acknowledged(m)) \in Nat
      BY <2>2, AcknowledgedFinite DEF Acknowledged, SlotInv
    <3>7. Cardinality(Holders(m)) \in Nat
      BY HoldersFinite
    <3>8. SlotsCovered(m)
      BY <2>1 DEF SlotInv
    <3>9. SlotsCovered(m)'
      BY <2>1, <2>2, <2>3, <3>4, <3>5, <3>6, <3>7, <3>8 DEF SlotFree, SlotsCovered
    <3>10. ASSUME NEW n \in Days \ {m} PROVE SlotsCovered(n)'
      <4>1. Same(n)
        BY <3>2
      <4>. QED
        BY <4>1, SlotsKept
    <3>. QED
      BY <2>2, <3>9, <3>10 DEF SlotInv
  <2>4. CASE ~SlotFree(m)
    <3>1. sentCount' = sentCount /\ pc' = [pc EXCEPT ![d] = "record"]
      BY <1>6, <2>1, <2>4 DEF Reserve, Goto, Finish
    <3>2. \A n \in Days : Holders(n)' \subseteq Holders(n)
      BY <2>1, <2>2, <3>1 DEF Holders, Holding, TypeOK
    <3>. QED
      BY <2>2, <3>1, <3>2, <1>0 DEF Acknowledged, SlotInv
  <2>. QED
    BY <2>3, <2>4
<1>7. ASSUME NEW d \in Dispatchers, Claim(d) PROVE SlotInv'
  <2>1. /\ pc[d] = "claim" /\ day' = day
        /\ pc' \in {[pc EXCEPT ![d] = "send"], [pc EXCEPT ![d] = "releaseSlot"]}
    BY <1>7 DEF Claim, Goto
  <2>2. \A n \in Days : Holders(n)' \subseteq Holders(n)
    BY <2>1 DEF Holders, Holding, TypeOK
  <2>. QED
    BY <1>7, <2>2, <1>0 DEF Claim, Acknowledged, SlotInv
<1>8. ASSUME NEW d \in Dispatchers, Send(d) PROVE SlotInv'
  <2> DEFINE m == day[d]
             e == EmailOf(d, "sent")
  <2>1. /\ pc[d] = "send" /\ pc' = [pc EXCEPT ![d] = "delete"] /\ day' = day
        /\ sentCount' = sentCount /\ emails' = emails \cup {e}
    BY <1>8 DEF Send, Goto
  <2>2. m \in Days /\ sentCount[m] \in Nat
    BY DEF TypeOK
  <2>3. e.day = m /\ e.status = "sent"
    BY DEF EmailOf
  <2>4. \A n \in Days \ {m} : Same(n)
    BY <2>1, <2>3 DEF Holders, Holding, Acknowledged, TypeOK
  <2>5. Holders(m)' = Holders(m) \ {d} /\ d \in Holders(m)
    BY <2>1, <2>2 DEF Holders, Holding, TypeOK
  <2>6. Cardinality(Holders(m)') = Cardinality(Holders(m)) - 1
    BY <2>5, HoldersFinite, FS_RemoveElement
  <2>7. Acknowledged(m)' = Acknowledged(m) \cup {e}
    BY <2>1, <2>3 DEF Acknowledged
  <2>8. IsFiniteSet(emails) /\ IsFiniteSet(emails')
    BY <2>1, FS_AddElement DEF SlotInv
  <2>9. /\ Cardinality(Acknowledged(m)) \in Nat
        /\ Cardinality(Acknowledged(m)') \in {Cardinality(Acknowledged(m)),
                                              Cardinality(Acknowledged(m)) + 1}
    BY <2>7, <2>8, AcknowledgedFinite, FS_AddElement
  <2>10. Cardinality(Holders(m)) \in Nat /\ SlotsCovered(m)
    BY <2>2, HoldersFinite DEF SlotInv
  <2>11. SlotsCovered(m)'
    BY <2>1, <2>2, <2>6, <2>9, <2>10 DEF SlotsCovered
  <2>12. ASSUME NEW n \in Days \ {m} PROVE SlotsCovered(n)'
    <3>1. Same(n)
      BY <2>4
    <3>. QED
      BY <3>1, SlotsKept
  <2>. QED
    BY <2>1, <2>8, <2>11, <2>12 DEF SlotInv
<1>9. ASSUME NEW d \in Dispatchers, NEW label \in Labels,
             pc[d] \in Holding \/ label \notin Holding,
             pc' = [pc EXCEPT ![d] = label], \A b \in Dispatchers \ {d} : day'[b] = day[b],
             day'[d] = day[d] \/ label \notin Holding,
             sentCount' = sentCount,
             emails' = emails \/ emails' = emails \cup {EmailOf(d, "unacknowledged")}
      PROVE  SlotInv'
  <2>1. \A n \in Days : Holders(n)' \subseteq Holders(n)
    BY <1>9 DEF Holders, TypeOK
  <2>2. \A n \in Days : Acknowledged(n)' \subseteq Acknowledged(n)
    BY <1>9 DEF Acknowledged, EmailOf
  <2>3. IsFiniteSet(emails')
    BY <1>9, FS_AddElement DEF SlotInv
  <2>. QED
    BY <1>9, <2>1, <2>2, <2>3, <1>0
<1>10. ASSUME NEW d \in Dispatchers, SendFails(d) PROVE SlotInv'
  <2>1. /\ pc[d] = "send" /\ pc' = [pc EXCEPT ![d] = "releaseClaim"] /\ day' = day
        /\ sentCount' = sentCount
        /\ emails' = emails \/ emails' = emails \cup {EmailOf(d, "unacknowledged")}
    BY <1>10 DEF SendFails, Goto
  <2>2. "releaseClaim" \in Labels
    BY DEF Labels
  <2>. QED
    BY <2>1, <2>2, <1>9 DEF Holding
<1>11. ASSUME NEW d \in Dispatchers, ReleaseClaim(d) PROVE SlotInv'
  <2>1. /\ pc[d] = "releaseClaim" /\ pc' = [pc EXCEPT ![d] = "releaseSlot"] /\ day' = day
        /\ sentCount' = sentCount /\ emails' = emails
    BY <1>11 DEF ReleaseClaim, Goto
  <2>2. "releaseSlot" \in Labels
    BY DEF Labels
  <2>. QED
    BY <2>1, <2>2, <1>9 DEF Holding
<1>12. ASSUME NEW d \in Dispatchers, ReleaseSlot(d) PROVE SlotInv'
  <2> DEFINE m == day[d]
  <2>1. /\ pc[d] = "releaseSlot" /\ pc' = [pc EXCEPT ![d] = "record"] /\ day' = day
        /\ emails' = emails /\ m \in Days /\ sentCount[m] \in Nat
    BY <1>12 DEF ReleaseSlot, Goto, TypeOK
  <2>2. CASE sentCount' = sentCount
    <3>1. "record" \in Labels
      BY DEF Labels
    <3>. QED
      BY <2>1, <2>2, <3>1, <1>9 DEF Holding
  <2>3. CASE sentCount' = [sentCount EXCEPT ![m] = Released(@)]
    <3>1. \A n \in Days \ {m} : Same(n)
      BY <2>1, <2>3 DEF Holders, Holding, Acknowledged, TypeOK
    <3>2. Holders(m)' = Holders(m) \ {d} /\ d \in Holders(m)
      BY <2>1 DEF Holders, Holding, TypeOK
    <3>3. /\ Cardinality(Holders(m)') = Cardinality(Holders(m)) - 1
          /\ Cardinality(Holders(m)') \in Nat /\ Cardinality(Holders(m)) \in Nat
      BY <3>2, HoldersFinite, FS_RemoveElement, FS_CardinalityType
    <3>4. Acknowledged(m)' = Acknowledged(m) /\ Cardinality(Acknowledged(m)) \in Nat
      BY <2>1, AcknowledgedFinite DEF Acknowledged, SlotInv
    <3>5. SlotsCovered(m)
      BY <2>1 DEF SlotInv
    <3>6. sentCount[m] > 0
      BY <2>1, <3>3, <3>4, <3>5 DEF SlotsCovered
    <3>7. sentCount'[m] = sentCount[m] - 1
      BY <2>1, <2>3, <3>6 DEF Released, TypeOK
    <3>8. DailyLimit \in Nat
      BY DispatchAssumption
    <3>9. SlotsCovered(m)'
      BY <2>1, <3>3, <3>4, <3>5, <3>7, <3>8 DEF SlotsCovered
    <3>10. ASSUME NEW n \in Days \ {m} PROVE SlotsCovered(n)'
      <4>1. Same(n)
        BY <3>1
      <4>. QED
        BY <4>1, SlotsKept
    <3>. QED
      BY <2>1, <3>9, <3>10 DEF SlotInv
  <2>. QED
    BY <1>12, <2>2, <2>3 DEF ReleaseSlot
<1>13. ASSUME NEW d \in Dispatchers, DeleteSent(d) PROVE SlotInv'
  <2>1. /\ pc' = [pc EXCEPT ![d] = "record"] /\ day' = day /\ sentCount' = sentCount
        /\ emails' = {Settled(e, token[d]) : e \in emails}
    BY <1>13 DEF DeleteSent, Finish, Goto
  <2> SUFFICES ASSUME NEW n \in Days PROVE IsFiniteSet(emails') /\ SlotsCovered(n)'
    BY <2>1, FS_Surjection, SettlingKeepsCount, DispatchAssumption DEF SlotInv, Days
  <2>2. Holders(n)' \subseteq Holders(n)
    BY <2>1 DEF Holders, Holding, TypeOK
  <2>3. /\ IsFiniteSet(emails') /\ Cardinality(Acknowledged(n)') \in Nat
        /\ Cardinality(Acknowledged(n)') <= Cardinality(Acknowledged(n))
    BY <2>1, SettlingKeepsCount DEF SlotInv
  <2>4. /\ Cardinality(Holders(n)) \in Nat /\ Cardinality(Holders(n)') \in Nat
        /\ Cardinality(Holders(n)') <= Cardinality(Holders(n))
    BY <2>2, HoldersFinite, SmallerSet
  <2>5. Cardinality(Acknowledged(n)) \in Nat /\ SlotsCovered(n)
    BY AcknowledgedFinite DEF SlotInv
  <2>6. sentCount[n] \in Nat /\ DailyLimit \in Nat
    BY DispatchAssumption DEF TypeOK
  <2>. QED
    BY <2>1, <2>3, <2>4, <2>5, <2>6 DEF SlotsCovered
<1>14. ASSUME NEW d \in Dispatchers, Record(d) \/ Kill(d) PROVE SlotInv'
  <2>1. /\ pc' = [pc EXCEPT ![d] = "idle"] /\ day' = [day EXCEPT ![d] = 1]
        /\ sentCount' = sentCount
        /\ emails' = emails \/ emails' = emails \cup {EmailOf(d, "unacknowledged")}
    BY <1>14 DEF Record, Kill, Forget, Goto
  <2>2. \A b \in Dispatchers \ {d} : day'[b] = day[b]
    BY <2>1 DEF TypeOK
  <2>3. "idle" \in Labels
    BY DEF Labels
  <2>. QED
    BY <2>1, <2>2, <2>3, <1>9 DEF Holding
<1>15. ASSUME NEW d \in Dispatchers, Unconfigured(d) PROVE SlotInv'
  <2>1. /\ pc' = [pc EXCEPT ![d] = "record"] /\ day' = day
        /\ sentCount' = sentCount /\ emails' = emails
    BY <1>15 DEF Unconfigured, Finish, Goto
  <2>2. "record" \in Labels
    BY DEF Labels
  <2>. QED
    BY <2>1, <2>2, <1>9 DEF Holding
<1>16. CASE UNCHANGED vars
  BY <1>16, <1>0 DEF vars, Holders, Acknowledged, SlotInv
<1>. QED
  BY <1>1, <1>2, <1>3, <1>4, <1>5, <1>6, <1>7, <1>8, <1>10, <1>11, <1>12, <1>13, <1>14,
     <1>15, <1>16 DEF Next, Step

\* However dispatches interleave, fail and die, no day has more acknowledged emails
\* than FEEDBACK_MAX_DAILY_EMAILS.
THEOREM DailyLimitHolds == Spec => []WithinDailyLimit
<1>1. TypeOK /\ SlotInv => WithinDailyLimit
  <2> SUFFICES ASSUME TypeOK, SlotInv, NEW n \in Days
               PROVE  Cardinality(Acknowledged(n)) <= DailyLimit
    BY DEF WithinDailyLimit
  <2>1. Cardinality(Acknowledged(n)) \in Nat /\ Cardinality(Holders(n)) \in Nat
    BY AcknowledgedFinite, HoldersFinite DEF SlotInv
  <2>2. sentCount[n] \in Nat /\ DailyLimit \in Nat /\ SlotsCovered(n)
    BY DispatchAssumption DEF TypeOK, SlotInv
  <2>. QED
    BY <2>1, <2>2 DEF SlotsCovered
<1>2. TypeOK /\ SlotInv /\ [Next]_vars => SlotInv'
  BY SlotInvStep
<1>. QED
  BY <1>1, <1>2, SlotInvInit, TypeCorrect, PTL DEF Spec

(***************************************************************************)
(* Claims.  A claim id belongs to one dispatch, the rows that carry it are *)
(* among the reports of its email, and nothing is claimed, mailed or kept  *)
(* that was not accepted.                                                  *)
(***************************************************************************)
ClaimInv ==
  /\ \A r \in Reports : claim[r] < nextClaim
  /\ \A r \in Reports \ queue : claim[r] = NoClaim
  /\ stale \subseteq 1..(nextClaim - 1)
  /\ \A d \in Dispatchers : token[d] < nextClaim
  /\ \A d \in Dispatchers : pc[d] \in {"send", "delete", "releaseClaim"} => token[d] # NoClaim
  /\ \A d, b \in Dispatchers : token[d] = token[b] /\ token[d] # NoClaim => d = b
  /\ \A d \in Dispatchers : token[d] # NoClaim => Rows(token[d]) \subseteq batch[d]
  /\ \A e \in emails : e.claim \in 1..(nextClaim - 1)

OriginInv ==
  /\ queue \subseteq accepted
  /\ \A d \in Dispatchers : batch[d] \subseteq accepted
  /\ \A e \in emails : e.reports \subseteq accepted

MailedInv ==
  /\ \A d \in Dispatchers : \A e \in emails : e.claim = token[d] => e.reports = batch[d]
  /\ \A d \in Dispatchers : pc[d] = "delete" => \E e \in emails : e.claim = token[d]

\* The two outcomes of a claim: it takes some unclaimed rows, or finds none.
LEMMA ClaimCases ==
  ASSUME NEW d \in Dispatchers, Claim(d)
  PROVE  \/ \E S \in SUBSET Unclaimed :
              /\ claim' = [r \in Reports |-> IF r \in S THEN nextClaim ELSE claim[r]]
              /\ token' = [token EXCEPT ![d] = nextClaim]
              /\ batch' = [batch EXCEPT ![d] = S]
              /\ nextClaim' = nextClaim + 1
              /\ pc' = [pc EXCEPT ![d] = "send"]
         \/ /\ UNCHANGED <<claim, token, batch, nextClaim>>
            /\ pc' = [pc EXCEPT ![d] = "releaseSlot"]
<1> DEFINE S == Oldest(Unclaimed, BatchSize(d))
<1>1. S \in SUBSET Unclaimed
  BY OldestIsSubset
<1> HIDE DEF S
<1>. QED
  BY <1>1 DEF Claim, Goto, S

\* Settling touches the status of an email only.
LEMMA SettledSame ==
  ASSUME TypeOK, NEW c, emails' = {Settled(e, c) : e \in emails}
  PROVE  /\ \A x \in emails' : \E e \in emails : x.claim = e.claim /\ x.reports = e.reports
         /\ \A e \in emails : \E x \in emails' : x.claim = e.claim /\ x.reports = e.reports
<1>1. \A e \in emails : Settled(e, c).claim = e.claim /\ Settled(e, c).reports = e.reports
  BY DEF Settled, TypeOK, Email
<1>. QED
  BY <1>1

\* A message that goes out while the dispatcher d is sending.
LEMMA MailStep ==
  ASSUME NEW d \in Dispatchers, Send(d) \/ SendFails(d) \/ Kill(d)
  PROVE  \/ emails' = emails
         \/ /\ pc[d] = "send"
            /\ \E s \in {"sent", "unacknowledged"} : emails' = emails \cup {EmailOf(d, s)}
BY DEF Send, SendFails, Kill

LEMMA EmailOfFields ==
  \A d, s : EmailOf(d, s).claim = token[d] /\ EmailOf(d, s).reports = batch[d]
BY DEF EmailOf

LEMMA ClaimInvStep ==
  ASSUME TypeOK, ClaimInv, [Next]_vars
  PROVE  ClaimInv'
<1> USE DispatchAssumption DEF table, locals, history, NoClaim, Days
<1>1. ASSUME NEW r \in Reports, Accept(r) PROVE ClaimInv'
  BY <1>1 DEF Accept, ClaimInv, Rows, HolderOf, EmailOf, TypeOK, Goto, Finish, Forget
<1>2. ASSUME NEW r \in Reports, Withdraw(r) PROVE ClaimInv'
  BY <1>2 DEF Withdraw, ClaimInv, Rows, HolderOf, EmailOf, TypeOK, Goto, Finish, Forget
<1>3. CASE NextDay
  BY <1>3 DEF NextDay, ClaimInv, Rows, HolderOf, EmailOf, TypeOK, Goto, Finish, Forget
<1>4. ASSUME NEW c \in 1..(nextClaim - 1), Age(c) PROVE ClaimInv'
  BY <1>4 DEF Age, ClaimInv, Rows, HolderOf, EmailOf, TypeOK, Goto, Finish, Forget
<1>5. ASSUME NEW d \in Dispatchers, Begin(d) PROVE ClaimInv'
  <2>1. claim' = [r \in Reports |-> Freed(r)]
    BY <1>5 DEF Begin
  <2>2. UNCHANGED <<queue, stale, token, batch, nextClaim, emails>> /\ pc' = [pc EXCEPT ![d] = "count"]
    BY <1>5 DEF Begin, Goto
  <2>3. \A r \in Reports : claim'[r] = claim[r] \/ claim'[r] = NoClaim
    BY <2>1 DEF Freed
  <2>5. ASSUME NEW b \in Dispatchers, token'[b] # NoClaim
        PROVE  Rows(token[b])' \subseteq batch'[b]
    <3>1. token'[b] = token[b] /\ batch'[b] = batch[b] /\ Rows(token[b]) \subseteq batch[b]
      BY <2>2, <2>5 DEF ClaimInv
    <3>2. \A r \in queue' : claim'[r] = token[b] => r \in queue /\ claim[r] = token[b]
      BY <2>2, <2>3, <2>5, <3>1 DEF TypeOK
    <3>. QED
      BY <3>1, <3>2 DEF Rows
  <2>6. \A r \in Reports : claim'[r] < nextClaim'
    <3>1. nextClaim' = nextClaim /\ nextClaim \in Nat \ {0}
      BY <2>2 DEF TypeOK
    <3>2. \A r \in Reports : claim[r] < nextClaim
      BY DEF ClaimInv
    <3>. QED
      BY <2>3, <3>1, <3>2
  <2>7. \A r \in Reports \ queue' : claim'[r] = NoClaim
    BY <2>2, <2>3 DEF ClaimInv
  <2>8. \A b \in Dispatchers : pc'[b] \in {"send", "delete", "releaseClaim"} => pc'[b] = pc[b]
    BY <2>2 DEF TypeOK
  <2>. QED
    BY <2>2, <2>5, <2>6, <2>7, <2>8 DEF ClaimInv
<1>6. ASSUME NEW d \in Dispatchers, Count(d) PROVE ClaimInv'
  BY <1>6 DEF Count, ClaimInv, Rows, HolderOf, EmailOf, TypeOK, Goto, Finish, Forget
<1>7. ASSUME NEW d \in Dispatchers, Reserve(d) PROVE ClaimInv'
  BY <1>7 DEF Reserve, ClaimInv, Rows, HolderOf, EmailOf, TypeOK, Goto, Finish, Forget
<1>8. ASSUME NEW d \in Dispatchers, Claim(d) PROVE ClaimInv'
  <2>1. UNCHANGED <<queue, stale, emails>>
    BY <1>8 DEF Claim
  <2>2. CASE \E S \in SUBSET Unclaimed :
               /\ claim' = [r \in Reports |-> IF r \in S THEN nextClaim ELSE claim[r]]
               /\ token' = [token EXCEPT ![d] = nextClaim]
               /\ batch' = [batch EXCEPT ![d] = S]
               /\ nextClaim' = nextClaim + 1
               /\ pc' = [pc EXCEPT ![d] = "send"]
    <3>1. PICK S \in SUBSET Unclaimed :
               /\ claim' = [r \in Reports |-> IF r \in S THEN nextClaim ELSE claim[r]]
               /\ token' = [token EXCEPT ![d] = nextClaim]
               /\ batch' = [batch EXCEPT ![d] = S]
               /\ nextClaim' = nextClaim + 1
               /\ pc' = [pc EXCEPT ![d] = "send"]
      BY <2>2
    <3>2. S \subseteq queue /\ \A r \in S : claim[r] = NoClaim
      BY DEF Unclaimed
    <3>3. /\ \A r \in Reports : claim'[r] < nextClaim'
          /\ \A r \in Reports \ queue' : claim'[r] = NoClaim
      BY <2>1, <3>1, <3>2 DEF ClaimInv, TypeOK
    <3>4. \A b \in Dispatchers : b # d => token'[b] = token[b] /\ batch'[b] = batch[b]
      BY <3>1 DEF TypeOK
    <3>5. token'[d] = nextClaim /\ batch'[d] = S
      BY <3>1 DEF TypeOK
    <3>6. ASSUME NEW b \in Dispatchers, b # d, token'[b] # NoClaim
          PROVE  Rows(token[b])' \subseteq batch'[b]
      <4>1. token[b] < nextClaim /\ token[b] \in Nat /\ nextClaim \in Nat
        BY DEF ClaimInv, TypeOK
      <4>2. token'[b] = token[b] /\ batch'[b] = batch[b] /\ Rows(token[b]) \subseteq batch[b]
        BY <3>4, <3>6 DEF ClaimInv
      <4>3. \A r \in queue' : claim'[r] = token[b] => r \in queue /\ claim[r] = token[b]
        BY <2>1, <3>1, <4>1 DEF TypeOK
      <4>. QED
        BY <4>2, <4>3 DEF Rows
    <3>7. Rows(token[d])' \subseteq batch'[d]
      <4>1. \A r \in Reports : claim[r] # nextClaim
        BY DEF ClaimInv, TypeOK
      <4>2. \A r \in queue' : claim'[r] = nextClaim => r \in S
        BY <2>1, <3>1, <4>1 DEF TypeOK
      <4>. QED
        BY <3>5, <4>2 DEF Rows
    <3>8. \A b \in Dispatchers : token'[b] # NoClaim => Rows(token[b])' \subseteq batch'[b]
      BY <3>6, <3>7
    <3>9. \A b, c \in Dispatchers : token'[b] = token'[c] /\ token'[b] # NoClaim => b = c
      <4>1. \A b \in Dispatchers : token[b] # nextClaim
        BY DEF ClaimInv, TypeOK
      <4>2. \A b \in Dispatchers : token'[b] = nextClaim => b = d
        BY <3>4, <4>1
      <4>. QED
        BY <3>4, <3>5, <4>2 DEF ClaimInv
    <3>10. /\ \A b \in Dispatchers : token'[b] < nextClaim'
           /\ \A b \in Dispatchers : pc'[b] \in {"send", "delete", "releaseClaim"}
                                      => token'[b] # NoClaim
      <4>1. \A b \in Dispatchers : b # d => pc'[b] = pc[b] /\ token'[b] = token[b]
        BY <3>1, <3>4 DEF TypeOK
      <4>2. nextClaim' = nextClaim + 1 /\ nextClaim \in Nat \ {0} /\ token \in [Dispatchers -> Nat]
        BY <3>1 DEF TypeOK
      <4>3. \A b \in Dispatchers : token[b] < nextClaim
        BY DEF ClaimInv
      <4>4. \A b \in Dispatchers : token'[b] < nextClaim'
        BY <3>5, <4>1, <4>2, <4>3
      <4>. QED
        BY <3>5, <4>1, <4>2, <4>4 DEF ClaimInv
    <3>11. stale' \subseteq 1..(nextClaim' - 1) /\ \A e \in emails' : e.claim \in 1..(nextClaim' - 1)
      BY <2>1, <3>1 DEF ClaimInv, TypeOK
    <3>. QED
      BY <3>3, <3>8, <3>9, <3>10, <3>11 DEF ClaimInv
  <2>3. CASE UNCHANGED <<claim, token, batch, nextClaim>> /\ pc' = [pc EXCEPT ![d] = "releaseSlot"]
    BY <2>1, <2>3 DEF ClaimInv, Rows, TypeOK
  <2>. QED
    BY <1>8, <2>2, <2>3, ClaimCases
<1>9. ASSUME NEW d \in Dispatchers, Send(d) PROVE ClaimInv'
  BY <1>9 DEF Send, ClaimInv, Rows, HolderOf, EmailOf, TypeOK, Goto, Finish, Forget
<1>10. ASSUME NEW d \in Dispatchers, SendFails(d) PROVE ClaimInv'
  BY <1>10 DEF SendFails, ClaimInv, Rows, HolderOf, EmailOf, TypeOK, Goto, Finish, Forget
<1>11. ASSUME NEW d \in Dispatchers, ReleaseClaim(d) PROVE ClaimInv'
  <2>1. UNCHANGED <<queue, stale, token, batch, nextClaim, emails>>
        /\ pc' = [pc EXCEPT ![d] = "releaseSlot"]
    BY <1>11 DEF ReleaseClaim, Goto
  <2>2. \A r \in Reports : claim'[r] = claim[r] \/ claim'[r] = NoClaim
    BY <1>11 DEF ReleaseClaim
  <2>3. ASSUME NEW b \in Dispatchers, token'[b] # NoClaim
        PROVE  Rows(token[b])' \subseteq batch'[b]
    <3>1. token'[b] = token[b] /\ batch'[b] = batch[b] /\ Rows(token[b]) \subseteq batch[b]
      BY <2>1, <2>3 DEF ClaimInv
    <3>2. \A r \in queue' : claim'[r] = token[b] => r \in queue /\ claim[r] = token[b]
      BY <2>1, <2>2, <2>3, <3>1 DEF TypeOK
    <3>. QED
      BY <3>1, <3>2 DEF Rows
  <2>4. \A r \in Reports : claim'[r] < nextClaim'
    <3>1. nextClaim' = nextClaim /\ nextClaim \in Nat \ {0}
      BY <2>1 DEF TypeOK
    <3>2. \A r \in Reports : claim[r] < nextClaim
      BY DEF ClaimInv
    <3>. QED
      BY <2>2, <3>1, <3>2
  <2>5. \A r \in Reports \ queue' : claim'[r] = NoClaim
    BY <2>1, <2>2 DEF ClaimInv
  <2>6. \A b \in Dispatchers : pc'[b] \in {"send", "delete", "releaseClaim"} => pc'[b] = pc[b]
    BY <2>1 DEF TypeOK
  <2>. QED
    BY <2>1, <2>3, <2>4, <2>5, <2>6 DEF ClaimInv
<1>12. ASSUME NEW d \in Dispatchers, ReleaseSlot(d) PROVE ClaimInv'
  BY <1>12 DEF ReleaseSlot, ClaimInv, Rows, HolderOf, EmailOf, TypeOK, Goto, Finish, Forget
<1>13. ASSUME NEW d \in Dispatchers, DeleteSent(d) PROVE ClaimInv'
  <2>1. /\ UNCHANGED <<stale, token, batch, nextClaim>> /\ pc' = [pc EXCEPT ![d] = "record"]
        /\ queue' = queue \ Rows(token[d])
        /\ claim' = [r \in Reports |-> IF claim[r] = token[d] THEN NoClaim ELSE claim[r]]
        /\ emails' = {Settled(e, token[d]) : e \in emails}
    BY <1>13 DEF DeleteSent, Finish, Goto
  <2>2. \A r \in Reports : claim'[r] = claim[r] \/ claim'[r] = NoClaim
    BY <2>1
  <2>3. \A r \in Reports \ queue' : claim'[r] = NoClaim
    BY <2>1 DEF ClaimInv, Rows, TypeOK
  <2>4. \A b \in Dispatchers : token[b] # NoClaim => Rows(token[b])' \subseteq batch[b]
    BY <2>1, <2>2 DEF ClaimInv, Rows, TypeOK
  <2>5. \A x \in emails' : \E e \in emails : x.claim = e.claim
    BY <2>1, SettledSame
  <2>6. \A x \in emails' : x.claim \in 1..(nextClaim - 1)
    BY <2>5 DEF ClaimInv
  <2>. QED
    BY <2>1, <2>2, <2>3, <2>4, <2>6 DEF ClaimInv, TypeOK
<1>14. ASSUME NEW d \in Dispatchers, Record(d) PROVE ClaimInv'
  <2>1. /\ UNCHANGED <<queue, claim, stale, nextClaim, emails>>
        /\ pc' = [pc EXCEPT ![d] = "idle"]
        /\ token' = [token EXCEPT ![d] = NoClaim] /\ batch' = [batch EXCEPT ![d] = {}]
    BY <1>14 DEF Record, Forget, Goto
  <2>2. \A b \in Dispatchers : b # d => /\ token'[b] = token[b] /\ batch'[b] = batch[b]
                                        /\ pc'[b] = pc[b]
    BY <2>1 DEF TypeOK
  <2>3. token'[d] = NoClaim /\ pc'[d] = "idle"
    BY <2>1 DEF TypeOK
  <2>4. \A b \in Dispatchers : token'[b] # NoClaim => Rows(token[b])' \subseteq batch'[b]
    BY <2>1, <2>2, <2>3 DEF ClaimInv, Rows
  <2>5. \A b \in Dispatchers : token'[b] < nextClaim'
    BY <2>1, <2>2, <2>3 DEF ClaimInv, TypeOK
  <2>. QED
    BY <2>1, <2>2, <2>3, <2>4, <2>5 DEF ClaimInv
<1>15. ASSUME NEW d \in Dispatchers, Unconfigured(d) PROVE ClaimInv'
  BY <1>15 DEF Unconfigured, ClaimInv, Rows, HolderOf, EmailOf, TypeOK, Goto, Finish, Forget
<1>16. ASSUME NEW d \in Dispatchers, Kill(d) PROVE ClaimInv'
  <2>1. /\ UNCHANGED <<queue, claim, stale, nextClaim>> /\ pc' = [pc EXCEPT ![d] = "idle"]
        /\ token' = [token EXCEPT ![d] = NoClaim] /\ batch' = [batch EXCEPT ![d] = {}]
    BY <1>16 DEF Kill, Forget, Goto
  <2>2. pc[d] = "send" => token[d] \in 1..(nextClaim - 1)
    BY DEF ClaimInv, TypeOK
  <2>3. \A e \in emails' : e \in emails \/ (pc[d] = "send" /\ e.claim = token[d])
    <3>1. \/ emails' = emails
          \/ pc[d] = "send" /\ emails' = emails \cup {EmailOf(d, "unacknowledged")}
      BY <1>16 DEF Kill
    <3>. QED
      BY <3>1, EmailOfFields
  <2>4. \A e \in emails' : e.claim \in 1..(nextClaim' - 1)
    BY <2>1, <2>2, <2>3 DEF ClaimInv
  <2>5. \A b \in Dispatchers : b # d => /\ token'[b] = token[b] /\ batch'[b] = batch[b]
                                        /\ pc'[b] = pc[b]
    BY <2>1 DEF TypeOK
  <2>6. token'[d] = NoClaim /\ pc'[d] = "idle"
    BY <2>1 DEF TypeOK
  <2>7. \A b \in Dispatchers : token'[b] # NoClaim => Rows(token[b])' \subseteq batch'[b]
    BY <2>1, <2>5, <2>6 DEF ClaimInv, Rows
  <2>8. \A b \in Dispatchers : token'[b] < nextClaim'
    BY <2>1, <2>5, <2>6 DEF ClaimInv, TypeOK
  <2>. QED
    BY <2>1, <2>4, <2>5, <2>6, <2>7, <2>8 DEF ClaimInv
<1>17. CASE UNCHANGED vars
  BY <1>17 DEF vars, ClaimInv, Rows, HolderOf, EmailOf, TypeOK, Goto, Finish, Forget
<1>. QED
  BY <1>1, <1>2, <1>3, <1>4, <1>5, <1>6, <1>7, <1>8, <1>9, <1>10, <1>11, <1>12, <1>13,
     <1>14, <1>15, <1>16, <1>17 DEF Next, Step

LEMMA OriginInvStep ==
  ASSUME TypeOK, OriginInv, [Next]_vars
  PROVE  OriginInv'
<1> USE DispatchAssumption DEF table, locals, history, NoClaim, Days
<1>1. ASSUME NEW r \in Reports, Accept(r) PROVE OriginInv'
  BY <1>1 DEF Accept, OriginInv, EmailOf, TypeOK, Goto, Finish, Forget
<1>2. ASSUME NEW r \in Reports, Withdraw(r) PROVE OriginInv'
  BY <1>2 DEF Withdraw, OriginInv, EmailOf, TypeOK, Goto, Finish, Forget
<1>3. CASE NextDay
  BY <1>3 DEF NextDay, OriginInv, EmailOf, TypeOK, Goto, Finish, Forget
<1>4. ASSUME NEW c \in 1..(nextClaim - 1), Age(c) PROVE OriginInv'
  BY <1>4 DEF Age, OriginInv, EmailOf, TypeOK, Goto, Finish, Forget
<1>5. ASSUME NEW d \in Dispatchers, Begin(d) PROVE OriginInv'
  BY <1>5 DEF Begin, OriginInv, EmailOf, TypeOK, Goto, Finish, Forget
<1>6. ASSUME NEW d \in Dispatchers, Count(d) PROVE OriginInv'
  BY <1>6 DEF Count, OriginInv, EmailOf, TypeOK, Goto, Finish, Forget
<1>7. ASSUME NEW d \in Dispatchers, Reserve(d) PROVE OriginInv'
  BY <1>7 DEF Reserve, OriginInv, EmailOf, TypeOK, Goto, Finish, Forget
<1>8. ASSUME NEW d \in Dispatchers, Claim(d) PROVE OriginInv'
  <2>1. UNCHANGED <<queue, accepted, emails>>
    BY <1>8 DEF Claim
  <2>2. \A b \in Dispatchers : batch'[b] = batch[b] \/ batch'[b] \subseteq queue
    <3>1. \/ UNCHANGED batch
          \/ \E S \in SUBSET Unclaimed : batch' = [batch EXCEPT ![d] = S]
      BY <1>8, ClaimCases
    <3>. QED
      BY <3>1 DEF Unclaimed, TypeOK
  <2>. QED
    BY <2>1, <2>2 DEF OriginInv
<1>9. ASSUME NEW d \in Dispatchers, Send(d) PROVE OriginInv'
  BY <1>9 DEF Send, OriginInv, EmailOf, TypeOK, Goto, Finish, Forget
<1>10. ASSUME NEW d \in Dispatchers, SendFails(d) PROVE OriginInv'
  <2>1. UNCHANGED <<queue, accepted>> /\ \A b \in Dispatchers : batch'[b] \subseteq batch[b]
    BY <1>10 DEF SendFails, Kill, Forget, TypeOK
  <2>2. \A e \in emails' : e.reports \subseteq accepted
    BY <1>10, MailStep, EmailOfFields DEF OriginInv
  <2>. QED
    BY <2>1, <2>2 DEF OriginInv
<1>11. ASSUME NEW d \in Dispatchers, ReleaseClaim(d) PROVE OriginInv'
  BY <1>11 DEF ReleaseClaim, OriginInv, EmailOf, TypeOK, Goto, Finish, Forget
<1>12. ASSUME NEW d \in Dispatchers, ReleaseSlot(d) PROVE OriginInv'
  BY <1>12 DEF ReleaseSlot, OriginInv, EmailOf, TypeOK, Goto, Finish, Forget
<1>13. ASSUME NEW d \in Dispatchers, DeleteSent(d) PROVE OriginInv'
  <2>1. /\ UNCHANGED <<accepted, batch>> /\ queue' \subseteq queue
        /\ emails' = {Settled(e, token[d]) : e \in emails}
    BY <1>13 DEF DeleteSent
  <2>. QED
    BY <2>1, SettledSame DEF OriginInv
<1>14. ASSUME NEW d \in Dispatchers, Record(d) PROVE OriginInv'
  BY <1>14 DEF Record, OriginInv, EmailOf, TypeOK, Goto, Finish, Forget
<1>15. ASSUME NEW d \in Dispatchers, Unconfigured(d) PROVE OriginInv'
  BY <1>15 DEF Unconfigured, OriginInv, EmailOf, TypeOK, Goto, Finish, Forget
<1>16. ASSUME NEW d \in Dispatchers, Kill(d) PROVE OriginInv'
  <2>1. UNCHANGED <<queue, accepted>> /\ \A b \in Dispatchers : batch'[b] \subseteq batch[b]
    BY <1>16 DEF SendFails, Kill, Forget, TypeOK
  <2>2. \A e \in emails' : e.reports \subseteq accepted
    BY <1>16, MailStep, EmailOfFields DEF OriginInv
  <2>. QED
    BY <2>1, <2>2 DEF OriginInv
<1>17. CASE UNCHANGED vars
  BY <1>17 DEF vars, OriginInv, EmailOf, TypeOK, Goto, Finish, Forget
<1>. QED
  BY <1>1, <1>2, <1>3, <1>4, <1>5, <1>6, <1>7, <1>8, <1>9, <1>10, <1>11, <1>12, <1>13,
     <1>14, <1>15, <1>16, <1>17 DEF Next, Step

LEMMA MailedInvStep ==
  ASSUME TypeOK, ClaimInv, MailedInv, [Next]_vars
  PROVE  MailedInv'
<1> USE DispatchAssumption DEF table, locals, history, NoClaim, Days
<1>1. ASSUME NEW r \in Reports, Accept(r) PROVE MailedInv'
  BY <1>1 DEF Accept, MailedInv, TypeOK, Goto, Finish, Forget
<1>2. ASSUME NEW r \in Reports, Withdraw(r) PROVE MailedInv'
  BY <1>2 DEF Withdraw, MailedInv, TypeOK, Goto, Finish, Forget
<1>3. CASE NextDay
  BY <1>3 DEF NextDay, MailedInv, TypeOK, Goto, Finish, Forget
<1>4. ASSUME NEW c \in 1..(nextClaim - 1), Age(c) PROVE MailedInv'
  BY <1>4 DEF Age, MailedInv, TypeOK, Goto, Finish, Forget
<1>5. ASSUME NEW d \in Dispatchers, Begin(d) PROVE MailedInv'
  BY <1>5 DEF Begin, MailedInv, TypeOK, Goto, Finish, Forget
<1>6. ASSUME NEW d \in Dispatchers, Count(d) PROVE MailedInv'
  BY <1>6 DEF Count, MailedInv, TypeOK, Goto, Finish, Forget
<1>7. ASSUME NEW d \in Dispatchers, Reserve(d) PROVE MailedInv'
  BY <1>7 DEF Reserve, MailedInv, TypeOK, Goto, Finish, Forget
<1>8. ASSUME NEW d \in Dispatchers, Claim(d) PROVE MailedInv'
  <2>1. UNCHANGED emails
    BY <1>8 DEF Claim
  <2>2. \A b \in Dispatchers : b # d => /\ token'[b] = token[b] /\ batch'[b] = batch[b]
                                        /\ pc'[b] = pc[b]
    BY <1>8, ClaimCases DEF TypeOK
  <2>3. pc'[d] # "delete"
    BY <1>8, ClaimCases DEF TypeOK
  <2>4. \/ token'[d] = nextClaim
        \/ token'[d] = token[d] /\ batch'[d] = batch[d]
    BY <1>8, ClaimCases DEF TypeOK
  <2>5. \A e \in emails : e.claim # nextClaim
    BY DEF ClaimInv, TypeOK
  <2>. QED
    BY <2>1, <2>2, <2>3, <2>4, <2>5 DEF MailedInv
<1>9. ASSUME NEW d \in Dispatchers, Send(d) PROVE MailedInv'
  <2>1. /\ pc[d] = "send" /\ pc' = [pc EXCEPT ![d] = "delete"] /\ UNCHANGED <<token, batch>>
        /\ emails' = emails \cup {EmailOf(d, "sent")}
    BY <1>9 DEF Send, Goto
  <2>2. \A b \in Dispatchers : token[b] = token[d] => b = d
    BY <2>1 DEF ClaimInv
  <2>3. ASSUME NEW b \in Dispatchers, NEW e \in emails', e.claim = token'[b]
        PROVE  e.reports = batch'[b]
    <3>1. e \in emails \/ (e.claim = token[d] /\ e.reports = batch[d])
      BY <2>1, EmailOfFields
    <3>. QED
      BY <2>1, <2>2, <2>3, <3>1 DEF MailedInv
  <2>4. ASSUME NEW b \in Dispatchers, pc'[b] = "delete"
        PROVE  \E e \in emails' : e.claim = token'[b]
    <3>1. CASE b = d
      BY <2>1, <3>1, EmailOfFields
    <3>2. CASE b # d
      <4>1. pc[b] = "delete"
        BY <2>1, <2>4, <3>2 DEF TypeOK
      <4>. QED
        BY <2>1, <4>1 DEF MailedInv
    <3>. QED
      BY <3>1, <3>2
  <2>. QED
    BY <2>3, <2>4 DEF MailedInv
<1>10. ASSUME NEW d \in Dispatchers, SendFails(d) PROVE MailedInv'
  <2>1. /\ pc[d] = "send" /\ pc' = [pc EXCEPT ![d] = "releaseClaim"]
        /\ UNCHANGED <<token, batch>>
        /\ emails' = emails \/ emails' = emails \cup {EmailOf(d, "unacknowledged")}
    BY <1>10 DEF SendFails, Goto
  <2>2. \A b \in Dispatchers : token[b] = token[d] => b = d
    BY <2>1 DEF ClaimInv
  <2>3. ASSUME NEW b \in Dispatchers, NEW e \in emails', e.claim = token'[b]
        PROVE  e.reports = batch'[b]
    <3>1. e \in emails \/ (e.claim = token[d] /\ e.reports = batch[d])
      BY <2>1, EmailOfFields
    <3>. QED
      BY <2>1, <2>2, <2>3, <3>1 DEF MailedInv
  <2>4. ASSUME NEW b \in Dispatchers, pc'[b] = "delete"
        PROVE  \E e \in emails' : e.claim = token'[b]
    <3>1. pc[b] = "delete"
      BY <2>1, <2>4 DEF TypeOK
    <3>. QED
      BY <2>1, <3>1 DEF MailedInv
  <2>. QED
    BY <2>3, <2>4 DEF MailedInv
<1>11. ASSUME NEW d \in Dispatchers, ReleaseClaim(d) PROVE MailedInv'
  BY <1>11 DEF ReleaseClaim, MailedInv, TypeOK, Goto, Finish, Forget
<1>12. ASSUME NEW d \in Dispatchers, ReleaseSlot(d) PROVE MailedInv'
  BY <1>12 DEF ReleaseSlot, MailedInv, TypeOK, Goto, Finish, Forget
<1>13. ASSUME NEW d \in Dispatchers, DeleteSent(d) PROVE MailedInv'
  <2>1. /\ pc' = [pc EXCEPT ![d] = "record"] /\ UNCHANGED <<token, batch>>
        /\ emails' = {Settled(e, token[d]) : e \in emails}
    BY <1>13 DEF DeleteSent, Finish, Goto
  <2>2. \A b \in Dispatchers : pc'[b] = "delete" => pc[b] = "delete"
    BY <2>1 DEF TypeOK
  <2>3. /\ \A x \in emails' : \E e \in emails : x.claim = e.claim /\ x.reports = e.reports
        /\ \A e \in emails : \E x \in emails' : x.claim = e.claim /\ x.reports = e.reports
    BY <2>1, SettledSame
  <2>4. ASSUME NEW b \in Dispatchers, NEW x \in emails', x.claim = token'[b]
        PROVE  x.reports = batch'[b]
    BY <2>1, <2>3, <2>4 DEF MailedInv
  <2>5. ASSUME NEW b \in Dispatchers, pc'[b] = "delete"
        PROVE  \E x \in emails' : x.claim = token'[b]
    <3>1. PICK e \in emails : e.claim = token[b]
      BY <2>2, <2>5 DEF MailedInv
    <3>. QED
      BY <2>1, <2>3, <3>1
  <2>. QED
    BY <2>4, <2>5 DEF MailedInv
<1>14. ASSUME NEW d \in Dispatchers, Record(d) PROVE MailedInv'
  <2>1. /\ pc' = [pc EXCEPT ![d] = "idle"]
        /\ token' = [token EXCEPT ![d] = NoClaim] /\ batch' = [batch EXCEPT ![d] = {}]
    BY <1>14 DEF Record, Kill, Forget, Goto
  <2>2. \A b \in Dispatchers : b # d => /\ token'[b] = token[b] /\ batch'[b] = batch[b]
                                        /\ pc'[b] = pc[b]
    BY <2>1 DEF TypeOK
  <2>3. token'[d] = NoClaim /\ pc'[d] = "idle"
    BY <2>1 DEF TypeOK
  <2>4. emails' = emails /\ \A e \in emails : e.claim # NoClaim
    BY <1>14 DEF Record, ClaimInv
  <2>. QED
    BY <2>2, <2>3, <2>4 DEF MailedInv
<1>15. ASSUME NEW d \in Dispatchers, Unconfigured(d) PROVE MailedInv'
  BY <1>15 DEF Unconfigured, MailedInv, TypeOK, Goto, Finish, Forget
<1>16. ASSUME NEW d \in Dispatchers, Kill(d) PROVE MailedInv'
  <2>1. /\ pc' = [pc EXCEPT ![d] = "idle"]
        /\ token' = [token EXCEPT ![d] = NoClaim] /\ batch' = [batch EXCEPT ![d] = {}]
    BY <1>16 DEF Record, Kill, Forget, Goto
  <2>2. \A b \in Dispatchers : b # d => /\ token'[b] = token[b] /\ batch'[b] = batch[b]
                                        /\ pc'[b] = pc[b]
    BY <2>1 DEF TypeOK
  <2>3. token'[d] = NoClaim /\ pc'[d] = "idle"
    BY <2>1 DEF TypeOK
  <2>4. \A e \in emails' : e.claim # NoClaim
    BY <1>16, MailStep, EmailOfFields DEF ClaimInv
  <2>5. \A b \in Dispatchers : b # d => \A e \in emails' : e.claim = token[b] => e.reports = batch[b]
    BY <1>16, MailStep, EmailOfFields DEF ClaimInv, MailedInv
  <2>6. emails \subseteq emails'
    BY <1>16, MailStep
  <2>. QED
    BY <2>2, <2>3, <2>4, <2>5, <2>6 DEF MailedInv
<1>17. CASE UNCHANGED vars
  BY <1>17 DEF vars, MailedInv, TypeOK, Goto, Finish, Forget
<1>. QED
  BY <1>1, <1>2, <1>3, <1>4, <1>5, <1>6, <1>7, <1>8, <1>9, <1>10, <1>11, <1>12, <1>13,
     <1>14, <1>15, <1>16, <1>17 DEF Next, Step

LEMMA RetainedStep ==
  ASSUME TypeOK, ClaimInv, MailedInv, UnemailedReportsRetained, [Next]_vars
  PROVE  UnemailedReportsRetained'
<1> USE DispatchAssumption DEF table, locals, history, NoClaim, Days
<1>1. ASSUME NEW r \in Reports, Accept(r) PROVE UnemailedReportsRetained'
  BY <1>1 DEF Accept, UnemailedReportsRetained
<1>2. ASSUME NEW r \in Reports, Withdraw(r) PROVE UnemailedReportsRetained'
  BY <1>2 DEF Withdraw, UnemailedReportsRetained
<1>3. CASE NextDay
  BY <1>3 DEF NextDay, UnemailedReportsRetained
<1>4. ASSUME NEW c \in 1..(nextClaim - 1), Age(c) PROVE UnemailedReportsRetained'
  BY <1>4 DEF Age, UnemailedReportsRetained
<1>5. ASSUME NEW d \in Dispatchers, Begin(d) PROVE UnemailedReportsRetained'
  BY <1>5 DEF Begin, UnemailedReportsRetained
<1>6. ASSUME NEW d \in Dispatchers, Count(d) PROVE UnemailedReportsRetained'
  BY <1>6 DEF Count, UnemailedReportsRetained
<1>7. ASSUME NEW d \in Dispatchers, Reserve(d) PROVE UnemailedReportsRetained'
  BY <1>7 DEF Reserve, UnemailedReportsRetained
<1>8. ASSUME NEW d \in Dispatchers, Claim(d) PROVE UnemailedReportsRetained'
  BY <1>8 DEF Claim, UnemailedReportsRetained
<1>9. ASSUME NEW d \in Dispatchers, Send(d) PROVE UnemailedReportsRetained'
  BY <1>9 DEF Send, UnemailedReportsRetained
<1>10. ASSUME NEW d \in Dispatchers, SendFails(d) PROVE UnemailedReportsRetained'
  BY <1>10 DEF SendFails, UnemailedReportsRetained
<1>11. ASSUME NEW d \in Dispatchers, ReleaseClaim(d) PROVE UnemailedReportsRetained'
  BY <1>11 DEF ReleaseClaim, UnemailedReportsRetained
<1>12. ASSUME NEW d \in Dispatchers, ReleaseSlot(d) PROVE UnemailedReportsRetained'
  BY <1>12 DEF ReleaseSlot, UnemailedReportsRetained
<1>13. ASSUME NEW d \in Dispatchers, DeleteSent(d) PROVE UnemailedReportsRetained'
  <2>1. /\ pc[d] = "delete" /\ UNCHANGED <<accepted, withdrawn>>
        /\ queue' = queue \ Rows(token[d])
        /\ emails' = {Settled(e, token[d]) : e \in emails}
    BY <1>13 DEF DeleteSent
  <2>2. PICK e \in emails : e.claim = token[d]
    BY <2>1 DEF MailedInv
  <2>3. Rows(token[d]) \subseteq e.reports
    BY <2>1, <2>2 DEF MailedInv, ClaimInv
  <2>4. \A r \in accepted : \/ r \in queue' \cup withdrawn
                             \/ \E f \in emails : r \in f.reports
    BY <2>1, <2>2, <2>3 DEF UnemailedReportsRetained
  <2>5. \A f \in emails : \E x \in emails' : x.reports = f.reports
    BY <2>1, SettledSame
  <2>. QED
    BY <2>1, <2>4, <2>5 DEF UnemailedReportsRetained
<1>14. ASSUME NEW d \in Dispatchers, Record(d) PROVE UnemailedReportsRetained'
  BY <1>14 DEF Record, UnemailedReportsRetained
<1>15. ASSUME NEW d \in Dispatchers, Unconfigured(d) PROVE UnemailedReportsRetained'
  BY <1>15 DEF Unconfigured, UnemailedReportsRetained
<1>16. ASSUME NEW d \in Dispatchers, Kill(d) PROVE UnemailedReportsRetained'
  BY <1>16 DEF Kill, UnemailedReportsRetained
<1>17. CASE UNCHANGED vars
  BY <1>17 DEF vars, UnemailedReportsRetained
<1>. QED
  BY <1>1, <1>2, <1>3, <1>4, <1>5, <1>6, <1>7, <1>8, <1>9, <1>10, <1>11, <1>12, <1>13,
     <1>14, <1>15, <1>16, <1>17 DEF Next, Step

\* No accepted report is lost between intake and email: it is queued, withdrawn by
\* retention or an administrator, or in an email that went out.
THEOREM ReportsRetained == Spec => []UnemailedReportsRetained
<1>1. Init => ClaimInv /\ MailedInv /\ UnemailedReportsRetained
  BY DEF Init, ClaimInv, MailedInv, UnemailedReportsRetained, NoClaim, Rows
<1>2. TypeOK /\ ClaimInv /\ [Next]_vars => ClaimInv'
  BY ClaimInvStep
<1>3. TypeOK /\ ClaimInv /\ MailedInv /\ [Next]_vars => MailedInv'
  BY MailedInvStep
<1>4. TypeOK /\ ClaimInv /\ MailedInv /\ UnemailedReportsRetained /\ [Next]_vars
      => UnemailedReportsRetained'
  BY RetainedStep
<1>. QED
  BY <1>1, <1>2, <1>3, <1>4, TypeCorrect, PTL DEF Spec

(***************************************************************************)
(* The refinement.  Every statement of a dispatch is an action of the      *)
(* abstract mailbox on the rows it touches, or invisible to it.            *)
(***************************************************************************)
Mailed == UNION {e.reports : e \in emails}

LEMMA MailedByOne ==
  ASSUME NEW d \in Dispatchers, NEW s, emails' = emails \cup {EmailOf(d, s)}
  PROVE  Mailed' = Mailed \cup batch[d]
BY EmailOfFields DEF Mailed

\* With the emails as they were, a step that leaves the queue alone is a stutter.
LEMMA QuietStep ==
  ASSUME UNCHANGED <<queue, accepted, withdrawn, emails>>
  PROVE  UNCHANGED Mailbox!vars
BY DEF Mailbox!vars

LEMMA MailIsMail ==
  ASSUME OriginInv, NEW d \in Dispatchers, NEW s, batch[d] \subseteq Reports,
         emails' = emails \cup {EmailOf(d, s)},
         UNCHANGED <<queue, accepted, withdrawn>>
  PROVE  Mailbox!Next
<1>1. Mailbox!Mail(batch[d])
  BY MailedByOne DEF Mailbox!Mail, OriginInv, Mailed
<1>2. batch[d] \in SUBSET Reports
  OBVIOUS
<1>3. \E S \in SUBSET Reports : Mailbox!Mail(S) \/ Mailbox!Settle(S)
  BY <1>1, <1>2 DEF Mailbox!Mail
<1>. QED
  BY <1>3 DEF Mailbox!Next

LEMMA MailboxStep ==
  ASSUME TypeOK, ClaimInv, OriginInv, MailedInv, [Next]_vars
  PROVE  Mailbox!Next \/ UNCHANGED Mailbox!vars
<1> USE DEF table, locals, history
<1>1. ASSUME NEW r \in Reports, Accept(r) PROVE Mailbox!Next
  <2>1. Mailbox!Accept(r)
    BY <1>1 DEF Accept, Mailbox!Accept
  <2>. QED
    BY <2>1 DEF Mailbox!Next
<1>2. ASSUME NEW r \in Reports, Withdraw(r) PROVE Mailbox!Next
  <2>1. Mailbox!Withdraw(r)
    BY <1>2 DEF Withdraw, Mailbox!Withdraw
  <2>. QED
    BY <2>1 DEF Mailbox!Next
<1>3. CASE NextDay
  BY <1>3, QuietStep DEF NextDay
<1>4. ASSUME NEW c \in 1..(nextClaim - 1), Age(c) PROVE UNCHANGED Mailbox!vars
  BY <1>4, QuietStep DEF Age
<1>5. ASSUME NEW d \in Dispatchers, Begin(d) PROVE UNCHANGED Mailbox!vars
  BY <1>5, QuietStep DEF Begin
<1>6. ASSUME NEW d \in Dispatchers, Count(d) PROVE UNCHANGED Mailbox!vars
  BY <1>6, QuietStep DEF Count
<1>7. ASSUME NEW d \in Dispatchers, Reserve(d) PROVE UNCHANGED Mailbox!vars
  BY <1>7, QuietStep DEF Reserve
<1>8. ASSUME NEW d \in Dispatchers, Claim(d) PROVE UNCHANGED Mailbox!vars
  BY <1>8, QuietStep DEF Claim
<1>9. ASSUME NEW d \in Dispatchers, Send(d) \/ SendFails(d) \/ Kill(d)
      PROVE  Mailbox!Next \/ UNCHANGED Mailbox!vars
  <2>1. UNCHANGED <<queue, accepted, withdrawn>> /\ batch[d] \subseteq Reports
    BY <1>9 DEF Send, SendFails, Kill, TypeOK
  <2>2. emails' = emails \/ \E s : emails' = emails \cup {EmailOf(d, s)}
    BY <1>9, MailStep
  <2>3. CASE emails' = emails
    BY <2>1, <2>3, QuietStep
  <2>4. ASSUME NEW s, emails' = emails \cup {EmailOf(d, s)} PROVE Mailbox!Next
    BY <2>1, <2>4, MailIsMail
  <2>. QED
    BY <2>2, <2>3, <2>4
<1>10. ASSUME NEW d \in Dispatchers, ReleaseClaim(d) PROVE UNCHANGED Mailbox!vars
  BY <1>10, QuietStep DEF ReleaseClaim
<1>11. ASSUME NEW d \in Dispatchers, ReleaseSlot(d) PROVE UNCHANGED Mailbox!vars
  BY <1>11, QuietStep DEF ReleaseSlot
<1>12. ASSUME NEW d \in Dispatchers, DeleteSent(d) PROVE Mailbox!Next
  <2>1. /\ pc[d] = "delete" /\ UNCHANGED <<accepted, withdrawn>>
        /\ queue' = queue \ Rows(token[d])
        /\ emails' = {Settled(e, token[d]) : e \in emails}
    BY <1>12 DEF DeleteSent
  <2>2. Rows(token[d]) \subseteq Mailed
    <3>1. PICK e \in emails : e.claim = token[d]
      BY <2>1 DEF MailedInv
    <3>2. Rows(token[d]) \subseteq e.reports
      BY <2>1, <3>1 DEF MailedInv, ClaimInv
    <3>. QED
      BY <3>1, <3>2 DEF Mailed
  <2>3. Mailed' = Mailed
    <3>1. /\ \A x \in emails' : \E e \in emails : x.reports = e.reports
          /\ \A e \in emails : \E x \in emails' : x.reports = e.reports
      BY <2>1, SettledSame
    <3>2. Mailed' \subseteq Mailed
      BY <3>1 DEF Mailed
    <3>3. Mailed \subseteq Mailed'
      BY <3>1 DEF Mailed
    <3>. QED
      BY <3>2, <3>3
  <2>4. Rows(token[d]) \subseteq queue /\ Rows(token[d]) \subseteq Reports
    BY DEF Rows, TypeOK
  <2>5. Mailbox!Settle(Rows(token[d]))
    BY <2>1, <2>2, <2>3, <2>4 DEF Mailbox!Settle, Mailed
  <2>. QED
    BY <2>4, <2>5 DEF Mailbox!Next
<1>13. ASSUME NEW d \in Dispatchers, Record(d) PROVE UNCHANGED Mailbox!vars
  BY <1>13, QuietStep DEF Record
<1>14. ASSUME NEW d \in Dispatchers, Unconfigured(d) PROVE UNCHANGED Mailbox!vars
  BY <1>14, QuietStep DEF Unconfigured
<1>15. CASE UNCHANGED vars
  <2>1. UNCHANGED <<queue, accepted, withdrawn, emails>>
    BY <1>15 DEF vars
  <2>. QED
    BY <2>1, QuietStep
<1>. QED
  BY <1>1, <1>2, <1>3, <1>4, <1>5, <1>6, <1>7, <1>8, <1>9, <1>10, <1>11, <1>12, <1>13,
     <1>14, <1>15 DEF Next, Step

\* The statement-level dispatch implements the abstract mailbox: reports are accepted,
\* mailed, settled and withdrawn, and only a mailed report is settled.
THEOREM ImplementsMailbox == Spec => Mailbox!Spec
<1>1. Init => ClaimInv /\ OriginInv /\ MailedInv
  BY DEF Init, ClaimInv, OriginInv, MailedInv, NoClaim, Rows
<1>2. Init => Mailbox!Init
  BY DEF Init, Mailbox!Init
<1>3. TypeOK /\ ClaimInv /\ [Next]_vars => ClaimInv'
  BY ClaimInvStep
<1>4. TypeOK /\ OriginInv /\ [Next]_vars => OriginInv'
  BY OriginInvStep
<1>5. TypeOK /\ ClaimInv /\ MailedInv /\ [Next]_vars => MailedInv'
  BY MailedInvStep
<1>6. TypeOK /\ ClaimInv /\ OriginInv /\ MailedInv /\ [Next]_vars
      => [Mailbox!Next]_(Mailbox!vars)
  BY MailboxStep
<1>. QED
  BY <1>1, <1>2, <1>3, <1>4, <1>5, <1>6, TypeCorrect, PTL DEF Spec, Mailbox!Spec

-----------------------------------------------------------------------------
(***************************************************************************)
(* No report twice.  The rows of a dispatch that has not outlived its      *)
(* claim stay claimed by it until it deletes them, so no later claim takes *)
(* one of them, and what is deleted is never queued again.                 *)
(***************************************************************************)

\* No claim after c has one of the reports of S, in hand or in an email.
Sealed(c, S) ==
  /\ \A b \in Dispatchers : token[b] > c => batch[b] \cap S = {}
  /\ \A f \in emails : f.claim > c => f.reports \cap S = {}

Sending(d) == pc[d] \in {"send", "delete"}

HeldInv ==
  \A d \in Dispatchers : Sending(d) /\ token[d] \notin outlived =>
    /\ token[d] \notin stale
    /\ \A r \in batch[d] \cap queue : claim[r] = token[d]
    /\ Sealed(token[d], batch[d])

SettledInv ==
  \A e \in emails : e.status = "settled" /\ e.claim \notin outlived =>
    e.reports \cap queue = {} /\ Sealed(e.claim, e.reports)

\* A dispatch gets rows by claiming unclaimed ones, and in no other way.
LEMMA BatchStep ==
  ASSUME TypeOK, [Next]_vars, NEW b \in Dispatchers
  PROVE  \/ token'[b] = token[b] /\ batch'[b] = batch[b]
         \/ token'[b] = NoClaim
         \/ batch'[b] \subseteq Unclaimed
<1> USE DEF table, locals, history
<1>1. ASSUME NEW r \in Reports, Accept(r) \/ Withdraw(r) PROVE UNCHANGED <<token, batch>>
  BY <1>1 DEF Accept, Withdraw
<1>2. ASSUME NEW c \in 1..(nextClaim - 1), Age(c) PROVE UNCHANGED <<token, batch>>
  BY <1>2 DEF Age
<1>3. ASSUME NEW d \in Dispatchers,
             \/ Begin(d) \/ Count(d) \/ Reserve(d) \/ Send(d) \/ DeleteSent(d)
             \/ ReleaseClaim(d) \/ ReleaseSlot(d) \/ Unconfigured(d) \/ SendFails(d)
      PROVE  UNCHANGED <<token, batch>>
  BY <1>3 DEF Begin, Count, Reserve, Send, DeleteSent, ReleaseClaim, ReleaseSlot,
              Unconfigured, SendFails
<1>4. ASSUME NEW d \in Dispatchers, Record(d) \/ Kill(d)
      PROVE  token'[b] = NoClaim \/ (token'[b] = token[b] /\ batch'[b] = batch[b])
  BY <1>4 DEF Record, Kill, Forget, TypeOK
<1>5. ASSUME NEW d \in Dispatchers, Claim(d)
      PROVE  batch'[b] \subseteq Unclaimed \/ (token'[b] = token[b] /\ batch'[b] = batch[b])
  BY <1>5, ClaimCases DEF TypeOK
<1>6. NextDay \/ UNCHANGED vars => UNCHANGED <<token, batch>>
  BY DEF NextDay, vars
<1>. QED
  BY <1>1, <1>2, <1>3, <1>4, <1>5, <1>6 DEF Next, Step

\* An email has the rows of the dispatch that sent it, and its claim.
LEMMA EmailStep ==
  ASSUME TypeOK, [Next]_vars, NEW f \in emails'
  PROVE  \/ \E e \in emails : f.claim = e.claim /\ f.reports = e.reports
         \/ \E d \in Dispatchers : f.claim = token[d] /\ f.reports = batch[d]
<1> USE DEF table, locals, history
<1>1. ASSUME NEW r \in Reports, Accept(r) \/ Withdraw(r) PROVE UNCHANGED emails
  BY <1>1 DEF Accept, Withdraw
<1>2. ASSUME NEW c \in 1..(nextClaim - 1), Age(c) PROVE UNCHANGED emails
  BY <1>2 DEF Age
<1>3. ASSUME NEW d \in Dispatchers,
             \/ Begin(d) \/ Count(d) \/ Reserve(d) \/ Claim(d) \/ Record(d)
             \/ ReleaseClaim(d) \/ ReleaseSlot(d) \/ Unconfigured(d)
      PROVE  UNCHANGED emails
  BY <1>3 DEF Begin, Count, Reserve, Claim, Record, ReleaseClaim, ReleaseSlot, Unconfigured
<1>4. ASSUME NEW d \in Dispatchers, Send(d) \/ SendFails(d) \/ Kill(d)
      PROVE  f \in emails \/ (f.claim = token[d] /\ f.reports = batch[d])
  BY <1>4, MailStep, EmailOfFields
<1>5. ASSUME NEW d \in Dispatchers, DeleteSent(d)
      PROVE  \E e \in emails : f.claim = e.claim /\ f.reports = e.reports
  BY <1>5, SettledSame DEF DeleteSent
<1>6. NextDay \/ UNCHANGED vars => UNCHANGED emails
  BY DEF NextDay, vars
<1>. QED
  BY <1>1, <1>2, <1>3, <1>4, <1>5, <1>6 DEF Next, Step

LEMMA SealedStep ==
  ASSUME TypeOK, [Next]_vars, NEW c \in Nat, NEW S, Sealed(c, S), S \cap Unclaimed = {}
  PROVE  Sealed(c, S)'
<1>1. ASSUME NEW b \in Dispatchers, token'[b] > c PROVE batch'[b] \cap S = {}
  <2>1. token'[b] # NoClaim
    BY <1>1 DEF NoClaim
  <2>. QED
    BY <1>1, <2>1, BatchStep DEF Sealed
<1>2. ASSUME NEW f \in emails', f.claim > c PROVE f.reports \cap S = {}
  BY <1>2, EmailStep DEF Sealed
<1>. QED
  BY <1>1, <1>2 DEF Sealed

\* Only what was never accepted enters the queue.
LEMMA QueueStep ==
  ASSUME TypeOK, [Next]_vars
  PROVE  queue' \cap accepted \subseteq queue
<1> USE DEF table, locals, history
<1>1. ASSUME NEW r \in Reports, Accept(r) PROVE queue' \cap accepted \subseteq queue
  BY <1>1 DEF Accept
<1>2. ASSUME NEW r \in Reports, Withdraw(r) PROVE queue' \subseteq queue
  BY <1>2 DEF Withdraw
<1>3. ASSUME NEW d \in Dispatchers,
             \/ Begin(d) \/ Count(d) \/ Reserve(d) \/ Claim(d) \/ Send(d) \/ Record(d)
             \/ ReleaseClaim(d) \/ ReleaseSlot(d) \/ Unconfigured(d) \/ SendFails(d) \/ Kill(d)
      PROVE  UNCHANGED queue
  BY <1>3 DEF Begin, Count, Reserve, Claim, Send, Record, ReleaseClaim, ReleaseSlot,
              Unconfigured, SendFails, Kill
<1>4. ASSUME NEW d \in Dispatchers, DeleteSent(d) PROVE queue' \subseteq queue
  BY <1>4 DEF DeleteSent
<1>5. ASSUME NEW c \in 1..(nextClaim - 1), Age(c) PROVE UNCHANGED queue
  BY <1>5 DEF Age
<1>6. NextDay \/ UNCHANGED vars => UNCHANGED queue
  BY DEF NextDay, vars
<1>. QED
  BY <1>1, <1>2, <1>3, <1>4, <1>5, <1>6 DEF Next, Step

\* Whose dispatch goes on keeps its row, unless half an hour has passed.
LEMMA RowKept ==
  ASSUME TypeOK, ClaimInv, [Next]_vars, NEW d \in Dispatchers, Sending(d), Sending(d)',
         token[d] \notin stale, NEW r \in Reports, claim[r] = token[d], r \in queue'
  PROVE  claim'[r] = claim[r]
<1> USE DEF table, locals, history
<1>. token[d] # NoClaim /\ \A b \in Dispatchers : token[b] = token[d] => b = d
  BY DEF ClaimInv, Sending
<1>1. ASSUME NEW s \in Reports, Accept(s) PROVE claim'[r] = claim[r]
  BY <1>1 DEF Accept
<1>2. ASSUME NEW s \in Reports, Withdraw(s) PROVE claim'[r] = claim[r]
  BY <1>2 DEF Withdraw, TypeOK
<1>3. ASSUME NEW b \in Dispatchers,
             \/ Count(b) \/ Reserve(b) \/ Send(b) \/ Record(b)
             \/ ReleaseSlot(b) \/ Unconfigured(b) \/ SendFails(b) \/ Kill(b)
      PROVE  UNCHANGED claim
  BY <1>3 DEF Count, Reserve, Send, Record, ReleaseSlot, Unconfigured, SendFails, Kill
<1>4. ASSUME NEW b \in Dispatchers, Begin(b) PROVE claim'[r] = claim[r]
  BY <1>4 DEF Begin, Freed
<1>5. ASSUME NEW b \in Dispatchers, Claim(b) PROVE claim'[r] = claim[r]
  <2>1. r \notin Unclaimed
    BY DEF Unclaimed
  <2>. QED
    BY <1>5, <2>1, ClaimCases
<1>6. ASSUME NEW b \in Dispatchers, ReleaseClaim(b) PROVE claim'[r] = claim[r]
  <2>1. b # d
    BY <1>6 DEF ReleaseClaim, Sending
  <2>2. claim'[r] \in {claim[r], IF claim[r] = token[b] THEN NoClaim ELSE claim[r]}
    BY <1>6 DEF ReleaseClaim
  <2>. QED
    BY <2>1, <2>2
<1>7. ASSUME NEW b \in Dispatchers, DeleteSent(b) PROVE claim'[r] = claim[r]
  <2>1. b # d
    BY <1>7 DEF DeleteSent, Finish, Goto, Sending, TypeOK
  <2>. QED
    BY <1>7, <2>1 DEF DeleteSent
<1>8. ASSUME NEW c \in 1..(nextClaim - 1), Age(c) PROVE UNCHANGED claim
  BY <1>8 DEF Age
<1>9. NextDay \/ UNCHANGED vars => UNCHANGED claim
  BY DEF NextDay, vars
<1>. QED
  BY <1>1, <1>2, <1>3, <1>4, <1>5, <1>6, <1>7, <1>8, <1>9 DEF Next, Step

\* A claim grows stale under its dispatch only by outliving it.
LEMMA StaleStep ==
  ASSUME TypeOK, [Next]_vars
  PROVE  /\ outlived \subseteq outlived'
         /\ \A d \in Dispatchers :
              Sending(d) /\ token[d] \in stale' => token[d] \in stale \cup outlived'
<1> USE DEF table, locals, history
<1>1. ASSUME NEW r \in Reports, Accept(r) \/ Withdraw(r) PROVE UNCHANGED <<stale, outlived>>
  BY <1>1 DEF Accept, Withdraw
<1>2. ASSUME NEW d \in Dispatchers, Step(d) \/ Unconfigured(d) \/ SendFails(d) \/ Kill(d)
      PROVE  UNCHANGED <<stale, outlived>>
  BY <1>2 DEF Step, Begin, Count, Reserve, Claim, Send, DeleteSent, Record, ReleaseClaim,
              ReleaseSlot, Unconfigured, SendFails, Kill
<1>3. ASSUME NEW c \in 1..(nextClaim - 1), Age(c)
      PROVE  /\ outlived \subseteq outlived'
             /\ \A d \in Dispatchers :
                  Sending(d) /\ token[d] \in stale' => token[d] \in stale \cup outlived'
  <2>1. stale' = stale \cup {c}
    BY <1>3 DEF Age
  <2>2. HolderOf(c) # {} => outlived' = outlived \cup {c}
    BY <1>3 DEF Age
  <2>3. \A d \in Dispatchers : Sending(d) /\ token[d] = c => HolderOf(c) # {}
    BY DEF Sending, HolderOf
  <2>4. outlived \subseteq outlived'
    BY <1>3 DEF Age
  <2>. QED
    BY <2>1, <2>2, <2>3, <2>4
<1>4. NextDay \/ UNCHANGED vars => UNCHANGED <<stale, outlived>>
  BY DEF NextDay, vars
<1>. QED
  BY <1>1, <1>2, <1>3, <1>4 DEF Next

\* Who sends has just claimed, or was sending before.
LEMMA SendingStep ==
  ASSUME TypeOK, [Next]_vars, NEW d \in Dispatchers, Sending(d)', ~Claim(d)
  PROVE  Sending(d) /\ token'[d] = token[d] /\ batch'[d] = batch[d]
<1> USE DEF table, locals, history
<1>1. ASSUME NEW r \in Reports, Accept(r) \/ Withdraw(r) PROVE UNCHANGED <<pc, token, batch>>
  BY <1>1 DEF Accept, Withdraw
<1>2. ASSUME NEW c \in 1..(nextClaim - 1), Age(c) PROVE UNCHANGED <<pc, token, batch>>
  BY <1>2 DEF Age
<1>3. NextDay \/ UNCHANGED vars => UNCHANGED <<pc, token, batch>>
  BY DEF NextDay, vars
<1>4. ASSUME NEW b \in Dispatchers,
             \/ Begin(b) \/ Reserve(b) \/ DeleteSent(b) \/ ReleaseClaim(b) \/ ReleaseSlot(b)
             \/ Unconfigured(b) \/ SendFails(b)
      PROVE  Sending(d) /\ token'[d] = token[d] /\ batch'[d] = batch[d]
  <2>1. /\ UNCHANGED <<token, batch>>
        /\ \E label \in Labels \ {"send", "delete"} : pc' = [pc EXCEPT ![b] = label]
    BY <1>4 DEF Begin, Reserve, DeleteSent, ReleaseClaim, ReleaseSlot, Unconfigured,
                SendFails, Finish, Goto, Labels
  <2>. QED
    BY <2>1 DEF Sending, TypeOK
<1>5. ASSUME NEW b \in Dispatchers, Count(b)
      PROVE  Sending(d) /\ token'[d] = token[d] /\ batch'[d] = batch[d]
  <2>1. UNCHANGED <<token, batch>>
    BY <1>5 DEF Count
  <2>2. Goto(b, "record") \/ Goto(b, "reserve")
    BY <1>5 DEF Count, Finish
  <2>. QED
    BY <2>1, <2>2 DEF Goto, Sending, TypeOK
<1>6. ASSUME NEW b \in Dispatchers, Send(b)
      PROVE  Sending(d) /\ token'[d] = token[d] /\ batch'[d] = batch[d]
  BY <1>6 DEF Send, Goto, Sending, TypeOK
<1>7. ASSUME NEW b \in Dispatchers, Claim(b)
      PROVE  Sending(d) /\ token'[d] = token[d] /\ batch'[d] = batch[d]
  <2>1. b # d
    BY <1>7
  <2>. QED
    BY <1>7, <2>1, ClaimCases DEF Sending, TypeOK
<1>8. ASSUME NEW b \in Dispatchers, Record(b) \/ Kill(b)
      PROVE  Sending(d) /\ token'[d] = token[d] /\ batch'[d] = batch[d]
  BY <1>8 DEF Record, Kill, Forget, Goto, Sending, TypeOK
<1>. QED
  BY <1>1, <1>2, <1>3, <1>4, <1>5, <1>6, <1>7, <1>8 DEF Next, Step, Sending

LEMMA HeldInvStep ==
  ASSUME TypeOK, ClaimInv, OriginInv, HeldInv, [Next]_vars
  PROVE  HeldInv'
<1>. SUFFICES ASSUME NEW d \in Dispatchers, Sending(d)', token'[d] \notin outlived'
              PROVE  /\ token'[d] \notin stale'
                     /\ \A r \in batch'[d] \cap queue' : claim'[r] = token'[d]
                     /\ \A b \in Dispatchers : token'[b] > token'[d] => batch'[b] \cap batch'[d] = {}
                     /\ \A f \in emails' : f.claim > token'[d] => f.reports \cap batch'[d] = {}
  BY DEF HeldInv, Sealed
<1>1. CASE Claim(d)
  <2>1. PICK S \in SUBSET Unclaimed :
          /\ claim' = [r \in Reports |-> IF r \in S THEN nextClaim ELSE claim[r]]
          /\ token' = [token EXCEPT ![d] = nextClaim]
          /\ batch' = [batch EXCEPT ![d] = S]
    BY <1>1, ClaimCases DEF Sending, TypeOK
  <2>2. UNCHANGED <<stale, emails, queue>>
    BY <1>1 DEF Claim
  <2>3. token'[d] = nextClaim /\ batch'[d] = S
    BY <2>1 DEF TypeOK
  <2>4. \A b \in Dispatchers : token'[b] <= nextClaim
    BY <2>1 DEF TypeOK, ClaimInv
  <2>5. \A f \in emails : f.claim < nextClaim
    BY DEF ClaimInv, TypeOK
  <2>6. nextClaim \notin stale
    BY DEF ClaimInv, TypeOK
  <2>7. S \subseteq Reports
    BY DEF Unclaimed, TypeOK
  <2>8. \A r \in S : claim'[r] = nextClaim
    BY <2>1, <2>7
  <2>9. (\A b \in Dispatchers : token'[b] \in Nat) /\ (\A f \in emails : f.claim \in Nat)
        /\ nextClaim \in Nat
    BY <2>1 DEF TypeOK, Email
  <2>10. \A b \in Dispatchers : ~(token'[b] > nextClaim)
    BY <2>4, <2>9
  <2>11. \A f \in emails' : ~(f.claim > nextClaim)
    BY <2>2, <2>5, <2>9
  <2>. QED
    BY <2>2, <2>3, <2>6, <2>8, <2>10, <2>11
<1>2. CASE ~Claim(d)
  <2>1. Sending(d) /\ token'[d] = token[d] /\ batch'[d] = batch[d]
    BY <1>2, SendingStep
  <2>2. token[d] \notin outlived
    BY <2>1, StaleStep
  <2>3. /\ token[d] \notin stale /\ Sealed(token[d], batch[d])
        /\ \A r \in batch[d] \cap queue : claim[r] = token[d]
    BY <2>1, <2>2 DEF HeldInv
  <2>4. token'[d] \notin stale'
    BY <2>1, <2>3, StaleStep
  <2>5. ASSUME NEW r \in batch[d] \cap queue' PROVE claim'[r] = token[d]
    <3>1. r \in accepted /\ r \in Reports
      BY DEF OriginInv, TypeOK
    <3>2. claim[r] = token[d]
      BY <2>3, <3>1, QueueStep
    <3>. QED
      BY <2>1, <2>3, <3>1, <3>2, RowKept
  <2>6. token[d] # NoClaim /\ token[d] \in Nat
    BY <2>1 DEF ClaimInv, TypeOK, Sending
  <2>7. batch[d] \cap Unclaimed = {}
    BY <2>3, <2>6 DEF Unclaimed
  <2>8. PICK c, S : c = token[d] /\ S = batch[d]
    OBVIOUS
  <2>9. Sealed(c, S)'
    BY <2>3, <2>6, <2>7, <2>8, SealedStep
  <2>. QED
    BY <2>1, <2>4, <2>5, <2>8, <2>9 DEF Sealed
<1>. QED
  BY <1>1, <1>2

\* An email becomes settled when its dispatch deletes the rows, or was settled before.
LEMMA SettledStep ==
  ASSUME TypeOK, [Next]_vars, NEW e \in emails', e.status = "settled"
  PROVE  \/ e \in emails
         \/ \E d \in Dispatchers : DeleteSent(d) /\ e.claim = token[d]
              /\ \E f \in emails : f.claim = e.claim /\ f.reports = e.reports
<1> USE DEF table, locals, history
<1>1. ASSUME NEW r \in Reports, Accept(r) \/ Withdraw(r) PROVE UNCHANGED emails
  BY <1>1 DEF Accept, Withdraw
<1>2. ASSUME NEW c \in 1..(nextClaim - 1), Age(c) PROVE UNCHANGED emails
  BY <1>2 DEF Age
<1>3. ASSUME NEW d \in Dispatchers,
             \/ Begin(d) \/ Count(d) \/ Reserve(d) \/ Claim(d) \/ Record(d)
             \/ ReleaseClaim(d) \/ ReleaseSlot(d) \/ Unconfigured(d)
      PROVE  UNCHANGED emails
  BY <1>3 DEF Begin, Count, Reserve, Claim, Record, ReleaseClaim, ReleaseSlot, Unconfigured
<1>4. ASSUME NEW d \in Dispatchers, Send(d) \/ SendFails(d) \/ Kill(d) PROVE e \in emails
  <2>1. \A s \in {"sent", "unacknowledged"} : EmailOf(d, s).status = s
    BY DEF EmailOf
  <2>. QED
    BY <1>4, <2>1, MailStep
<1>5. ASSUME NEW d \in Dispatchers, DeleteSent(d)
      PROVE  \/ e \in emails
             \/ e.claim = token[d] /\ \E f \in emails : f.claim = e.claim /\ f.reports = e.reports
  <2>1. PICK f \in emails : e = Settled(f, token[d])
    BY <1>5 DEF DeleteSent
  <2>2. e = f \/ (f.claim = token[d] /\ e = [f EXCEPT !.status = "settled"])
    BY <2>1 DEF Settled
  <2>3. f \in Email
    BY DEF TypeOK
  <2>. QED
    BY <2>2, <2>3 DEF Email
<1>6. NextDay \/ UNCHANGED vars => UNCHANGED emails
  BY DEF NextDay, vars
<1>. QED
  BY <1>1, <1>2, <1>3, <1>4, <1>5, <1>6 DEF Next, Step

LEMMA SettledInvStep ==
  ASSUME TypeOK, ClaimInv, OriginInv, MailedInv, HeldInv, SettledInv, [Next]_vars
  PROVE  SettledInv'
<1>. SUFFICES ASSUME NEW e \in emails', e.status = "settled", e.claim \notin outlived'
              PROVE  e.reports \cap queue' = {} /\ Sealed(e.claim, e.reports)'
  BY DEF SettledInv
<1>. e.claim \notin outlived
  BY StaleStep
<1>1. CASE e \in emails
  <2>1. e.reports \cap queue = {} /\ Sealed(e.claim, e.reports) /\ e.reports \subseteq accepted
        /\ e.claim \in Nat
    BY <1>1 DEF SettledInv, OriginInv, TypeOK, Email
  <2>2. e.reports \cap queue' = {}
    BY <2>1, QueueStep
  <2>3. e.reports \cap Unclaimed = {}
    BY <2>1 DEF Unclaimed
  <2>. QED
    BY <2>1, <2>2, <2>3, SealedStep
<1>2. ASSUME NEW d \in Dispatchers, DeleteSent(d), e.claim = token[d],
             NEW f \in emails, f.claim = e.claim, f.reports = e.reports
      PROVE  e.reports \cap queue' = {} /\ Sealed(e.claim, e.reports)'
  <2>1. Sending(d)
    BY <1>2 DEF DeleteSent, Sending
  <2>2. e.reports = batch[d] /\ e.claim \in Nat
    BY <1>2 DEF MailedInv, TypeOK
  <2>3. Sealed(e.claim, e.reports) /\ \A r \in e.reports \cap queue : claim[r] = token[d]
    BY <1>2, <2>1, <2>2 DEF HeldInv
  <2>4. queue' = queue \ Rows(token[d])
    BY <1>2 DEF DeleteSent
  <2>5. e.reports \cap queue' = {}
    BY <2>3, <2>4 DEF Rows
  <2>6. e.reports \cap Unclaimed = {}
    BY <2>1, <2>3 DEF Unclaimed, ClaimInv, Sending
  <2>. QED
    BY <2>2, <2>3, <2>5, <2>6, SealedStep
<1>. QED
  BY <1>1, <1>2, SettledStep

\* What an email has told the maintainers is not told again: after a dispatch that did
\* not outlive its claim has deleted its rows, no later claim contains one of them
\* (sendPendingFeedbackBatch: claim, send, delete by claim id).
THEOREM ReportsMailedOnce == Spec => []SettledReportsNotMailedAgain
<1>1. Init => ClaimInv /\ OriginInv /\ MailedInv /\ HeldInv /\ SettledInv
  BY DEF Init, ClaimInv, OriginInv, MailedInv, HeldInv, SettledInv, Sending, NoClaim, Rows
<1>2. TypeOK /\ ClaimInv /\ [Next]_vars => ClaimInv'
  BY ClaimInvStep
<1>3. TypeOK /\ OriginInv /\ [Next]_vars => OriginInv'
  BY OriginInvStep
<1>4. TypeOK /\ ClaimInv /\ MailedInv /\ [Next]_vars => MailedInv'
  BY MailedInvStep
<1>5. TypeOK /\ ClaimInv /\ OriginInv /\ HeldInv /\ [Next]_vars => HeldInv'
  BY HeldInvStep
<1>6. TypeOK /\ ClaimInv /\ OriginInv /\ MailedInv /\ HeldInv /\ SettledInv /\ [Next]_vars
      => SettledInv'
  BY SettledInvStep
<1>7. TypeOK /\ SettledInv => SettledReportsNotMailedAgain
  BY DEF TypeOK, Email, SettledInv, Sealed, SettledReportsNotMailedAgain
<1>. QED
  BY <1>1, <1>2, <1>3, <1>4, <1>5, <1>6, <1>7, TypeCorrect, PTL DEF Spec
=============================================================================
