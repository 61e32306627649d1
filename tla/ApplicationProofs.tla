--------------------------- MODULE ApplicationProofs ---------------------------
(***************************************************************************)
(* What is proved of the parts of the application.  The test control       *)
(* channel, for every vocabulary of commands and states and any number of  *)
(* commands: one command is in hand at a time, and the answers so far      *)
(* determine what a status answer says.  The score import, for any number  *)
(* of files; the settings, for every set of values; the named workspaces,  *)
(* for every set of names, ids and layouts.                                *)
(***************************************************************************)
EXTENDS MCApplication, FiniteSetTheorems, SequenceTheorems, WellFoundedInduction, TLAPS

\* A set of naturals that is not empty has a least element: what is left of the naturals
\* up to its elements is finite, and strict inclusion well-founded.
LEMMA LeastExists ==
  ASSUME NEW S \in SUBSET Nat, S # {}
  PROVE  \E m \in S : \A k \in S : m <= k
<1> DEFINE UpTo(m) == 0..m
           T == {UpTo(m) : m \in S}
<1>1. T \subseteq FiniteSubsetsOf(Nat) /\ T # {}
  <2>1. \A m \in S : IsFiniteSet(UpTo(m)) /\ UpTo(m) \subseteq Nat
    BY FS_Interval
  <2>. QED
    BY <2>1 DEF FiniteSubsetsOf
<1>2. \E x \in T : \A y \in T : <<y, x>> \notin StrictSubsetOrdering(Nat)
  BY <1>1, FS_StrictSubsetOrderingWellFounded, WFMin
<1>3. PICK m \in S : \A k \in S : <<UpTo(k), UpTo(m)>> \notin StrictSubsetOrdering(Nat)
  BY <1>2
<1>4. ASSUME NEW k \in S, k < m PROVE FALSE
  <2>1. UpTo(k) \subseteq Nat /\ UpTo(m) \subseteq Nat /\ UpTo(k) \subseteq UpTo(m)
    BY <1>4
  <2>2. m \in UpTo(m) /\ m \notin UpTo(k)
    BY <1>4
  <2>. HIDE DEF UpTo
  <2>3. <<UpTo(k), UpTo(m)>> \in StrictSubsetOrdering(Nat)
    BY <2>1, <2>2 DEF StrictSubsetOrdering
  <2>. QED
    BY <2>3, <1>3
<1>. QED
  BY <1>4

\* Induction over a set of naturals.
LEMMA Induction ==
  ASSUME NEW S, 0 \in S, \A n \in Nat : n \in S => n + 1 \in S
  PROVE  Nat \subseteq S
<1>1. SUFFICES ASSUME Nat \ S # {} PROVE FALSE
  OBVIOUS
<1>2. PICK m \in Nat \ S : \A k \in Nat \ S : m <= k
  BY <1>1, LeastExists
<1>3. m # 0 /\ m - 1 \in Nat /\ m - 1 \in S
  BY <1>2
<1>. QED
  BY <1>3

LEMMA GreatestExists ==
  ASSUME NEW n \in Nat, NEW S \in SUBSET (1..n), S # {}
  PROVE  Max(S) \in S /\ \A y \in S : Max(S) >= y
<1> DEFINE Below == {n - k : k \in S}
<1>1. Below \in SUBSET Nat /\ Below # {}
  <2>1. \A k \in S : n - k \in Nat
    OBVIOUS
  <2>. QED
    BY <2>1
<1>2. PICK b \in Below : \A k \in Below : b <= k
  BY <1>1, LeastExists
<1>3. PICK m \in S : b = n - m
  BY <1>2
<1>4. \A y \in S : m >= y
  <2>. SUFFICES ASSUME NEW y \in S PROVE m >= y
    OBVIOUS
  <2>1. n - y \in Below /\ m \in Nat /\ y \in Nat
    OBVIOUS
  <2>. QED
    BY <1>2, <1>3, <2>1
<1>. QED
  BY <1>4 DEF Max

-----------------------------------------------------------------------------
(* What the answers imply, of any log.                                     *)

Changing(e) ==
  \/ e.command.verb = "open-state" /\ e.command.argument \in DOMAIN States
  \/ e.command.verb = "click" /\ e.ok

ChangesIn(l, i) == {j \in 1..(i - 1) : Changing(l[j])}

Shows(e) == IF e.command.verb = "open-state" /\ e.ok THEN e.command.argument ELSE NoState

StandingIn(l, start, i) ==
  IF ChangesIn(l, i) = {} THEN start ELSE Shows(l[Max(ChangesIn(l, i))])

LEMMA StandingIsOfTheLog ==
  /\ \A i : Standing(i) = StandingIn(log, startedIn, i)
  /\ \A i : Standing(i)' = StandingIn(log', startedIn', i)
BY DEF Standing, StandingIn, ChangesIn, Changing, Shows

LEMMA StandingBegins ==
  ASSUME NEW l, NEW start
  PROVE  StandingIn(l, start, 1) = start
BY DEF StandingIn, ChangesIn

\* The last answer decides if it is one of a change, and else changes nothing.
LEMMA StandingChanges ==
  ASSUME NEW l, NEW start, NEW n \in Nat \ {0}, Changing(l[n])
  PROVE  StandingIn(l, start, n + 1) = Shows(l[n])
<1>1. ChangesIn(l, n + 1) \in SUBSET (1..n) /\ n \in ChangesIn(l, n + 1)
  BY DEF ChangesIn
<1>2. Max(ChangesIn(l, n + 1)) \in 1..n /\ Max(ChangesIn(l, n + 1)) >= n
  BY <1>1, GreatestExists
<1>3. Max(ChangesIn(l, n + 1)) = n
  BY <1>2
<1>. QED
  BY <1>1, <1>3 DEF StandingIn

LEMMA StandingStays ==
  ASSUME NEW l, NEW start, NEW n \in Nat \ {0}, ~Changing(l[n])
  PROVE  StandingIn(l, start, n + 1) = StandingIn(l, start, n)
<1>1. ChangesIn(l, n + 1) = ChangesIn(l, n)
  BY DEF ChangesIn
<1>. QED
  BY <1>1 DEF StandingIn

\* A later answer does not change what an earlier status answer had to say.
LEMMA StandingOfAPrefix ==
  ASSUME NEW l, NEW k, NEW start, NEW i \in Nat \ {0},
         \A j \in 1..(i - 1) : l[j] = k[j]
  PROVE  StandingIn(l, start, i) = StandingIn(k, start, i)
<1>1. ChangesIn(l, i) = ChangesIn(k, i)
  BY DEF ChangesIn
<1>2. ChangesIn(l, i) # {} => Max(ChangesIn(l, i)) \in 1..(i - 1)
  <2>1. ChangesIn(l, i) \in SUBSET (1..(i - 1)) /\ i - 1 \in Nat
    BY DEF ChangesIn
  <2>. QED
    BY <2>1, GreatestExists
<1>. QED
  BY <1>1, <1>2 DEF StandingIn

-----------------------------------------------------------------------------
(* One command in hand.                                                    *)

Entry == [command : Commands, ok : BOOLEAN, state : DOMAIN States \cup {NoState}]

ChannelType ==
  /\ sent \in Seq(Commands) /\ taken \in Nat /\ taken <= Len(sent)
  /\ log \in Seq(Entry) /\ replies \in Seq(Entry) /\ messages \in Seq({"command", "quit"})
  /\ stateId \in DOMAIN States \cup {NoState}

\* How far the answers and the replies are behind the lines that were taken.
InHand ==
  /\ reader \in {"none", "reading", "waiting", "answered", "ended", "killed"}
  /\ Len(log) <= taken /\ taken <= Len(log) + 1
  /\ Len(replies) <= Len(log) /\ Len(log) <= Len(replies) + 1
  /\ reader = "none" => taken = 0
  /\ reader \in {"reading", "ended"} => taken = Len(log) /\ Len(replies) = Len(log)
  /\ reader = "waiting" => taken = Len(log) + 1 /\ Len(replies) = Len(log)
  /\ reader = "answered" => taken = Len(log) /\ Len(log) = Len(replies) + 1
  /\ reader = "killed" => loop = "gone"

\* A command that is posted is waited for, and no other is posted meanwhile.
Posted ==
  /\ \A i \in 1..Len(messages) : messages[i] = "command" => reader \in {"waiting", "killed"}
  /\ \A i, j \in 1..Len(messages) : messages[i] = "command" /\ messages[j] = "command" => i = j

Replied == \A i \in 1..Len(replies) : replies[i] = log[i]

InOrder == \A i \in 1..Len(log) : log[i].command = sent[i]

StatusInv ==
  /\ stateId = StandingIn(log, startedIn, Len(log) + 1)
  /\ \A i \in 1..Len(log) :
       log[i].command.verb = "status" => log[i].state = StandingIn(log, startedIn, i)

ChannelInv == ChannelType /\ InHand /\ Posted /\ Replied /\ InOrder /\ StatusInv

LEMMA ChannelImplies ==
  ASSUME ChannelInv
  PROVE  RepliesTellWhatWasDone
<1>. ChannelType /\ InHand /\ Replied
  BY DEF ChannelInv
<1>1. IsPrefix(replies, log)
  BY DEF ChannelType, InHand, Replied, IsPrefix
<1>2. Len(log) <= Len(replies) + 1 /\ taken <= Len(log) + 1
  BY DEF InHand
<1>3. \A i \in DOMAIN log : /\ log[i].command = sent[i]
                            /\ log[i].command.verb = "status" => log[i].state = Standing(i)
  <2>1. DOMAIN log = 1..Len(log)
    BY DEF ChannelType
  <2>. QED
    BY <2>1, StandingIsOfTheLog DEF ChannelInv, InOrder, StatusInv
<1>. QED
  BY <1>1, <1>2, <1>3 DEF RepliesTellWhatWasDone

\* What the message thread says of a state it was asked for.
LEMMA StateReported ==
  ASSUME ChannelType, NEW id \in DOMAIN States, NEW ok, ApplyState(id, ok)
  PROVE  stateId' = Reported(id, ok) /\ stateId' \in DOMAIN States \cup {NoState}
BY DEF ApplyState, Reported, ChannelType

\* Every command ends in one answer, which agrees with what has become of the state.
LEMMA HandleAnswers ==
  ASSUME ChannelInv, NEW c, c = NextCommand, c \in Commands,
         OpenState(c) \/ Click(c) \/ Geometry(c) \/ Theme(c) \/ Status(c) \/ Quit(c) \/ Other(c)
  PROVE  \E e \in Entry :
           /\ e.command = c /\ log' = Append(log, e)
           /\ c.verb = "status" => e.state = stateId
           /\ stateId' = IF Changing(e) THEN Shows(e) ELSE stateId
           /\ stateId' \in DOMAIN States \cup {NoState}
           /\ reader' = "answered" /\ UNCHANGED <<harness, taken, replies, loop, startedIn>>
           /\ messages' \in {Tail(messages), Append(Tail(messages), "quit")}
<1>. ChannelType
  BY DEF ChannelInv
<1>. USE DEF Answer, Entry, Changing, Shows, Unchanged
<1>1. CASE OpenState(c)
  <2>1. PICK ok \in BOOLEAN :
          /\ IF c.argument \in DOMAIN States THEN ApplyState(c.argument, ok) ELSE ~ok /\ Unchanged
          /\ Answer(ok, NoState)
    BY <1>1 DEF OpenState
  <2>. DEFINE e == [command |-> c, ok |-> ok, state |-> NoState]
  <2>2. e \in Entry /\ e.command = c /\ e.ok = ok
    OBVIOUS
  <2>3. log' = Append(log, e) /\ c.verb = "open-state"
    BY <1>1, <2>1 DEF OpenState
  <2>4. stateId' = IF Changing(e) THEN Shows(e) ELSE stateId
    <3>1. CASE c.argument \in DOMAIN States
      BY <2>1, <2>2, <2>3, <3>1, StateReported DEF Reported
    <3>2. CASE c.argument \notin DOMAIN States
      BY <2>1, <2>2, <2>3, <3>2
    <3>. QED
      BY <3>1, <3>2
  <2>5. stateId' \in DOMAIN States \cup {NoState}
    BY <2>1, StateReported DEF ChannelType
  <2>6. messages' = Tail(messages)
    BY <1>1 DEF OpenState
  <2>. QED
    BY <2>1, <2>2, <2>3, <2>4, <2>5, <2>6
<1>2. CASE Click(c)
  <2>1. CASE c.argument \in Targets /\ Clickable(c.argument)
    <3>. DEFINE e == [command |-> c, ok |-> TRUE, state |-> NoState]
    <3>1. e \in Entry /\ Changing(e) /\ Shows(e) = NoState /\ e.command = c
      BY <1>2 DEF Click
    <3>. QED
      BY <1>2, <2>1, <3>1 DEF Click
  <2>2. CASE ~(c.argument \in Targets /\ Clickable(c.argument))
    <3>. DEFINE e == [command |-> c, ok |-> FALSE, state |-> NoState]
    <3>1. e \in Entry /\ ~Changing(e) /\ e.command = c
      BY <1>2 DEF Click
    <3>. QED
      BY <1>2, <2>2, <3>1 DEF Click, ChannelType
  <2>. QED
    BY <2>1, <2>2
<1>3. CASE Geometry(c)
  <2>1. PICK ok \in BOOLEAN : Answer(ok, NoState)
    BY <1>3 DEF Geometry
  <2>. DEFINE e == [command |-> c, ok |-> ok, state |-> NoState]
  <2>2. e \in Entry /\ ~Changing(e) /\ e.command = c
    BY <1>3 DEF Geometry
  <2>. QED
    BY <1>3, <2>1, <2>2 DEF Geometry, ChannelType
<1>4. CASE Theme(c)
  <2>1. PICK ok \in BOOLEAN : Answer(ok, NoState)
    BY <1>4 DEF Theme
  <2>. DEFINE e == [command |-> c, ok |-> ok, state |-> NoState]
  <2>2. e \in Entry /\ ~Changing(e) /\ e.command = c
    BY <1>4 DEF Theme
  <2>. QED
    BY <1>4, <2>1, <2>2 DEF Theme, ChannelType
<1>5. CASE Status(c)
  <2>. DEFINE e == [command |-> c, ok |-> TRUE, state |-> stateId]
  <2>2. e \in Entry /\ ~Changing(e) /\ e.command = c /\ e.state = stateId
    BY <1>5 DEF Status, ChannelType
  <2>. QED
    BY <1>5, <2>2 DEF Status, ChannelType
<1>6. CASE Quit(c)
  <2>. DEFINE e == [command |-> c, ok |-> TRUE, state |-> NoState]
  <2>2. e \in Entry /\ ~Changing(e) /\ e.command = c
    BY <1>6 DEF Quit
  <2>. QED
    BY <1>6, <2>2 DEF Quit, ChannelType
<1>7. CASE Other(c)
  <2>. DEFINE ok == c.verb \in {"", "list-states", "list-objects"}
  <2>. ok \in BOOLEAN
    OBVIOUS
  <2>1. Answer(ok, NoState)
    <3>. HIDE DEF Answer
    <3>. QED
      BY <1>7 DEF Other
  <2>. HIDE DEF ok
  <2>. DEFINE e == [command |-> c, ok |-> ok, state |-> NoState]
  <2>2. e \in Entry /\ ~Changing(e) /\ e.command = c
    BY <1>7 DEF Other
  <2>. QED
    BY <1>7, <2>1, <2>2 DEF Other, ChannelType
<1>. QED
  BY <1>1, <1>2, <1>3, <1>4, <1>5, <1>6, <1>7

LEMMA AnswerKeeps ==
  ASSUME ChannelInv, Handle
  PROVE  ChannelInv'
<1>. ChannelType /\ InHand /\ Posted /\ Replied /\ InOrder /\ StatusInv
  BY DEF ChannelInv
<1>. DEFINE n == Len(log)
<1>1. /\ loop = "running" /\ messages # <<>> /\ Head(messages) = "command"
      /\ messages[1] = "command" /\ 1 \in 1..Len(messages)
  BY DEF Handle, ChannelType
<1>2. reader = "waiting" /\ taken = n + 1 /\ Len(replies) = n /\ n \in Nat
  BY <1>1 DEF Posted, InHand, ChannelType
<1>3. NextCommand = sent[n + 1] /\ NextCommand \in Commands
  BY <1>2 DEF NextCommand, ChannelType
<1>4. PICK e \in Entry :
        /\ e.command = NextCommand /\ log' = Append(log, e)
        /\ NextCommand.verb = "status" => e.state = stateId
        /\ stateId' = IF Changing(e) THEN Shows(e) ELSE stateId
        /\ stateId' \in DOMAIN States \cup {NoState}
        /\ reader' = "answered" /\ UNCHANGED <<harness, taken, replies, loop, startedIn>>
        /\ messages' \in {Tail(messages), Append(Tail(messages), "quit")}
  <2>1. PICK c : c = NextCommand
    OBVIOUS
  <2>2. OpenState(c) \/ Click(c) \/ Geometry(c) \/ Theme(c) \/ Status(c) \/ Quit(c) \/ Other(c)
    BY <2>1 DEF Handle
  <2>. QED
    BY <1>3, <2>1, <2>2, HandleAnswers
<1>5. /\ log' \in Seq(Entry) /\ Len(log') = n + 1 /\ log'[n + 1] = e
      /\ \A i \in 1..n : log'[i] = log[i]
  BY <1>4 DEF ChannelType
<1>6. UNCHANGED <<sent, taken, replies, loop, startedIn>>
  BY <1>4 DEF harness
<1>7. messages' \in Seq({"command", "quit"}) /\ \A i \in 1..Len(messages') : messages'[i] # "command"
  <2>1. Tail(messages) \in Seq({"command", "quit"}) /\ Len(Tail(messages)) = Len(messages) - 1
    BY <1>1 DEF ChannelType
  <2>2. \A i \in 1..Len(Tail(messages)) : Tail(messages)[i] # "command"
    BY <1>1 DEF ChannelType, Posted
  <2>3. PICK rest : rest = Tail(messages)
    OBVIOUS
  <2>4. CASE messages' = rest
    BY <2>1, <2>2, <2>3, <2>4
  <2>5. CASE messages' = Append(rest, "quit")
    <3>1. rest \in Seq({"command", "quit"}) /\ \A i \in 1..Len(rest) : rest[i] # "command"
      BY <2>1, <2>2, <2>3
    <3>2. messages' \in Seq({"command", "quit"}) /\ Len(messages') = Len(rest) + 1
      BY <2>5, <3>1
    <3>. QED
      BY <2>5, <3>1, <3>2
  <2>. QED
    BY <1>4, <2>3, <2>4, <2>5
<1>8. ChannelType'
  BY <1>4, <1>5, <1>6, <1>7 DEF ChannelType
<1>9. InHand'
  BY <1>2, <1>4, <1>5, <1>6, <1>1 DEF InHand
<1>10. Posted'
  BY <1>7 DEF Posted
<1>11. Replied' /\ InOrder'
  BY <1>2, <1>3, <1>4, <1>5, <1>6 DEF Replied, InOrder
<1>12. StatusInv'
  <2>1. \A i \in 1..(n + 1) : StandingIn(log', startedIn, i) = StandingIn(log, startedIn, i)
    <3>. SUFFICES ASSUME NEW i \in 1..(n + 1)
                  PROVE  StandingIn(log', startedIn, i) = StandingIn(log, startedIn, i)
      OBVIOUS
    <3>1. i \in Nat \ {0} /\ \A j \in 1..(i - 1) : log'[j] = log[j]
      BY <1>2, <1>5
    <3>. QED
      BY <3>1, StandingOfAPrefix
  <2>2. StandingIn(log', startedIn, n + 1) = stateId
    BY <1>2, <2>1 DEF StatusInv
  <2>3. StandingIn(log', startedIn, n + 2) = stateId'
    <3>. n + 1 \in Nat \ {0} /\ n + 2 = (n + 1) + 1
      BY <1>2
    <3>1. CASE Changing(e)
      <4>1. StandingIn(log', startedIn, (n + 1) + 1) = Shows(e)
        BY <1>5, <3>1, StandingChanges
      <4>. QED
        BY <1>4, <3>1, <4>1
    <3>2. CASE ~Changing(e)
      <4>1. StandingIn(log', startedIn, (n + 1) + 1) = StandingIn(log', startedIn, n + 1)
        BY <1>5, <3>2, StandingStays
      <4>. QED
        BY <1>4, <2>2, <3>2, <4>1
    <3>. QED
      BY <3>1, <3>2
  <2>4. ASSUME NEW i \in 1..(n + 1), log'[i].command.verb = "status"
        PROVE  log'[i].state = StandingIn(log', startedIn, i)
    <3>1. CASE i = n + 1
      BY <1>4, <1>5, <2>2, <2>4, <3>1
    <3>2. CASE i # n + 1
      <4>1. i \in 1..n /\ log'[i] = log[i]
        BY <1>2, <1>5, <3>2
      <4>. QED
        BY <2>1, <2>4, <4>1 DEF StatusInv
    <3>. QED
      BY <3>1, <3>2
  <2>5. Len(log') + 1 = n + 2
    BY <1>2, <1>5
  <2>. QED
    BY <1>5, <1>6, <2>3, <2>4, <2>5 DEF StatusInv
<1>. QED
  BY <1>8, <1>9, <1>10, <1>11, <1>12 DEF ChannelInv

\* The state the application starts in, before anything is answered.
LEMMA LaunchKeeps ==
  ASSUME ChannelInv, Launch
  PROVE  ChannelInv'
<1>. ChannelType /\ InHand /\ Posted /\ Replied /\ InOrder /\ StatusInv
  BY DEF ChannelInv
<1>1. /\ reader = "none" /\ messages = <<>> /\ startedIn' = stateId'
      /\ UNCHANGED <<sent, taken, replies, loop, log>>
      /\ reader' \in {"none", "reading"} /\ messages' \in {<<>>, <<"quit">>}
  BY DEF Launch, harness
<1>2. taken = 0 /\ log = <<>> /\ replies = <<>> /\ Len(log) = 0 /\ Len(replies) = 0
  BY <1>1 DEF InHand, ChannelType
<1>3. stateId' \in DOMAIN States \cup {NoState}
  <2>1. PICK id \in StartStates, ok \in BOOLEAN :
          IF id = NoState THEN ok /\ Unchanged
          ELSE IF id \in DOMAIN States THEN ApplyState(id, ok)
          ELSE ~ok /\ Unchanged
    BY DEF Launch
  <2>2. UNCHANGED stateId \/ (id \in DOMAIN States /\ ApplyState(id, ok))
    BY <2>1 DEF Unchanged
  <2>. QED
    BY <2>2, StateReported DEF ChannelType
<1>4. ChannelType'
  <2>1. messages' \in Seq({"command", "quit"})
    <3>1. <<>> \in Seq({"command", "quit"}) /\ <<"quit">> \in Seq({"command", "quit"})
      OBVIOUS
    <3>. QED
      BY <1>1, <3>1
  <2>. QED
    BY <1>1, <1>3, <2>1 DEF ChannelType
<1>5. InHand'
  BY <1>1, <1>2 DEF InHand
<1>6. Posted' /\ Replied' /\ InOrder'
  BY <1>1, <1>2 DEF Posted, Replied, InOrder
<1>7. StatusInv'
  BY <1>1, <1>2, StandingBegins DEF StatusInv
<1>. QED
  BY <1>4, <1>5, <1>6, <1>7 DEF ChannelInv

\* Lines written, read, replied to, and given up on; the end of the application.
LEMMA OtherStepsKeep ==
  ASSUME ChannelInv,
         \/ \E c \in Commands : Send(c)
         \/ GetReply \/ GiveUp \/ HangUp \/ ReadLine \/ PrintReply \/ PipeCloses
         \/ FinishImport \/ CloseWindow \/ Shutdown \/ Gone \/ UNCHANGED vars
  PROVE  ChannelInv'
<1>. USE DEF harness, thread, dispatching, shell, vars
<1>. ChannelType /\ InHand /\ Posted /\ Replied /\ InOrder /\ StatusInv
  BY DEF ChannelInv
<1>1. ASSUME UNCHANGED <<log, stateId, startedIn>> PROVE StatusInv'
  BY <1>1 DEF StatusInv
<1>2. ASSUME NEW c \in Commands, Send(c) PROVE ChannelInv'
  <2>1. ChannelType' /\ InHand' /\ Posted' /\ Replied'
    BY <1>2 DEF Send, ChannelType, InHand, Posted, Replied
  <2>2. InOrder'
    BY <1>2 DEF Send, ChannelType, InHand, InOrder
  <2>. QED
    BY <1>1, <1>2, <2>1, <2>2 DEF Send, ChannelInv
<1>3. CASE GetReply \/ GiveUp \/ HangUp \/ FinishImport \/ UNCHANGED vars
  <2>1. UNCHANGED <<sent, taken, reader, replies, messages, loop, log, stateId, startedIn>>
    BY <1>3 DEF GetReply, GiveUp, HangUp, FinishImport
  <2>. QED
    BY <2>1, <1>1 DEF ChannelInv, ChannelType, InHand, Posted, Replied, InOrder
<1>4. CASE ReadLine
  <2>1. /\ reader = "reading" /\ taken < Len(sent) /\ taken' = taken + 1 /\ reader' = "waiting"
        /\ messages' = Append(messages, "command")
        /\ UNCHANGED <<sent, replies, loop, log, stateId, startedIn>>
    BY <1>4 DEF ReadLine
  <2>2. ChannelType' /\ InHand' /\ Replied' /\ InOrder'
    BY <2>1 DEF ChannelType, InHand, Replied, InOrder
  <2>3. \A i \in 1..Len(messages) : messages[i] # "command"
    BY <2>1 DEF Posted
  <2>4. Posted'
    BY <2>1, <2>3 DEF Posted, ChannelType
  <2>. QED
    BY <1>1, <2>1, <2>2, <2>4 DEF ChannelInv
<1>5. CASE PrintReply
  <2>1. /\ reader = "answered" /\ replies' = Append(replies, log[Len(log)])
        /\ reader' \in {"ended", "reading"}
        /\ UNCHANGED <<sent, taken, messages, loop, log, stateId, startedIn>>
    BY <1>5 DEF PrintReply, Last
  <2>2. Len(log) = Len(replies) + 1 /\ log[Len(log)] \in Entry
    BY <2>1 DEF InHand, ChannelType
  <2>3. ChannelType' /\ Len(replies') = Len(replies) + 1
    BY <2>1, <2>2 DEF ChannelType
  <2>4. InHand' /\ Posted' /\ InOrder'
    BY <2>1, <2>2, <2>3 DEF InHand, Posted, InOrder, ChannelType
  <2>5. Replied'
    BY <2>1, <2>2, <2>3 DEF Replied, ChannelType
  <2>. QED
    BY <1>1, <2>1, <2>3, <2>4, <2>5 DEF ChannelInv
<1>6. CASE PipeCloses
  <2>1. /\ reader = "reading" /\ reader' = "ended"
        /\ UNCHANGED <<sent, taken, replies, messages, loop, log, stateId, startedIn>>
    BY <1>6 DEF PipeCloses
  <2>. QED
    BY <2>1, <1>1 DEF ChannelInv, ChannelType, InHand, Posted, Replied, InOrder
<1>7. CASE CloseWindow
  <2>1. /\ messages' = Append(messages, "quit")
        /\ UNCHANGED <<sent, taken, reader, replies, loop, log, stateId, startedIn>>
    BY <1>7 DEF CloseWindow
  <2>2. ChannelType' /\ InHand' /\ Replied' /\ InOrder'
    BY <2>1 DEF ChannelType, InHand, Replied, InOrder
  <2>3. Posted'
    BY <2>1 DEF Posted, ChannelType
  <2>. QED
    BY <1>1, <2>1, <2>2, <2>3 DEF ChannelInv
<1>8. CASE Shutdown
  <2>1. /\ messages # <<>> /\ messages' = Tail(messages) /\ loop = "running" /\ loop' = "stopping"
        /\ UNCHANGED <<sent, taken, reader, replies, log, stateId, startedIn>>
    BY <1>8 DEF Shutdown
  <2>2. ChannelType' /\ InHand' /\ Replied' /\ InOrder'
    BY <2>1 DEF ChannelType, InHand, Replied, InOrder
  <2>3. Len(messages') = Len(messages) - 1 /\ \A i \in 1..Len(messages') : messages'[i] = messages[i + 1]
    BY <2>1 DEF ChannelType
  <2>4. \A i \in 1..Len(messages') : i + 1 \in 1..Len(messages)
    BY <2>1, <2>3 DEF ChannelType
  <2>5. Posted'
    BY <2>1, <2>3, <2>4 DEF Posted
  <2>. QED
    BY <1>1, <2>1, <2>2, <2>5 DEF ChannelInv
<1>9. CASE Gone
  <2>1. /\ loop' = "gone" /\ reader' \in {reader, "killed"}
        /\ reader' = reader => reader \in {"none", "ended", "killed"}
        /\ reader = "none" => reader' = "none"
        /\ UNCHANGED <<sent, taken, replies, messages, log, stateId, startedIn>>
    BY <1>9 DEF Gone
  <2>2. ChannelType' /\ InHand' /\ Replied' /\ InOrder'
    BY <2>1 DEF ChannelType, InHand, Replied, InOrder
  <2>3. Posted'
    BY <2>1 DEF Posted
  <2>. QED
    BY <1>1, <2>1, <2>2, <2>3 DEF ChannelInv
<1>. QED
  BY <1>2, <1>3, <1>4, <1>5, <1>6, <1>7, <1>8, <1>9

\* A reply tells what has been done: commands are done one at a time and in the order
\* written, each answered before the next is begun, also while the window is closing,
\* and a status answer names the state the answers so far imply (TestControlChannel
\* run, TestControlSession handle, applyTestControlState).
THEOREM RepliesAreTrue == Spec => []RepliesTellWhatWasDone
<1>1. Init => ChannelInv
  <2>. SUFFICES ASSUME Init PROVE ChannelInv
    OBVIOUS
  <2>1. ChannelType /\ InHand /\ Posted /\ Replied /\ InOrder
    BY DEF Init, ChannelType, InHand, Posted, Replied, InOrder
  <2>2. StatusInv
    BY StandingBegins DEF Init, StatusInv
  <2>. QED
    BY <2>1, <2>2 DEF ChannelInv
<1>2. ChannelInv /\ [Next]_vars => ChannelInv'
  BY AnswerKeeps, LaunchKeeps, OtherStepsKeep DEF Next
<1>3. ChannelInv => RepliesTellWhatWasDone
  BY ChannelImplies
<1>. QED
  BY <1>1, <1>2, <1>3, PTL DEF Spec

-----------------------------------------------------------------------------
(* The score import.  Only the last success counts, among the results that  *)
(* wait if there is one and otherwise on screen.                            *)

Succeeded(i) == results[i].succeeded

OpenedInv ==
  /\ results \in Seq([file : Nat, succeeded : BOOLEAN]) /\ started \in Nat
  /\ (\A i \in 1..Len(results) : ~Succeeded(i)) => openScore = opened
  /\ \A i \in 1..Len(results) :
       Succeeded(i) /\ (\A j \in (i + 1)..Len(results) : ~Succeeded(j)) =>
         opened = results[i].file

LEMMA ImportStepKeeps == OpenedInv /\ [Import!Next]_import => OpenedInv'
<1>. SUFFICES ASSUME OpenedInv, [Import!Next]_import PROVE OpenedInv'
  OBVIOUS
<1>. USE DEF OpenedInv, Succeeded
<1>1. ASSUME UNCHANGED <<results, openScore, opened>>, started' \in Nat PROVE OpenedInv'
  BY <1>1
<1>2. ASSUME NEW b \in BOOLEAN, Import!Read(b) PROVE OpenedInv'
  <2>1. /\ results' = Append(results, [file |-> started, succeeded |-> b])
        /\ opened' = IF b THEN started ELSE opened
        /\ started' = started /\ openScore' = openScore
    BY <1>2 DEF Import!Read
  <2>2. /\ Len(results') = Len(results) + 1
        /\ results'[Len(results) + 1] = [file |-> started, succeeded |-> b]
        /\ \A i \in 1..Len(results) : results'[i] = results[i]
    BY <2>1
  <2>3. results' \in Seq([file : Nat, succeeded : BOOLEAN])
    BY <2>1
  <2>4. ASSUME b PROVE OpenedInv'
    <3>1. /\ opened' = results'[Len(results')].file
          /\ Len(results') \in 1..Len(results') /\ results'[Len(results')].succeeded
      BY <2>1, <2>2, <2>4
    <3>2. \A i \in 1..Len(results') : i = Len(results') \/ Len(results') \in (i + 1)..Len(results')
      BY <2>3
    <3>. QED
      BY <2>1, <2>3, <3>1, <3>2
  <2>5. ASSUME ~b PROVE OpenedInv'
    <3>1. /\ opened' = opened /\ openScore' = openScore /\ started' \in Nat
          /\ 1..Len(results) \subseteq 1..Len(results')
      BY <2>1, <2>2, <2>5
    <3>2. \A i \in 1..Len(results') :
            Succeeded(i)' => i \in 1..Len(results) /\ Succeeded(i) /\ results'[i] = results[i]
      BY <2>1, <2>2, <2>5
    <3>3. \A i \in 1..Len(results) :
            /\ Succeeded(i)' = Succeeded(i)
            /\ (i + 1)..Len(results) \subseteq (i + 1)..Len(results')
      BY <2>2
    <3>4. \A i \in 1..Len(results) : \A j \in (i + 1)..Len(results) : Succeeded(j)' = Succeeded(j)
      BY <3>3
    <3>5. (\A i \in 1..Len(results') : ~Succeeded(i)') => openScore' = opened'
      <4>1. (\A i \in 1..Len(results') : ~Succeeded(i)') => \A i \in 1..Len(results) : ~Succeeded(i)
        BY <3>1, <3>3
      <4>. QED
        BY <3>1, <4>1
    <3>6. ASSUME NEW i \in 1..Len(results'), Succeeded(i)',
                 \A j \in (i + 1)..Len(results') : ~Succeeded(j)'
          PROVE  opened' = results'[i].file
      <4>1. i \in 1..Len(results) /\ Succeeded(i) /\ results'[i] = results[i]
        BY <3>2, <3>6
      <4>2. \A j \in (i + 1)..Len(results) : ~Succeeded(j)
        BY <3>3, <3>4, <3>6, <4>1
      <4>. QED
        BY <3>1, <4>1, <4>2
    <3>. QED
      BY <2>3, <3>1, <3>5, <3>6
  <2>. QED
    BY <2>4, <2>5
<1>3. CASE Import!Deliver
  <2>1. /\ results # <<>> /\ results' = Tail(results)
        /\ openScore' = IF Head(results).succeeded THEN Head(results).file ELSE openScore
        /\ opened' = opened /\ started' = started
    BY <1>3 DEF Import!Deliver
  <2>2. /\ Len(results') = Len(results) - 1 /\ Head(results) = results[1]
        /\ results' \in Seq([file : Nat, succeeded : BOOLEAN])
        /\ \A i \in 1..Len(results') : i + 1 \in 1..Len(results) /\ results'[i] = results[i + 1]
    BY <2>1
  <2>3. \A i \in 2..Len(results) : i - 1 \in 1..Len(results') /\ results'[i - 1] = results[i]
    BY <2>1, <2>2
  <2>4. ASSUME \A i \in 1..Len(results') : ~Succeeded(i)' PROVE openScore' = opened'
    <3>1. \A i \in 2..Len(results) : ~Succeeded(i)
      BY <2>3, <2>4
    <3>2. 1 \in 1..Len(results) /\ \A i \in 1..Len(results) : i = 1 \/ i \in 2..Len(results)
      BY <2>1
    <3>. QED
      BY <2>1, <2>2, <3>1, <3>2
  <2>5. ASSUME NEW i \in 1..Len(results'), Succeeded(i)',
               \A j \in (i + 1)..Len(results') : ~Succeeded(j)'
        PROVE  opened' = results'[i].file
    <3>1. Succeeded(i + 1) /\ i + 1 \in 1..Len(results) /\ results'[i] = results[i + 1]
      BY <2>2, <2>5
    <3>2. \A j \in (i + 2)..Len(results) : j - 1 \in (i + 1)..Len(results') /\ ~Succeeded(j)
      <4>1. \A j \in (i + 2)..Len(results) : j \in 2..Len(results) /\ j - 1 \in (i + 1)..Len(results')
        BY <2>2
      <4>. QED
        BY <2>3, <2>5, <4>1
    <3>. QED
      BY <2>1, <3>1, <3>2
  <2>. QED
    BY <2>1, <2>2, <2>4, <2>5
<1>4. CASE Import!Shutdown
  <2>1. results' = <<>> /\ openScore' = opened' /\ started' \in Nat
    BY <1>4, ApplicationAssumption DEF Import!Shutdown, Import!ImportAssumption
  <2>. QED
    BY <2>1
<1>. QED
  BY <1>1, <1>2, <1>3, <1>4
  DEF Import!Next, Import!Start, Import!Refuse, Import!ThreadEnds, Import!CloseWindow, import

\* Whatever imports overlapped, failed or waited in the message queue: once it is
\* empty the score on screen is of the last import that succeeded (ScoreImportJob run,
\* MainComponentScore finishScoreImport).
THEOREM ScoreOpenedLast == ApplicationSpec => []LastOpenedIsCurrent
<1>1. ApplicationInit => OpenedInv
  BY DEF ApplicationInit, Import!Init, OpenedInv
<1>2. OpenedInv /\ [ApplicationNext]_<<exercised, vars, workspaces, session, import>> => OpenedInv'
  BY ImportStepKeeps DEF ApplicationNext
<1>3. OpenedInv => LastOpenedIsCurrent
  BY DEF OpenedInv, LastOpenedIsCurrent, Import!LastOpenedIsCurrent
<1>. QED
  BY <1>1, <1>2, <1>3, PTL DEF ApplicationSpec

-----------------------------------------------------------------------------
(* The settings.  What the process holds and the file agree unless a write  *)
(* is owed; while automatic saves are off they differ in the choice about   *)
(* invitations at most; and what a quit wrote is still in the file until    *)
(* the next launch.                                                         *)

Settings ==
  [prefs : Prefs, keyboard : Keyboards, workspaces : Session!Arrangements, disabled : BOOLEAN]

StoredTypeOK ==
  /\ disk \in Session!Files /\ props \in Session!Files
  /\ dirty \in BOOLEAN /\ autosave \in BOOLEAN /\ running \in BOOLEAN
  /\ live \in Settings

SettingsInv ==
  /\ StoredTypeOK
  /\ running /\ ~dirty => props = disk
  /\ running /\ ~autosave => props = [disk EXCEPT !.disabled = props.disabled]
  /\ running => promised = Session!Nothing
  /\ promised # Session!Nothing =>
       LET next == Session!Loaded(disk)
       IN /\ next.prefs = promised.prefs /\ next.keyboard = promised.keyboard
          /\ next.workspaces = IF Session!Usable(promised.workspaces)
                               THEN promised.workspaces ELSE "pitch-practice"

LEMMA LaunchKeepsSettings ==
  ASSUME SettingsInv, Session!Launch
  PROVE  /\ SettingsInv'
         /\ Session!Newer(disk) => ~autosave' /\ disk' = disk
         /\ live' = Session!Loaded(disk)
<1>. USE DEF StoredTypeOK, Settings, Session!Files, Session!Arrangements, Session!Schemas
<1>1. /\ running' = TRUE /\ live' = Session!Loaded(disk)
      /\ autosave' = ~Session!Newer(disk) /\ promised' = Session!Nothing
  BY DEF Session!Launch
<1>2. disk \in Session!Files
  BY DEF SettingsInv
<1>3. /\ Session!Loaded(disk) \in Settings
      /\ Session!NoFile \in Session!Files
      /\ \A file \in Session!Files : Session!Stored(file, Session!Loaded(disk)) \in Session!Files
  BY <1>2, ApplicationAssumption
  DEF Session!SettingsAssumption, Session!Loaded, Session!Live, Session!Usable, Session!Stored,
      Session!File, Session!NoFile
<1>4. Session!Newer(disk) => ~Session!Recovered(disk) /\ disk.schema # "older"
  BY DEF Session!Newer, Session!Recovered
<1>5. Session!Recovered(disk) => disk.schema # "older"
  BY DEF Session!Recovered
<1>6. CASE Session!Recovered(disk)
  <2>1. /\ props' = Session!Stored(Session!NoFile, Session!Loaded(disk))
        /\ \/ disk' = props' /\ dirty' = FALSE
           \/ disk' = Session!NoFile /\ dirty' = TRUE
    BY <1>5, <1>6 DEF Session!Launch
  <2>2. autosave' = TRUE
    BY <1>1, <1>4, <1>6
  <2>3. disk' \in Session!Files /\ props' \in Session!Files
    BY <1>2, <1>3, <2>1
  <2>. QED
    BY <1>1, <1>3, <1>6, <2>1, <2>2, <2>3 DEF SettingsInv
<1>7. CASE ~Session!Recovered(disk) /\ disk.schema = "older"
  <2>1. /\ props' = Session!Stored(disk, Session!Loaded(disk))
        /\ \/ disk' = props' /\ dirty' = FALSE
           \/ disk' = disk /\ dirty' = TRUE
    BY <1>7 DEF Session!Launch
  <2>2. ~Session!Newer(disk)
    BY <1>7 DEF Session!Newer
  <2>3. autosave' = TRUE /\ disk' \in Session!Files /\ props' \in Session!Files
    BY <1>1, <1>2, <1>3, <2>1, <2>2
  <2>. QED
    BY <1>1, <1>3, <2>1, <2>2, <2>3 DEF SettingsInv
<1>8. CASE ~Session!Recovered(disk) /\ disk.schema # "older"
  <2>1. disk' = disk /\ props' = disk /\ dirty' = FALSE
    BY <1>8 DEF Session!Launch
  <2>2. disk = [disk EXCEPT !.disabled = disk.disabled]
    BY <1>2
  <2>3. disk' \in Session!Files /\ props' \in Session!Files
    BY <1>2, <2>1
  <2>4. props' = [disk' EXCEPT !.disabled = props'.disabled]
    BY <2>1, <2>2
  <2>. QED
    BY <1>1, <1>3, <2>1, <2>3, <2>4 DEF SettingsInv
<1>. QED
  BY <1>1, <1>6, <1>7, <1>8

\* What a save of a file leaves, whether it could be written or not.
LEMMA WrittenLeaves ==
  ASSUME NEW file \in Session!Files, SettingsInv, running, Session!Written(file)
  PROVE  /\ props' = file /\ disk' \in {disk, file} /\ dirty' \in BOOLEAN
         /\ ~dirty' => disk' = file
BY DEF Session!Written, Session!Save, SettingsInv, StoredTypeOK

LEMMA SavedAutomatically ==
  ASSUME SettingsInv, running, NEW now \in Settings, Session!SaveAutomatically(now)
  PROVE  /\ disk' \in Session!Files /\ props' \in Session!Files /\ dirty' \in BOOLEAN
         /\ ~dirty' => props' = disk'
         /\ ~autosave => UNCHANGED <<disk, props, dirty>>
         /\ autosave /\ ~dirty' => disk' = Session!Stored(props, now)
<1>1. Session!Stored(props, now) \in Session!Files
  BY DEF SettingsInv, StoredTypeOK, Settings, Session!Stored, Session!File, Session!Files,
         Session!Schemas
<1>2. CASE autosave
  <2>1. Session!Written(Session!Stored(props, now))
    BY <1>2 DEF Session!SaveAutomatically
  <2>. QED
    BY <1>1, <1>2, <2>1, WrittenLeaves DEF SettingsInv, StoredTypeOK
<1>3. CASE ~autosave
  BY <1>3 DEF Session!SaveAutomatically, SettingsInv, StoredTypeOK
<1>. QED
  BY <1>2, <1>3

\* A step of the running process that leaves the file and its copy in agreement.
LEMMA AgreementKeeps ==
  ASSUME SettingsInv, running, StoredTypeOK', UNCHANGED <<running, promised>>,
         ~dirty' => props' = disk',
         ~autosave' => props' = [disk' EXCEPT !.disabled = props'.disabled]
  PROVE  SettingsInv'
BY DEF SettingsInv

LEMMA CommandKeepsSettings ==
  ASSUME SettingsInv, running, live' \in Settings, Session!SaveAutomatically(live'),
         UNCHANGED <<autosave, running, promised>>
  PROVE  SettingsInv'
<1>1. /\ disk' \in Session!Files /\ props' \in Session!Files /\ dirty' \in BOOLEAN
      /\ ~dirty' => props' = disk'
      /\ ~autosave => UNCHANGED <<disk, props, dirty>>
  BY SavedAutomatically
<1>2. StoredTypeOK'
  BY <1>1 DEF StoredTypeOK, SettingsInv
<1>3. ~autosave' => props' = [disk' EXCEPT !.disabled = props'.disabled]
  BY <1>1 DEF SettingsInv
<1>. QED
  BY <1>1, <1>2, <1>3, AgreementKeeps

LEMMA SettingsStepKeeps == SettingsInv /\ [Session!Next]_session => SettingsInv'
<1>. SUFFICES ASSUME SettingsInv, [Session!Next]_session PROVE SettingsInv'
  OBVIOUS
<1>0. StoredTypeOK /\ live \in Settings
  BY DEF SettingsInv, StoredTypeOK
<1>1. CASE UNCHANGED session
  BY <1>1 DEF SettingsInv, StoredTypeOK, session
<1>2. CASE Session!Launch
  BY <1>2, LaunchKeepsSettings
<1>3. CASE Session!Crash
  BY <1>3 DEF SettingsInv, StoredTypeOK, Session!Crash
<1>4. CASE Session!SaveExplicitly
  <2>1. /\ Session!Written(Session!Stored(props, live)) /\ autosave' = TRUE
        /\ running /\ UNCHANGED <<live, running, promised>>
    BY <1>4 DEF Session!SaveExplicitly
  <2>2. Session!Stored(props, live) \in Session!Files
    BY <1>0 DEF StoredTypeOK, Settings, Session!Stored, Session!File, Session!Files, Session!Schemas
  <2>. QED
    BY <1>0, <2>1, <2>2, WrittenLeaves, AgreementKeeps DEF StoredTypeOK
<1>5. CASE Session!Quit
  <2>1. /\ running /\ Session!SaveAutomatically(live) /\ running' = FALSE
        /\ promised' = IF dirty' \/ ~autosave THEN Session!Nothing ELSE live
        /\ UNCHANGED <<live, autosave>>
    BY <1>5 DEF Session!Quit
  <2>2. /\ disk' \in Session!Files /\ props' \in Session!Files /\ dirty' \in BOOLEAN
        /\ autosave /\ ~dirty' => disk' = Session!Stored(props, live)
    BY <1>0, <2>1, SavedAutomatically
  <2>3. LET next == Session!Loaded(Session!Stored(props, live))
        IN /\ next.prefs = live.prefs /\ next.keyboard = live.keyboard
           /\ next.workspaces = IF Session!Usable(live.workspaces)
                                THEN live.workspaces ELSE "pitch-practice"
    BY DEF Session!Loaded, Session!Live, Session!Stored, Session!File
  <2>4. StoredTypeOK'
    BY <1>0, <2>1, <2>2 DEF StoredTypeOK
  <2>5. promised' # Session!Nothing => promised' = live /\ disk' = Session!Stored(props, live)
    BY <1>0, <2>1, <2>2 DEF StoredTypeOK
  <2>6. ~running'
    BY <2>1
  <2>. QED
    BY <2>3, <2>4, <2>5, <2>6 DEF SettingsInv
<1>6. ASSUME NEW p \in Prefs, Session!ChangePreference(p) PROVE SettingsInv'
  BY <1>0, <1>6 DEF SettingsInv, StoredTypeOK, Settings, Session!ChangePreference
<1>7. ASSUME NEW w \in {"mine", "bare"}, Session!ArrangeWorkspace(w) PROVE SettingsInv'
  BY <1>0, <1>7 DEF SettingsInv, StoredTypeOK, Settings, Session!ArrangeWorkspace, Session!Arrangements
<1>8. ASSUME NEW w \in {"mine", "bare"}, Session!CommandWorkspace(w) PROVE SettingsInv'
  <2>1. live' \in Settings
    BY <1>0, <1>8 DEF Settings, Session!CommandWorkspace, Session!Arrangements
  <2>. QED
    BY <1>8, <2>1, CommandKeepsSettings DEF Session!CommandWorkspace
<1>9. ASSUME NEW k \in Keyboards, Session!ChooseKeyboard(k) PROVE SettingsInv'
  <2>1. live' \in Settings
    BY <1>0, <1>9 DEF Settings, Session!ChooseKeyboard
  <2>. QED
    BY <1>9, <2>1, CommandKeepsSettings DEF Session!ChooseKeyboard
<1>10. ASSUME NEW b \in BOOLEAN, Session!SetInvitations(b) PROVE SettingsInv'
  <2>1. /\ running /\ live' = [live EXCEPT !.disabled = b]
        /\ Session!Written([props EXCEPT !.disabled = b])
        /\ UNCHANGED <<autosave, running, promised>>
    BY <1>10 DEF Session!SetInvitations
  <2>2. [props EXCEPT !.disabled = b] \in Session!Files
    BY <1>0 DEF StoredTypeOK, Session!Files
  <2>3. /\ props' = [props EXCEPT !.disabled = b] /\ disk' \in {disk, props'}
        /\ dirty' \in BOOLEAN
        /\ ~dirty' => disk' = props'
    BY <2>1, <2>2, WrittenLeaves
  <2>4. StoredTypeOK'
    <3>1. live' \in Settings
      BY <1>0, <2>1 DEF Settings
    <3>. QED
      BY <1>0, <2>1, <2>2, <2>3, <3>1 DEF StoredTypeOK
  <2>5. ~autosave' => props' = [disk' EXCEPT !.disabled = props'.disabled]
    BY <1>0, <2>1, <2>3 DEF SettingsInv, StoredTypeOK, Session!Files
  <2>. QED
    BY <2>1, <2>3, <2>4, <2>5, AgreementKeeps
<1>11. ASSUME NEW p \in Prefs, NEW b \in BOOLEAN,
              Session!ImportSettings(Session!Candidate(p, b))
       PROVE  SettingsInv'
  <2>. DEFINE c == Session!Candidate(p, b)
              imported == [Session!Stored(props, c) EXCEPT !.disabled = b]
  <2>1. /\ running /\ UNCHANGED <<autosave, running, promised>>
        /\ Session!ImportSucceeds(c) \/ Session!ImportFails(c)
    BY <1>11 DEF Session!ImportSettings
  <2>2. CASE Session!ImportSucceeds(c)
    <3>1. /\ disk' = imported /\ props' = imported /\ dirty' = FALSE
          /\ live' = [c EXCEPT !.keyboard = live.keyboard]
      BY <2>2 DEF Session!ImportSucceeds, Session!Candidate, Session!Live
    <3>2. imported \in Session!Files /\ live' \in Settings
      BY <1>0, <3>1, ApplicationAssumption
      DEF StoredTypeOK, Settings, Session!SettingsAssumption, Session!Candidate, Session!Live,
          Session!Stored, Session!File, Session!Files, Session!Schemas, Session!Arrangements
    <3>3. imported = [imported EXCEPT !.disabled = imported.disabled]
      BY <3>2 DEF Session!Files
    <3>. HIDE DEF imported
    <3>. QED
      BY <1>0, <2>1, <3>1, <3>2, <3>3, AgreementKeeps DEF StoredTypeOK
  <2>3. CASE Session!ImportFails(c)
    <3>1. /\ live' = live
          /\ \/ UNCHANGED <<disk, props, dirty>>
             \/ disk' = props /\ dirty' = FALSE /\ props' = props
      BY <2>3 DEF Session!ImportFails
    <3>2. props = [props EXCEPT !.disabled = props.disabled]
      BY <1>0 DEF StoredTypeOK, Session!Files
    <3>. QED
      BY <1>0, <2>1, <3>1, <3>2, AgreementKeeps DEF StoredTypeOK, SettingsInv
  <2>. QED
    BY <2>1, <2>2, <2>3
<1>. QED
  BY <1>1, <1>2, <1>3, <1>4, <1>5, <1>6, <1>7, <1>8, <1>9, <1>10, <1>11 DEF Session!Next

\* While automatic saves are off a step leaves a newer file alone, but for the choice
\* about invitations and for what the user asks for.
LEMMA NewerFileStep ==
  ASSUME SettingsInv, Session!Next, Session!Newer(disk)
  PROVE  /\ Session!Launch => ~autosave'
         /\ \/ disk' = [disk EXCEPT !.disabled = disk'.disabled]
            \/ autosave'
            \/ live'.workspaces = "imported"
<1>. DEFINE Kept == disk' = [disk EXCEPT !.disabled = disk'.disabled]
<1>1. /\ \A b : [props EXCEPT !.disabled = b] = [disk EXCEPT !.disabled = b] \/ ~running \/ autosave
      /\ disk = [disk EXCEPT !.disabled = disk.disabled]
      /\ props.disabled = [disk EXCEPT !.disabled = props.disabled].disabled
  BY DEF SettingsInv, StoredTypeOK, Session!Files
<1>2. Session!Launch => ~autosave' /\ disk' = disk
  BY LaunchKeepsSettings
<1>3. ~Session!Launch /\ UNCHANGED <<disk, autosave>> => Kept
  BY <1>1
<1>4. ASSUME autosave, ~Session!Launch PROVE autosave'
  BY <1>4 DEF Session!Next, Session!SaveExplicitly, Session!Quit, Session!Crash,
    Session!ChangePreference, Session!ArrangeWorkspace, Session!CommandWorkspace,
    Session!ChooseKeyboard, Session!SetInvitations, Session!ImportSettings
<1>5. ASSUME ~autosave, ~Session!Launch
      PROVE  Kept \/ autosave' \/ live'.workspaces = "imported"
  <2>1. CASE Session!Crash \/ Session!Quit
    BY <1>1, <1>5, <2>1 DEF Session!Crash, Session!Quit, Session!SaveAutomatically
  <2>2. CASE Session!SaveExplicitly
    BY <2>2 DEF Session!SaveExplicitly
  <2>3. ASSUME NEW p \in Prefs, Session!ChangePreference(p) PROVE Kept
    BY <1>1, <2>3 DEF Session!ChangePreference
  <2>4. ASSUME NEW w \in {"mine", "bare"}, Session!ArrangeWorkspace(w) \/ Session!CommandWorkspace(w)
        PROVE  Kept
    BY <1>1, <1>5, <2>4
    DEF Session!ArrangeWorkspace, Session!CommandWorkspace, Session!SaveAutomatically
  <2>5. ASSUME NEW k \in Keyboards, Session!ChooseKeyboard(k) PROVE Kept
    BY <1>1, <1>5, <2>5 DEF Session!ChooseKeyboard, Session!SaveAutomatically
  <2>6. ASSUME NEW b \in BOOLEAN, Session!SetInvitations(b) PROVE Kept
    <3>1. running /\ Session!Written([props EXCEPT !.disabled = b])
      BY <2>6 DEF Session!SetInvitations
    <3>2. [props EXCEPT !.disabled = b] = [disk EXCEPT !.disabled = b]
      BY <1>1, <1>5, <3>1
    <3>3. disk' = disk \/ disk' = [disk EXCEPT !.disabled = b]
      BY <3>1, <3>2 DEF Session!Written, Session!Save
    <3>4. [disk EXCEPT !.disabled = b].disabled = b
      BY DEF SettingsInv, StoredTypeOK, Session!Files
    <3>. QED
      BY <1>1, <3>3, <3>4
  <2>7. ASSUME NEW p \in Prefs, NEW b \in BOOLEAN,
               Session!ImportSettings(Session!Candidate(p, b))
        PROVE  Kept \/ live'.workspaces = "imported"
    <3>1. CASE Session!ImportSucceeds(Session!Candidate(p, b))
      BY <3>1 DEF Session!ImportSucceeds, Session!Candidate, Session!Live
    <3>2. CASE Session!ImportFails(Session!Candidate(p, b))
      <4>1. disk' = disk \/ disk' = props
        BY <3>2 DEF Session!ImportFails
      <4>2. running
        BY <2>7 DEF Session!ImportSettings
      <4>3. props = [disk EXCEPT !.disabled = props.disabled]
        BY <1>5, <4>2 DEF SettingsInv
      <4>. QED
        BY <1>1, <4>1, <4>3
    <3>. QED
      BY <2>7, <3>1, <3>2 DEF Session!ImportSettings
  <2>. QED
    BY <1>5, <2>1, <2>2, <2>3, <2>4, <2>5, <2>6, <2>7 DEF Session!Next
<1>. QED
  BY <1>1, <1>2, <1>4, <1>5

LEMMA SettingsAlways == ApplicationSpec => []SettingsInv
<1>1. ApplicationInit => SettingsInv
  <2>. SUFFICES ASSUME ApplicationInit PROVE SettingsInv
    OBVIOUS
  <2>1. /\ disk \in Session!Files /\ props = Session!NoFile /\ dirty = FALSE /\ autosave = FALSE
        /\ live = Session!Loaded(Session!NoFile) /\ running = FALSE /\ promised = Session!Nothing
    BY DEF ApplicationInit, Session!Init
  <2>2. Session!NoFile \in Session!Files /\ Session!Loaded(Session!NoFile) \in Settings
    BY ApplicationAssumption
    DEF Session!SettingsAssumption, Session!NoFile, Session!File, Session!Files, Session!Loaded,
        Session!Live, Session!Schemas, Session!Arrangements, Settings
  <2>. QED
    BY <2>1, <2>2 DEF SettingsInv, StoredTypeOK
<1>2. SettingsInv /\ [ApplicationNext]_<<exercised, vars, workspaces, session, import>> => SettingsInv'
  BY SettingsStepKeeps DEF ApplicationNext
<1>. QED
  BY <1>1, <1>2, PTL DEF ApplicationSpec

\* A settings file of a newer version keeps every value the application owns, through
\* every launch, automatic save, failed write, recovery and invitation choice, until
\* the user saves explicitly or imports (AppSettings load, MainComponent saveSettings).
THEOREM NewerFileIsKept == ApplicationSpec => NewerFileKept
<1>1. /\ SettingsInv
      /\ [ApplicationNext]_<<exercised, vars, workspaces, session, import>>
      => [Session!Newer(disk) =>
            /\ Session!Launch => ~autosave'
            /\ \/ disk' = [disk EXCEPT !.disabled = disk'.disabled]
               \/ autosave'
               \/ live'.workspaces = "imported"]_(Session!session)
  BY NewerFileStep DEF ApplicationNext, Session!session, session
<1>. QED
  BY <1>1, SettingsAlways, PTL DEF ApplicationSpec, NewerFileKept, Session!NewerFileKept

\* What an orderly quit wrote is in force after the next launch, whatever writes failed
\* or were owed before it, also when the launch has to replace the workspace
\* (~MainComponent, AppSettings store and load).
THEOREM SettingsSurviveRestart == ApplicationSpec => KeptAcrossRestart
<1>1. /\ SettingsInv
      /\ [ApplicationNext]_<<exercised, vars, workspaces, session, import>>
      => [Session!Launch /\ promised # Session!Nothing =>
            /\ live'.prefs = promised.prefs /\ live'.keyboard = promised.keyboard
            /\ live'.workspaces =
                 IF Session!Usable(promised.workspaces) THEN promised.workspaces
                 ELSE "pitch-practice"]_(Session!session)
  <2>. SUFFICES ASSUME SettingsInv, Session!Launch, promised # Session!Nothing
                PROVE  /\ live'.prefs = promised.prefs /\ live'.keyboard = promised.keyboard
                       /\ live'.workspaces =
                            IF Session!Usable(promised.workspaces) THEN promised.workspaces
                            ELSE "pitch-practice"
    BY DEF ApplicationNext, Session!session, session
  <2>. QED
    BY LaunchKeepsSettings DEF SettingsInv
<1>. QED
  BY <1>1, SettingsAlways, PTL DEF ApplicationSpec, KeptAcrossRestart, Session!KeptAcrossRestart

-----------------------------------------------------------------------------
(* The named workspaces.  Sequences of entries first: what an edit, a       *)
(* removal and the decoding at the next start leave of them.                *)

Entries == [id : Ids, name : Names, snapshot : Layouts]
Folded(w) == AsciiFolded[w.name]

\* The entries of r are entries of s, each at most once.
Selects(r, s, from) ==
  /\ from \in [1..Len(r) -> 1..Len(s)]
  /\ \A k, l \in 1..Len(r) : from[k] = from[l] => k = l
  /\ \A k \in 1..Len(r) : r[k] = s[from[k]]

\* Removing one entry leaves the others.
LEMMA RemovedSelects ==
  ASSUME NEW s \in Seq(Entries), NEW j \in 1..Len(s)
  PROVE  LET r == Named!RemoveAt(s, j)
         IN /\ r \in Seq(Entries) /\ Len(r) = Len(s) - 1
            /\ \E from : /\ Selects(r, s, from)
                         /\ \A i \in 1..Len(s) :
                              i # j <=> \E k \in 1..Len(r) : from[k] = i
<1> DEFINE r == Named!RemoveAt(s, j)
           head == SubSeq(s, 1, j - 1)
           tail == SubSeq(s, j + 1, Len(s))
           from == [k \in 1..(Len(s) - 1) |-> IF k < j THEN k ELSE k + 1]
<1>1. /\ head \in Seq(Entries) /\ Len(head) = j - 1
      /\ \A k \in 1..(j - 1) : head[k] = s[k]
  OBVIOUS
<1>2. /\ tail \in Seq(Entries) /\ Len(tail) = Len(s) - j
      /\ \A k \in 1..(Len(s) - j) : tail[k] = s[k + j]
  OBVIOUS
<1>3. r = head \o tail
  BY DEF Named!RemoveAt
<1>. HIDE DEF head, tail, r
<1>4. r \in Seq(Entries) /\ Len(r) = Len(s) - 1
  BY <1>1, <1>2, <1>3
<1>5. \A k \in 1..Len(r) : r[k] = IF k < j THEN head[k] ELSE tail[k - (j - 1)]
  BY <1>1, <1>2, <1>3
<1>6. ASSUME NEW k \in 1..Len(r) PROVE r[k] = s[from[k]]
  <2>1. CASE k < j
    <3>1. r[k] = head[k] /\ head[k] = s[k] /\ from[k] = k
      BY <1>1, <1>4, <1>5, <2>1
    <3>. QED
      BY <3>1
  <2>2. CASE ~(k < j)
    <3>1. k - (j - 1) \in 1..(Len(s) - j) /\ (k - (j - 1)) + j = k + 1
      BY <1>4, <2>2
    <3>2. r[k] = tail[k - (j - 1)] /\ from[k] = k + 1
      BY <1>4, <1>5, <2>2
    <3>. QED
      BY <1>2, <3>1, <3>2
  <2>. QED
    BY <2>1, <2>2
<1>7. Selects(r, s, from)
  BY <1>4, <1>6 DEF Selects
<1>8. ASSUME NEW i \in 1..Len(s) PROVE i # j <=> \E k \in 1..Len(r) : from[k] = i
  <2>1. ASSUME i < j PROVE i \in 1..Len(r) /\ from[i] = i
    BY <1>4, <2>1
  <2>2. ASSUME i > j PROVE i - 1 \in 1..Len(r) /\ from[i - 1] = i
    BY <1>4, <2>2
  <2>3. \A k \in 1..Len(r) : from[k] # j
    BY <1>4
  <2>4. i < j \/ i = j \/ i > j
    OBVIOUS
  <2>. HIDE DEF from
  <2>. QED
    BY <2>1, <2>2, <2>3, <2>4
<1>. QED
  BY <1>4, <1>7, <1>8 DEF r

\* The loop over the entries: what it has kept of the first n of them.
Keeps(f, s, n) ==
  f = [i \in 0..n |-> IF i = 0 THEN <<>>
                      ELSE IF s[i].snapshot = NoTools THEN f[i - 1]
                      ELSE Append(f[i - 1], s[i])]

LEMMA LoopExists ==
  ASSUME NEW s \in Seq(Entries)
  PROVE  \A n \in Nat : \E f : Keeps(f, s, n)
<1> DEFINE S == {n \in Nat : \E f : Keeps(f, s, n)}
<1>1. 0 \in S
  <2>1. Keeps([i \in 0..0 |-> <<>>], s, 0)
    BY DEF Keeps
  <2>. QED
    BY <2>1
<1>2. ASSUME NEW n \in Nat, n \in S PROVE n + 1 \in S
  <2>1. PICK f : Keeps(f, s, n)
    BY <1>2
  <2>2. DEFINE g == [i \in 0..(n + 1) |->
                       IF i <= n THEN f[i]
                       ELSE IF s[i].snapshot = NoTools THEN f[i - 1]
                       ELSE Append(f[i - 1], s[i])]
  <2>3. \A i \in 0..(n + 1) :
          g[i] = IF i = 0 THEN <<>>
                 ELSE IF s[i].snapshot = NoTools THEN g[i - 1]
                 ELSE Append(g[i - 1], s[i])
    <3>. SUFFICES ASSUME NEW i \in 0..(n + 1)
                  PROVE  g[i] = IF i = 0 THEN <<>>
                                ELSE IF s[i].snapshot = NoTools THEN g[i - 1]
                                ELSE Append(g[i - 1], s[i])
      OBVIOUS
    <3>1. CASE i = n + 1
      <4>1. i # 0 /\ ~(i <= n) /\ i - 1 \in 0..(n + 1) /\ i - 1 <= n
        BY <3>1
      <4>. QED
        BY <4>1
    <3>2. CASE i # n + 1
      <4>1. /\ i \in 0..n /\ i <= n
            /\ i # 0 => i - 1 \in 0..(n + 1) /\ i - 1 <= n
        BY <3>2
      <4>2. f[i] = IF i = 0 THEN <<>>
                   ELSE IF s[i].snapshot = NoTools THEN f[i - 1]
                   ELSE Append(f[i - 1], s[i])
        BY <2>1, <4>1 DEF Keeps
      <4>. QED
        BY <4>1, <4>2
    <3>. QED
      BY <3>1, <3>2
  <2>4. Keeps(g, s, n + 1)
    BY <2>3 DEF Keeps
  <2>. QED
    BY <2>4
<1>. HIDE DEF S
<1>3. Nat \subseteq S
  BY <1>1, <1>2, Induction
<1>. QED
  BY <1>3 DEF S

\* What the loop keeps are entries with tools, each once, and all of those.
LEMMA DecodedSelects ==
  ASSUME NEW s \in Seq(Entries)
  PROVE  LET r == Named!Decoded(s)
         IN /\ r \in Seq(Entries) /\ Len(r) <= Len(s)
            /\ \E from : /\ Selects(r, s, from)
                         /\ \A i \in 1..Len(s) :
                              s[i].snapshot # NoTools <=> \E k \in 1..Len(r) : from[k] = i
<1>1. PICK f : Keeps(f, s, Len(s)) /\ Named!Decoded(s) = f[Len(s)]
  <2>1. Len(s) \in Nat
    OBVIOUS
  <2>2. \E f : Keeps(f, s, Len(s))
    BY <2>1, LoopExists
  <2>. QED
    BY <2>2 DEF Keeps, Named!Decoded
<1> DEFINE Kept(r, n) ==
             /\ r \in Seq(Entries) /\ Len(r) <= n
             /\ \E from \in [1..Len(r) -> 1..n] :
                  /\ \A k, l \in 1..Len(r) : from[k] = from[l] => k = l
                  /\ \A k \in 1..Len(r) : r[k] = s[from[k]]
                  /\ \A i \in 1..n :
                       s[i].snapshot # NoTools <=> \E k \in 1..Len(r) : from[k] = i
           S == {n \in Nat : n <= Len(s) => Kept(f[n], n)}
<1>2. /\ f[0] = <<>>
      /\ \A n \in 0..(Len(s) - 1) :
           f[n + 1] = IF s[n + 1].snapshot = NoTools THEN f[n] ELSE Append(f[n], s[n + 1])
  <2>1. \A i \in 0..Len(s) : f[i] = IF i = 0 THEN <<>>
                                    ELSE IF s[i].snapshot = NoTools THEN f[i - 1]
                                    ELSE Append(f[i - 1], s[i])
    BY <1>1 DEF Keeps
  <2>2. \A n \in 0..(Len(s) - 1) : n + 1 \in 0..Len(s) /\ n + 1 # 0 /\ (n + 1) - 1 = n
    OBVIOUS
  <2>. QED
    BY <2>1, <2>2
<1>3. 0 \in S
  <2>1. f[0] \in Seq(Entries) /\ Len(f[0]) = 0 /\ [k \in 1..0 |-> 0] \in [1..0 -> 1..0]
    BY <1>2
  <2>. QED
    BY <2>1
<1>4. ASSUME NEW n \in Nat, n \in S, n + 1 <= Len(s) PROVE Kept(f[n + 1], n + 1)
  <2>1. Kept(f[n], n) /\ n \in 0..(Len(s) - 1) /\ s[n + 1] \in Entries
    BY <1>4
  <2>2. PICK from \in [1..Len(f[n]) -> 1..n] :
          /\ \A k, l \in 1..Len(f[n]) : from[k] = from[l] => k = l
          /\ \A k \in 1..Len(f[n]) : f[n][k] = s[from[k]]
          /\ \A i \in 1..n : s[i].snapshot # NoTools <=> \E k \in 1..Len(f[n]) : from[k] = i
    BY <2>1
  <2>3. \A k \in 1..Len(f[n]) : from[k] \in Nat /\ 1 <= from[k] /\ from[k] <= n
    <3>1. \A k \in 1..Len(f[n]) : from[k] \in 1..n
      OBVIOUS
    <3>. QED
      BY <3>1
  <2>4. CASE s[n + 1].snapshot = NoTools
    <3>1. f[n + 1] = f[n]
      BY <1>2, <2>1, <2>4
    <3>2. \A k \in 1..Len(f[n]) : from[k] \in 1..(n + 1) /\ from[k] # n + 1
      BY <2>3
    <3>3. from \in [1..Len(f[n]) -> 1..(n + 1)]
      BY <3>2
    <3>4. \A i \in 1..(n + 1) : i \in 1..n \/ i = n + 1
      BY <2>1
    <3>5. \A i \in 1..(n + 1) :
            s[i].snapshot # NoTools <=> \E k \in 1..Len(f[n]) : from[k] = i
      BY <2>2, <2>4, <3>2, <3>4
    <3>6. f[n] \in Seq(Entries) /\ Len(f[n]) <= n + 1
      BY <2>1
    <3>7. Kept(f[n], n + 1)
      BY <2>2, <3>3, <3>5, <3>6
    <3>. QED
      BY <3>1, <3>7
  <2>5. CASE s[n + 1].snapshot # NoTools
    <3> DEFINE r == f[n + 1]
               m == Len(r)
               more == [k \in 1..m |-> IF k = m THEN n + 1 ELSE from[k]]
    <3>1. r = Append(f[n], s[n + 1])
      BY <1>2, <2>1, <2>5
    <3>2. /\ r \in Seq(Entries) /\ m = Len(f[n]) + 1 /\ m <= n + 1 /\ r[m] = s[n + 1]
          /\ \A k \in 1..Len(f[n]) : r[k] = f[n][k]
      BY <2>1, <3>1
    <3>. HIDE DEF r
    <3>3. \A k \in 1..m : k = m \/ k \in 1..Len(f[n])
      BY <2>1, <3>2
    <3>4. more \in [1..m -> 1..(n + 1)]
      BY <2>1, <2>3, <3>2, <3>3
    <3>5. more[m] = n + 1 /\ \A k \in 1..Len(f[n]) : more[k] = from[k] /\ more[k] # n + 1 /\ k \in 1..m
      BY <2>1, <2>3, <3>2
    <3>. HIDE DEF more
    <3>6. \A k, l \in 1..m : more[k] = more[l] => k = l
      BY <2>2, <3>3, <3>5
    <3>7. \A k \in 1..m : r[k] = s[more[k]]
      BY <2>2, <3>2, <3>3, <3>5
    <3>8. \A i \in 1..(n + 1) : s[i].snapshot # NoTools <=> \E k \in 1..m : more[k] = i
      <4>1. \A i \in 1..(n + 1) : i \in 1..n \/ i = n + 1
        BY <2>1
      <4>2. m \in 1..m
        BY <2>1, <3>2
      <4>3. ASSUME NEW i \in 1..n
            PROVE  s[i].snapshot # NoTools <=> \E k \in 1..m : more[k] = i
        <5>1. i # n + 1 /\ more[m] # i
          BY <3>5
        <5>2. (\E k \in 1..m : more[k] = i) <=> \E k \in 1..Len(f[n]) : from[k] = i
          BY <3>3, <3>5, <5>1
        <5>. QED
          BY <2>2, <5>2
      <4>4. s[n + 1].snapshot # NoTools /\ \E k \in 1..m : more[k] = n + 1
        BY <2>5, <3>5, <4>2
      <4>. QED
        BY <4>1, <4>3, <4>4
    <3>9. Kept(r, n + 1)
      BY <3>2, <3>4, <3>6, <3>7, <3>8
    <3>. QED
      BY <3>9 DEF r
  <2>. QED
    BY <2>4, <2>5
<1>. HIDE DEF Kept
<1>5. \A n \in Nat : n \in S => n + 1 \in S
  BY <1>4
<1>. HIDE DEF S
<1>6. Nat \subseteq S
  BY <1>3, <1>5, Induction
<1>7. Kept(f[Len(s)], Len(s))
  <2>1. Len(s) \in Nat /\ Len(s) <= Len(s)
    OBVIOUS
  <2>. QED
    BY <1>6, <2>1 DEF S
<1>8. \A r : Kept(r, Len(s)) =>
        \E from : /\ Selects(r, s, from)
                  /\ \A i \in 1..Len(s) :
                       s[i].snapshot # NoTools <=> \E k \in 1..Len(r) : from[k] = i
  BY DEF Selects, Kept
<1>9. \A r : Kept(r, Len(s)) => r \in Seq(Entries) /\ Len(r) <= Len(s)
  BY DEF Kept
<1>. QED
  BY <1>1, <1>7, <1>8, <1>9

WellNamed(s) ==
  /\ s \in Seq(Entries) /\ Len(s) <= MaximumNamed
  /\ \A a, b \in 1..Len(s) : s[a].id = s[b].id \/ Folded(s[a]) = Folded(s[b]) => a = b
  /\ \A a \in 1..Len(s) : Folded(s[a]) \notin Reserved

IdsOf(s) == {s[i].id : i \in 1..Len(s)}

CatalogInv ==
  /\ WellNamed(named)
  /\ source \in BuiltInIds \cup IdsOf(named) \cup {NoId}
  /\ active \in Layouts /\ layout \in Layouts

\* A question is about an entry that is there, and stays there until it is answered.
AsksToSave ==
  \E i \in 1..Len(named), name \in Names :
    /\ dialog = [asks |-> "save", name |-> name, about |-> named[i].id]
    /\ AsciiFolded[name] = Folded(named[i])

AsksToRename ==
  \E i, j \in 1..Len(named), name \in Names :
    /\ dialog = [asks |-> "rename", name |-> name, about |-> named[j].id]
    /\ AsciiFolded[name] = Folded(named[j]) /\ i # j /\ source = named[i].id

AsksAboutActive ==
  \E i \in 1..Len(named), asks \in {"overwrite", "delete"} :
    dialog = [asks |-> asks, about |-> named[i].id] /\ source = named[i].id

QuestionInv ==
  dialog = Named!NoDialog \/ AsksToSave \/ AsksToRename \/ AsksAboutActive \/ dialog.asks = "reset"

LEMMA SelectionWellNamed ==
  ASSUME NEW s \in Seq(Entries), NEW r \in Seq(Entries), NEW from, Selects(r, s, from),
         Len(r) <= MaximumNamed,
         \A k, l \in 1..Len(r) :
           s[from[k]].id = s[from[l]].id \/ Folded(s[from[k]]) = Folded(s[from[l]]) =>
             from[k] = from[l],
         \A k \in 1..Len(r) : Folded(s[from[k]]) \notin Reserved
  PROVE  WellNamed(r)
<1>1. \A k \in 1..Len(r) : r[k] = s[from[k]]
  BY DEF Selects
<1>2. \A k, l \in 1..Len(r) : r[k].id = r[l].id \/ Folded(r[k]) = Folded(r[l]) => k = l
  BY <1>1 DEF Selects
<1>3. \A k \in 1..Len(r) : Folded(r[k]) \notin Reserved
  BY <1>1
<1>. QED
  BY <1>2, <1>3 DEF WellNamed

\* One entry gets a name no other has, or another layout.
LEMMA EditWellNamed ==
  ASSUME NEW s, WellNamed(s), NEW t \in Seq(Entries), Len(t) = Len(s), NEW i \in 1..Len(s),
         t[i].id = s[i].id, \A j \in 1..Len(s) : j # i => t[j] = s[j],
         Folded(t[i]) \notin Reserved,
         \A j \in 1..Len(s) : j # i => Folded(s[j]) # Folded(t[i])
  PROVE  WellNamed(t) /\ IdsOf(t) = IdsOf(s)
<1>1. \A a \in 1..Len(t) : t[a].id = s[a].id
  OBVIOUS
<1>2. \A a, b \in 1..Len(t) : t[a].id = t[b].id => a = b
  BY <1>1 DEF WellNamed
<1>3. \A a, b \in 1..Len(t) : Folded(t[a]) = Folded(t[b]) => a = b
  BY DEF WellNamed
<1>4. \A a \in 1..Len(t) : Folded(t[a]) \notin Reserved
  BY DEF WellNamed
<1>5. IdsOf(t) = IdsOf(s)
  BY <1>1 DEF IdsOf
<1>. QED
  BY <1>2, <1>3, <1>4, <1>5 DEF WellNamed

LEMMA IndexIsThere ==
  ASSUME WellNamed(named), NEW id, NEW name
  PROVE  /\ Named!IndexOfId(id) # 0 =>
              Named!IndexOfId(id) \in 1..Len(named) /\ named[Named!IndexOfId(id)].id = id
         /\ Named!IndexOfName(name) # 0 =>
              /\ Named!IndexOfName(name) \in 1..Len(named)
              /\ Folded(named[Named!IndexOfName(name)]) = AsciiFolded[name]
         /\ \A i \in 1..Len(named) : named[i].id = id => Named!IndexOfId(id) = i
         /\ \A i \in 1..Len(named) :
              Folded(named[i]) = AsciiFolded[name] => Named!IndexOfName(name) = i
<1> DEFINE I == {i \in 1..Len(named) : named[i].id = id}
           J == {i \in 1..Len(named) : AsciiFolded[named[i].name] = AsciiFolded[name]}
<1>1. ASSUME NEW S \in SUBSET (1..Len(named)), S # {} PROVE Named!Min(S) \in S
  <2>1. S \in SUBSET Nat
    BY DEF WellNamed
  <2>2. \E m \in S : \A k \in S : m <= k
    BY <1>1, <2>1, LeastExists
  <2>. QED
    BY <2>2 DEF Named!Min
<1>2. Named!IndexOfId(id) = IF I # {} THEN Named!Min(I) ELSE 0
  BY DEF Named!IndexOfId, Named!SelectInSeq
<1>3. Named!IndexOfName(name) = IF J # {} THEN Named!Min(J) ELSE 0
  BY DEF Named!IndexOfName, Named!SelectInSeq
<1>4. /\ I # {} => Named!Min(I) \in I
      /\ J # {} => Named!Min(J) \in J
  BY <1>1
<1>5. \A i \in 1..Len(named) : i # 0
  BY DEF WellNamed
<1>. QED
  BY <1>2, <1>3, <1>4, <1>5 DEF WellNamed, Folded

-----------------------------------------------------------------------------
(* The steps of the named workspaces.                                       *)

\* What may become of an entry in a step: see OnlyTheConfirmedIsTouched.
Stays(i) ==
  \E j \in 1..Len(named') : named'[j].id = named[i].id /\ named'[j].snapshot = named[i].snapshot

AgreedTo(i) ==
  /\ dialog # Named!NoDialog /\ dialog' = Named!NoDialog /\ dialog.about = named[i].id
  /\ \A j \in 1..Len(named') : named'[j].id = named[i].id => named'[j].snapshot = layout

Touched ==
  \A i \in 1..Len(named) : Stays(i) \/ named[i].snapshot = NoTools \/ AgreedTo(i)

LEMMA SaveNewKeeps ==
  ASSUME CatalogInv, NEW name \in Names, AsciiFolded[name] \notin Reserved,
         Named!IndexOfName(name) = 0, Named!SaveNew(name), active' = layout,
         UNCHANGED <<layout, dialog>>
  PROVE  CatalogInv' /\ Touched
<1>1. PICK id \in Ids \ IdsOf(named) :
        /\ Len(named) < MaximumNamed
        /\ named' = Append(named, [id |-> id, name |-> name, snapshot |-> layout])
        /\ source' = id
  BY DEF Named!SaveNew, Named!NamedIds, Named!Entry, IdsOf, CatalogInv, WellNamed
<1>2. named \in Seq(Entries) /\ [id |-> id, name |-> name, snapshot |-> layout] \in Entries
  BY DEF CatalogInv, WellNamed, Entries
<1>3. /\ named' \in Seq(Entries) /\ Len(named') = Len(named) + 1
      /\ \A i \in 1..Len(named) : named'[i] = named[i] /\ i \in 1..Len(named') /\ i # Len(named')
      /\ named'[Len(named')].id = id /\ Folded(named'[Len(named')]) = AsciiFolded[name]
      /\ \A i \in 1..Len(named') : i \in 1..Len(named) \/ i = Len(named')
      /\ Len(named') \in 1..Len(named')
  BY <1>1, <1>2 DEF Folded
<1>4. \A i \in 1..Len(named) : named[i].id # id /\ Folded(named[i]) # AsciiFolded[name]
  BY <1>1, IndexIsThere DEF CatalogInv, IdsOf
<1>5. Len(named') <= MaximumNamed
  BY <1>1, <1>2, <1>3, ApplicationAssumption DEF Named!CatalogAssumption
<1>6. \A a, b \in 1..Len(named') :
        named'[a].id = named'[b].id \/ Folded(named'[a]) = Folded(named'[b]) => a = b
  BY <1>3, <1>4 DEF CatalogInv, WellNamed
<1>7. \A a \in 1..Len(named') : Folded(named'[a]) \notin Reserved
  BY <1>3 DEF CatalogInv, WellNamed
<1>8. WellNamed(named')
  BY <1>3, <1>5, <1>6, <1>7 DEF WellNamed
<1>9. source' \in IdsOf(named')
  BY <1>1, <1>3 DEF IdsOf
<1>10. Touched
  BY <1>3 DEF Touched, Stays
<1>. QED
  BY <1>8, <1>9, <1>10 DEF CatalogInv

\* An edit of one entry that the user agreed to, or that keeps its layout.
LEMMA EditKeeps ==
  ASSUME CatalogInv, NEW i \in 1..Len(named), NEW name \in Names, NEW snapshot \in Layouts,
         named' = [named EXCEPT ![i].name = name, ![i].snapshot = snapshot],
         AsciiFolded[name] \notin Reserved,
         \A j \in 1..Len(named) : j # i => Folded(named[j]) # AsciiFolded[name],
         snapshot = named[i].snapshot
           \/ /\ dialog # Named!NoDialog /\ dialog' = Named!NoDialog /\ dialog.about = named[i].id
              /\ snapshot = layout,
         source' \in {source, named[i].id}, active' \in {active, layout}, layout' = layout
  PROVE  CatalogInv' /\ Touched
<1>1. named \in Seq(Entries)
  BY DEF CatalogInv, WellNamed
<1>2. /\ Len(named') = Len(named) /\ named' \in Seq(Entries)
      /\ named'[i].id = named[i].id /\ named'[i].name = name /\ named'[i].snapshot = snapshot
      /\ \A j \in 1..Len(named) : j # i => named'[j] = named[j]
  <2> DEFINE edited == [[named[i] EXCEPT !.name = name] EXCEPT !.snapshot = snapshot]
  <2>1. named[i] \in Entries
    BY <1>1
  <2>2. /\ edited \in Entries /\ edited.id = named[i].id
        /\ edited.name = name /\ edited.snapshot = snapshot
    BY <2>1 DEF Entries
  <2>3. named' = [named EXCEPT ![i] = edited]
    BY <1>1
  <2>. HIDE DEF edited
  <2>. QED
    BY <1>1, <2>2, <2>3
<1>3. WellNamed(named') /\ IdsOf(named') = IdsOf(named)
  <2>1. Folded(named'[i]) = AsciiFolded[name]
    BY <1>2 DEF Folded
  <2>2. /\ WellNamed(named) /\ Folded(named'[i]) \notin Reserved
        /\ \A j \in 1..Len(named) : j # i => Folded(named[j]) # Folded(named'[i])
    BY <2>1 DEF CatalogInv
  <2>. QED
    BY <1>2, <2>2, EditWellNamed
<1>4. source' \in BuiltInIds \cup IdsOf(named') \cup {NoId}
  BY <1>3 DEF CatalogInv, IdsOf
<1>5. Touched
  <2>. SUFFICES ASSUME NEW k \in 1..Len(named)
                PROVE  Stays(k) \/ AgreedTo(k)
    BY DEF Touched
  <2>1. CASE k # i \/ snapshot = named[i].snapshot
    BY <1>2, <2>1 DEF Stays
  <2>2. CASE k = i /\ snapshot # named[i].snapshot
    <3>1. \A j \in 1..Len(named') : named'[j].id = named[i].id => j = i
      BY <1>2 DEF CatalogInv, WellNamed
    <3>. QED
      BY <1>2, <2>2, <3>1 DEF AgreedTo
  <2>. QED
    BY <2>1, <2>2
<1>. QED
  BY <1>3, <1>4, <1>5 DEF CatalogInv

Alike(s, t) ==
  Len(s) = Len(t) /\ \A i \in 1..Len(s) : s[i].id = t[i].id /\ s[i].snapshot = t[i].snapshot

ApartIn(r, s, from) ==
  /\ \A k, l \in 1..Len(r) : Folded(s[from[k]]) = Folded(s[from[l]]) => from[k] = from[l]
  /\ \A k \in 1..Len(r) : Folded(s[from[k]]) \notin Reserved

SelectedOnly(from) ==
  \A i \in 1..Len(named) :
    IF \E k \in 1..Len(named') : from[k] = i
    THEN Stays(i) /\ named[i].id \in IdsOf(named')
    ELSE \A j \in 1..Len(named') : named'[j].id # named[i].id

\* What is selected of entries that keep their ids and layouts.
LEMMA SelectionKeeps ==
  ASSUME CatalogInv, NEW s \in Seq(Entries), Alike(s, named), NEW from,
         named' \in Seq(Entries), Len(named') <= Len(s),
         Selects(named', s, from), ApartIn(named', s, from)
  PROVE  WellNamed(named') /\ SelectedOnly(from)
<1>. USE DEF Alike, ApartIn
<1>1. /\ \A k \in 1..Len(named') : from[k] \in 1..Len(named) /\ named'[k] = s[from[k]]
      /\ Len(named') <= MaximumNamed
  BY ApplicationAssumption DEF Selects, CatalogInv, WellNamed, Named!CatalogAssumption
<1>2. \A k, l \in 1..Len(named') : s[from[k]].id = s[from[l]].id => from[k] = from[l]
  <2>1. \A a, b \in 1..Len(named) : s[a].id = s[b].id => a = b
    BY DEF CatalogInv, WellNamed
  <2>. QED
    BY <1>1, <2>1
<1>3. WellNamed(named')
  BY <1>1, <1>2, SelectionWellNamed
<1>4. ASSUME NEW i \in 1..Len(named), NEW k \in 1..Len(named'), from[k] = i
      PROVE  Stays(i) /\ named[i].id \in IdsOf(named')
  BY <1>1, <1>4 DEF Stays, IdsOf
<1>5. ASSUME NEW i \in 1..Len(named), NEW j \in 1..Len(named'), named'[j].id = named[i].id
      PROVE  from[j] = i
  BY <1>1, <1>5 DEF CatalogInv, WellNamed
<1>. QED
  BY <1>3, <1>4, <1>5 DEF SelectedOnly

\* The confirmed removal of an entry, another of which may take its name.
LEMMA RemovalKeeps ==
  ASSUME CatalogInv, NEW s \in Seq(Entries), Alike(s, named), NEW j \in 1..Len(s),
         \A k, l \in 1..Len(s) : k # j /\ l # j /\ Folded(s[k]) = Folded(s[l]) => k = l,
         \A k \in 1..Len(s) : k # j => Folded(s[k]) \notin Reserved,
         named' = Named!RemoveAt(s, j),
         dialog # Named!NoDialog, dialog' = Named!NoDialog, dialog.about = named[j].id,
         \/ source' = NoId
         \/ source' = source /\ source # named[j].id,
         UNCHANGED <<layout, active>>
  PROVE  CatalogInv' /\ Touched
<1>1. PICK from :
        /\ Selects(named', s, from)
        /\ \A i \in 1..Len(s) : i # j <=> \E k \in 1..Len(named') : from[k] = i
  BY RemovedSelects
<1>2. named' \in Seq(Entries) /\ Len(named') = Len(s) - 1
  BY RemovedSelects
<1>3. \A k \in 1..Len(named') : from[k] \in 1..Len(s) /\ from[k] # j
  BY <1>1 DEF Selects
<1>4. Len(named') <= Len(s)
  BY <1>2
<1>5. WellNamed(named') /\ SelectedOnly(from)
  <2>1. ApartIn(named', s, from)
    BY <1>3 DEF ApartIn
  <2>. QED
    BY <1>1, <1>2, <1>4, <2>1, SelectionKeeps
<1>6. Touched
  BY <1>1, <1>5 DEF Touched, AgreedTo, SelectedOnly, Alike
<1>7. source' \in BuiltInIds \cup IdsOf(named') \cup {NoId}
  <2>1. CASE source' = NoId
    BY <2>1
  <2>2. CASE source \in BuiltInIds /\ source' = source
    BY <2>2
  <2>3. CASE source \in IdsOf(named) /\ source' = source /\ source # named[j].id
    <3>1. PICK i \in 1..Len(named) : source = named[i].id
      BY <2>3 DEF IdsOf
    <3>2. i # j
      BY <2>3, <3>1
    <3>. QED
      BY <1>1, <1>5, <2>3, <3>1, <3>2 DEF IdsOf, SelectedOnly, Alike
  <2>. QED
    BY <2>1, <2>2, <2>3 DEF CatalogInv
<1>. QED
  BY <1>5, <1>6, <1>7 DEF CatalogInv

LEMMA RestartKeeps ==
  ASSUME CatalogInv, Named!Restart
  PROVE  CatalogInv' /\ Touched
<1> DEFINE r == Named!Decoded(named)
<1>1. /\ named' = r
      /\ layout' = IF layout = NoTools THEN StartLayout ELSE layout
      /\ active' = layout'
      /\ source' \in {source, NoId}
      /\ source' # NoId => source \in BuiltInIds \cup {r[i].id : i \in DOMAIN r}
  BY DEF Named!Restart, Named!Reopened
<1>2. named \in Seq(Entries)
  BY DEF CatalogInv, WellNamed
<1>3. /\ named' \in Seq(Entries) /\ Len(named') <= Len(named)
  BY <1>1, <1>2, DecodedSelects
<1>4. PICK from :
        /\ Selects(named', named, from)
        /\ \A i \in 1..Len(named) :
             named[i].snapshot # NoTools <=> \E k \in 1..Len(named') : from[k] = i
  BY <1>1, <1>2, DecodedSelects
<1>5. \A k \in 1..Len(named') : from[k] \in 1..Len(named)
  BY <1>4 DEF Selects
<1>6. ApartIn(named', named, from) /\ Alike(named, named)
  BY <1>5 DEF CatalogInv, WellNamed, ApartIn, Alike
<1>7. WellNamed(named') /\ SelectedOnly(from)
  BY <1>2, <1>3, <1>4, <1>6, SelectionKeeps
<1>8. Touched
  BY <1>4, <1>7 DEF Touched, SelectedOnly
<1>9. source' \in BuiltInIds \cup IdsOf(named') \cup {NoId}
  <2>1. {r[i].id : i \in DOMAIN r} = IdsOf(named')
    BY <1>1, <1>3 DEF IdsOf
  <2>. QED
    BY <1>1, <2>1
<1>10. active' \in Layouts /\ layout' \in Layouts
  BY <1>1, ApplicationAssumption DEF CatalogInv, Named!CatalogAssumption
<1>. QED
  BY <1>7, <1>8, <1>9, <1>10 DEF CatalogInv

\* The entries are left as they are.
LEMMA EntriesKept ==
  ASSUME CatalogInv, named' = named, layout' \in Layouts, active' \in Layouts,
         source' \in BuiltInIds \cup IdsOf(named) \cup {NoId}
  PROVE  CatalogInv' /\ Touched
<1>1. Touched
  BY DEF Touched, Stays
<1>. QED
  BY <1>1 DEF CatalogInv

LEMMA AskingKeeps ==
  ASSUME CatalogInv, dialog = Named!NoDialog,
         \/ \E name \in Names : Named!SaveNamedWorkspace(name) \/ Named!RenameNamedWorkspace(name)
         \/ \E asks \in {"overwrite", "delete", "reset"} : Named!Confirmation(asks)
  PROVE  CatalogInv' /\ QuestionInv' /\ Touched
<1>. USE DEF QuestionInv
<1>0. WellNamed(named) /\ layout \in Layouts
  BY DEF CatalogInv
<1>1. ASSUME NEW name \in Names, Named!SaveNamedWorkspace(name)
      PROVE  CatalogInv' /\ QuestionInv' /\ Touched
  <2>1. AsciiFolded[name] \notin Reserved /\ active' = layout
    BY <1>1 DEF Named!SaveNamedWorkspace
  <2>2. CASE Named!IndexOfName(name) = 0
    <3>1. Named!SaveNew(name) /\ UNCHANGED <<layout, dialog>>
      BY <1>1, <2>2 DEF Named!SaveNamedWorkspace
    <3>. QED
      BY <2>1, <2>2, <3>1, SaveNewKeeps
  <2>3. CASE Named!IndexOfName(name) # 0
    <3> DEFINE i == Named!IndexOfName(name)
    <3>1. /\ dialog' = [asks |-> "save", name |-> name, about |-> named[i].id]
          /\ layout' = layout /\ UNCHANGED <<source, named>>
      BY <1>1, <2>3 DEF Named!SaveNamedWorkspace, Named!Ask
    <3>2. i \in 1..Len(named) /\ AsciiFolded[name] = Folded(named[i])
      BY <1>0, <2>3, IndexIsThere
    <3>3. AsksToSave'
      BY <3>1, <3>2 DEF AsksToSave
    <3>. QED
      BY <1>0, <2>1, <3>1, <3>3, EntriesKept DEF CatalogInv
  <2>. QED
    BY <2>2, <2>3
<1>2. ASSUME NEW name \in Names, Named!RenameNamedWorkspace(name)
      PROVE  CatalogInv' /\ QuestionInv' /\ Touched
  <2> DEFINE i == Named!IndexOfId(source)
             j == Named!IndexOfName(name)
  <2>1. AsciiFolded[name] \notin Reserved /\ i # 0
    BY <1>2 DEF Named!RenameNamedWorkspace, Named!ActiveNamed
  <2>2. i \in 1..Len(named) /\ named[i].id = source
    BY <1>0, <2>1, IndexIsThere
  <2>3. CASE j \in {0, i}
    <3>1. named' = [named EXCEPT ![i].name = name] /\ UNCHANGED <<layout, active, source, dialog>>
      BY <1>2, <2>3 DEF Named!RenameNamedWorkspace, Named!ActiveNamed
    <3>2. named[i] \in Entries
      BY <1>0, <2>2 DEF WellNamed
    <3>3. named' = [named EXCEPT ![i].name = name, ![i].snapshot = named[i].snapshot]
          /\ named[i].snapshot \in Layouts
      <4>1. [named[i] EXCEPT !.name = name]
              = [[named[i] EXCEPT !.name = name] EXCEPT !.snapshot = named[i].snapshot]
        BY <3>2 DEF Entries
      <4>2. named[i].snapshot \in Layouts
        BY <3>2 DEF Entries
      <4>3. named \in Seq(Entries) /\ i \in DOMAIN named
        BY <1>0, <2>2 DEF WellNamed
      <4>. QED
        BY <3>1, <4>1, <4>2, <4>3
    <3>4. \A k \in 1..Len(named) : k # i => Folded(named[k]) # AsciiFolded[name]
      <4>1. \A k \in 1..Len(named) : k # 0 /\ (Folded(named[k]) = AsciiFolded[name] => j = k)
        BY <1>0, IndexIsThere DEF WellNamed
      <4>. QED
        BY <2>3, <4>1
    <3>. QED
      BY <2>1, <2>2, <3>1, <3>3, <3>4, EditKeeps
  <2>4. CASE j \notin {0, i}
    <3>1. /\ dialog' = [asks |-> "rename", name |-> name, about |-> named[j].id]
          /\ layout' = layout /\ UNCHANGED <<active, source, named>>
      BY <1>2, <2>4 DEF Named!RenameNamedWorkspace, Named!ActiveNamed, Named!Ask, Named!catalog
    <3>2. j \in 1..Len(named) /\ AsciiFolded[name] = Folded(named[j])
      BY <1>0, <2>4, IndexIsThere
    <3>3. AsksToRename'
      BY <2>2, <2>4, <3>1, <3>2 DEF AsksToRename
    <3>. QED
      BY <1>0, <3>1, <3>3, EntriesKept DEF CatalogInv
  <2>. QED
    BY <2>3, <2>4
<1>3. ASSUME NEW asks \in {"overwrite", "delete", "reset"}, Named!Confirmation(asks)
      PROVE  CatalogInv' /\ QuestionInv' /\ Touched
  <2>1. /\ dialog' = [asks |-> asks, about |-> source]
        /\ layout' = layout /\ UNCHANGED <<active, source, named>>
        /\ Named!IndexOfId(source) # 0 \/ asks = "reset"
    BY <1>3 DEF Named!Confirmation, Named!Ask, Named!catalog, Named!ActiveNamed
  <2>2. CASE asks = "reset"
    <3>1. dialog'.asks = "reset"
      BY <2>1, <2>2
    <3>. QED
      BY <1>0, <2>1, <3>1, EntriesKept DEF CatalogInv
  <2>3. CASE asks \in {"overwrite", "delete"}
    <3>1. PICK i \in 1..Len(named) : named[i].id = source
      BY <1>0, <2>1, <2>3, IndexIsThere
    <3>2. AsksAboutActive'
      BY <2>1, <2>3, <3>1 DEF AsksAboutActive
    <3>. QED
      BY <1>0, <2>1, <3>2, EntriesKept DEF CatalogInv
  <2>. QED
    BY <2>2, <2>3
<1>. QED
  BY <1>1, <1>2, <1>3

LEMMA AgreeingKeeps ==
  ASSUME CatalogInv, QuestionInv, Named!Agree
  PROVE  CatalogInv' /\ QuestionInv' /\ Touched
<1>1. dialog' = Named!NoDialog /\ QuestionInv'
  BY DEF Named!Agree, QuestionInv
<1>2. WellNamed(named) /\ layout \in Layouts /\ named \in Seq(Entries)
  BY DEF CatalogInv, WellNamed
<1>3. /\ dialog.asks = "save" => AsksToSave
      /\ dialog.asks = "rename" => AsksToRename
      /\ dialog.asks \in {"overwrite", "delete"} => AsksAboutActive
      /\ dialog.asks # "nothing" => dialog # Named!NoDialog
  BY DEF QuestionInv, AsksToSave, AsksToRename, AsksAboutActive, Named!NoDialog
<1>4. CASE Named!AgreeSave
  <2>1. dialog.asks = "save" /\ active' = layout /\ layout' = layout
    BY <1>4 DEF Named!AgreeSave
  <2>2. PICK i \in 1..Len(named), name \in Names :
          /\ dialog = [asks |-> "save", name |-> name, about |-> named[i].id]
          /\ AsciiFolded[name] = Folded(named[i])
    BY <1>3, <2>1 DEF AsksToSave
  <2>3. Named!IndexOfName(name) = i /\ dialog.name = name /\ dialog.about = named[i].id
    BY <1>2, <2>2, IndexIsThere
  <2>4. /\ named' = [named EXCEPT ![i].name = name, ![i].snapshot = layout]
        /\ source' = named[i].id
    BY <1>4, <2>3 DEF Named!AgreeSave, Named!SaveOver
  <2>5. /\ AsciiFolded[name] \notin Reserved
        /\ \A j \in 1..Len(named) : j # i => Folded(named[j]) # AsciiFolded[name]
    BY <1>2, <2>2 DEF WellNamed
  <2>. QED
    BY <1>1, <1>2, <1>3, <2>1, <2>3, <2>4, <2>5, EditKeeps
<1>5. CASE Named!AgreeRename
  <2>1. dialog.asks = "rename" /\ layout' = layout
    BY <1>5 DEF Named!AgreeRename
  <2>2. PICK i \in 1..Len(named), j \in 1..Len(named), name \in Names :
          /\ dialog = [asks |-> "rename", name |-> name, about |-> named[j].id]
          /\ AsciiFolded[name] = Folded(named[j]) /\ i # j /\ source = named[i].id
    BY <1>3, <2>1 DEF AsksToRename
  <2>3. /\ Named!IndexOfName(name) = j /\ Named!IndexOfId(source) = i
        /\ dialog.name = name /\ dialog.about = named[j].id
    BY <1>2, <2>2, IndexIsThere
  <2> DEFINE s == [named EXCEPT ![i].name = name]
  <2>4. named' = Named!RemoveAt(s, j) /\ source' = source /\ active' = active
    BY <1>5, <2>2, <2>3 DEF Named!AgreeRename, Named!RenameOver, Named!ActiveNamed
  <2>5. /\ s \in Seq(Entries) /\ Len(s) = Len(named)
        /\ s[i].name = name /\ \A k \in 1..Len(named) : k # i => s[k] = named[k]
        /\ s[i].id = named[i].id /\ s[i].snapshot = named[i].snapshot
    <3>1. named[i] \in Entries
      BY <1>2
    <3>2. [named[i] EXCEPT !.name = name] \in Entries
      BY <3>1 DEF Entries
    <3>. QED
      BY <1>2, <3>1, <3>2 DEF Entries
  <2>. HIDE DEF s
  <2>6. Alike(s, named) /\ j \in 1..Len(s)
    BY <2>5 DEF Alike
  <2>7. Folded(s[i]) = Folded(named[j]) /\ source # named[j].id
    BY <1>2, <2>2, <2>5 DEF Folded, WellNamed
  <2>8. \A k, l \in 1..Len(s) : k # j /\ l # j /\ Folded(s[k]) = Folded(s[l]) => k = l
    BY <1>2, <2>5, <2>7 DEF WellNamed
  <2>9. \A k \in 1..Len(s) : k # j => Folded(s[k]) \notin Reserved
    BY <1>2, <2>5, <2>7 DEF WellNamed
  <2>. QED
    BY <1>1, <1>3, <2>1, <2>3, <2>4, <2>5, <2>6, <2>7, <2>8, <2>9, RemovalKeeps
<1>6. CASE Named!AgreeOverwrite
  <2>1. dialog.asks = "overwrite" /\ active' = layout /\ layout' = layout
    BY <1>6 DEF Named!AgreeOverwrite
  <2>2. PICK i \in 1..Len(named) : dialog.about = named[i].id
    BY <1>3, <2>1 DEF AsksAboutActive
  <2>3. Named!IndexOfId(dialog.about) = i /\ named[i] \in Entries
    BY <1>2, <2>2, IndexIsThere
  <2>4. named' = [named EXCEPT ![i].snapshot = layout] /\ source' = named[i].id
    BY <1>6, <2>2, <2>3 DEF Named!AgreeOverwrite
  <2>5. /\ named' = [named EXCEPT ![i].name = named[i].name, ![i].snapshot = layout]
        /\ named[i].name \in Names
    <3>1. [named[i] EXCEPT !.snapshot = layout]
            = [[named[i] EXCEPT !.name = named[i].name] EXCEPT !.snapshot = layout]
      BY <2>3 DEF Entries
    <3>. QED
      BY <1>2, <2>3, <2>4, <3>1 DEF Entries
  <2>6. /\ AsciiFolded[named[i].name] \notin Reserved
        /\ \A j \in 1..Len(named) : j # i => Folded(named[j]) # AsciiFolded[named[i].name]
    BY <1>2 DEF WellNamed, Folded
  <2>. QED
    BY <1>1, <1>2, <1>3, <2>1, <2>2, <2>4, <2>5, <2>6, EditKeeps
<1>7. CASE Named!AgreeDelete
  <2>1. dialog.asks = "delete" /\ active' = active /\ layout' = layout
    BY <1>7 DEF Named!AgreeDelete
  <2>2. PICK i \in 1..Len(named) : dialog.about = named[i].id
    BY <1>3, <2>1 DEF AsksAboutActive
  <2>3. Named!IndexOfId(dialog.about) = i
    BY <1>2, <2>2, IndexIsThere
  <2>4. /\ named' = Named!RemoveAt(named, i)
        /\ source' = IF source = named[i].id THEN NoId ELSE source
    BY <1>7, <2>2, <2>3 DEF Named!AgreeDelete
  <2>5. /\ \A k, l \in 1..Len(named) : Folded(named[k]) = Folded(named[l]) => k = l
        /\ \A k \in 1..Len(named) : Folded(named[k]) \notin Reserved
        /\ Alike(named, named)
    BY <1>2 DEF WellNamed, Alike
  <2>. QED
    BY <1>1, <1>2, <1>3, <2>1, <2>2, <2>4, <2>5, RemovalKeeps
<1>8. CASE Named!AgreeReset
  <2>1. /\ named' = named /\ layout' \in Layouts /\ active' \in Layouts
        /\ source' \in BuiltInIds
    BY <1>8, ApplicationAssumption DEF Named!AgreeReset, Named!CatalogAssumption
  <2>. QED
    BY <1>1, <2>1, EntriesKept
<1>. QED
  BY <1>4, <1>5, <1>6, <1>7, <1>8 DEF Named!Agree

LEMMA NamedStepKeeps ==
  ASSUME CatalogInv, QuestionInv, Named!Next
  PROVE  CatalogInv' /\ QuestionInv' /\ Touched
<1>0. source \in BuiltInIds \cup IdsOf(named) \cup {NoId} /\ layout \in Layouts /\ active \in Layouts
  BY DEF CatalogInv
<1>1. CASE Named!ChangeLayout
  <2>1. layout' \in Layouts /\ UNCHANGED <<active, source, named, dialog>>
    BY <1>1 DEF Named!ChangeLayout
  <2>2. QuestionInv'
    BY <2>1 DEF QuestionInv, AsksToSave, AsksToRename, AsksAboutActive
  <2>. QED
    BY <1>0, <2>1, <2>2, EntriesKept
<1>2. ASSUME NEW id \in BuiltInIds, Named!Apply(id, BuiltInLayout[id])
      PROVE  CatalogInv' /\ QuestionInv' /\ Touched
  <2>1. /\ layout' \in Layouts /\ active' \in Layouts /\ source' \in BuiltInIds
        /\ named' = named /\ dialog' = Named!NoDialog
    BY <1>2, ApplicationAssumption DEF Named!Apply, Named!CatalogAssumption
  <2>. QED
    BY <2>1, EntriesKept DEF QuestionInv
<1>3. ASSUME NEW i \in DOMAIN named, Named!Apply(named[i].id, named[i].snapshot)
      PROVE  CatalogInv' /\ QuestionInv' /\ Touched
  <2>1. i \in 1..Len(named) /\ named[i] \in Entries
    BY DEF CatalogInv, WellNamed
  <2>2. /\ layout' \in Layouts /\ active' \in Layouts /\ source' \in IdsOf(named)
        /\ named' = named /\ dialog' = Named!NoDialog
    BY <1>3, <2>1 DEF Named!Apply, IdsOf, Entries
  <2>. QED
    BY <2>2, EntriesKept DEF QuestionInv
<1>4. ASSUME NEW name \in Names, Named!SaveNamedWorkspace(name) \/ Named!RenameNamedWorkspace(name)
      PROVE  CatalogInv' /\ QuestionInv' /\ Touched
  <2>1. dialog = Named!NoDialog
    BY <1>4 DEF Named!SaveNamedWorkspace, Named!RenameNamedWorkspace
  <2>. QED
    BY <1>4, <2>1, AskingKeeps
<1>5. ASSUME NEW asks \in {"overwrite", "delete", "reset"}, Named!Confirmation(asks)
      PROVE  CatalogInv' /\ QuestionInv' /\ Touched
  <2>1. dialog = Named!NoDialog
    BY <1>5 DEF Named!Confirmation
  <2>. QED
    BY <1>5, <2>1, AskingKeeps
<1>6. CASE Named!Cancel
  <2>1. dialog' = Named!NoDialog /\ UNCHANGED <<layout, active, source, named>>
    BY <1>6 DEF Named!Cancel, Named!Ask, Named!catalog
  <2>. QED
    BY <1>0, <2>1, EntriesKept DEF QuestionInv
<1>7. CASE Named!Agree
  BY <1>7, AgreeingKeeps
<1>8. CASE Named!Restart
  <2>1. dialog' = Named!NoDialog
    BY <1>8 DEF Named!Restart
  <2>. QED
    BY <1>8, <2>1, RestartKeeps DEF QuestionInv
<1>. QED
  BY <1>1, <1>2, <1>3, <1>4, <1>5, <1>6, <1>7, <1>8 DEF Named!Next

LEMMA CatalogAlways == ApplicationSpec => [](CatalogInv /\ QuestionInv)
<1>1. ApplicationInit => CatalogInv /\ QuestionInv
  <2>. SUFFICES ASSUME ApplicationInit PROVE CatalogInv /\ QuestionInv
    OBVIOUS
  <2>1. /\ layout = StartLayout /\ active = StartLayout /\ source = StartId
        /\ named = <<>> /\ dialog = Named!NoDialog
    BY DEF ApplicationInit, Named!Init
  <2>. QED
    BY <2>1, ApplicationAssumption
    DEF Named!CatalogAssumption, CatalogInv, QuestionInv, WellNamed
<1>2. /\ CatalogInv /\ QuestionInv
      /\ [ApplicationNext]_<<exercised, vars, workspaces, session, import>>
      => (CatalogInv /\ QuestionInv)'
  <2>1. ASSUME CatalogInv, QuestionInv, UNCHANGED workspaces PROVE CatalogInv' /\ QuestionInv'
    BY <2>1
    DEF CatalogInv, QuestionInv, AsksToSave, AsksToRename, AsksAboutActive, workspaces
  <2>. QED
    BY <2>1, NamedStepKeeps DEF ApplicationNext
<1>. QED
  BY <1>1, <1>2, PTL DEF ApplicationSpec

\* Names and ids of the named workspaces stay apart, from each other and from the
\* built-in ones, and the active source names an entry that is there, through every
\* save, rename over another entry, deletion and restart (NamedWorkspaceService,
\* WorkspaceCatalogCodec decode).
THEOREM CatalogStaysWellFormed == ApplicationSpec => []CatalogWellFormed
<1>1. CatalogInv => CatalogWellFormed
  <2>. SUFFICES ASSUME CatalogInv PROVE CatalogWellFormed
    OBVIOUS
  <2>1. DOMAIN named = 1..Len(named) /\ \A i \in 1..Len(named) : named[i].id \in Ids
    <3>1. named \in Seq(Entries)
      BY DEF CatalogInv, WellNamed
    <3>2. \A i \in 1..Len(named) : named[i] \in Entries
      BY <3>1
    <3>. QED
      BY <3>1, <3>2 DEF Entries
  <2>2. /\ Named!IsInjective([i \in DOMAIN named |-> named[i].id])
        /\ Named!IsInjective([i \in DOMAIN named |-> AsciiFolded[named[i].name]])
    BY <2>1 DEF CatalogInv, WellNamed, Folded, Named!IsInjective
  <2>3. \A i \in DOMAIN named :
          AsciiFolded[named[i].name] \notin Reserved /\ named[i].id \notin BuiltInIds
    BY <2>1, ApplicationAssumption DEF CatalogInv, WellNamed, Folded, Named!CatalogAssumption
  <2>4. source \in BuiltInIds \cup Named!NamedIds \cup {NoId} /\ Len(named) <= MaximumNamed
    BY <2>1 DEF CatalogInv, WellNamed, Named!NamedIds, IdsOf
  <2>. QED
    BY <2>2, <2>3, <2>4 DEF CatalogInv, CatalogWellFormed, Named!CatalogWellFormed
<1>. QED
  BY <1>1, CatalogAlways, PTL

\* A saved layout changes or goes only when the user agreed to a question about that
\* very entry, asked when it was what the answer finds, or without tools at a restart;
\* and a confirmed save stores the layout on screen (MainComponentWorkspaceManagement).
THEOREM ConfirmedOnlyIsTouched == ApplicationSpec => OnlyTheConfirmedIsTouched
<1>1. ASSUME CatalogInv, QuestionInv, Named!Next
      PROVE  \A i \in DOMAIN named : Named!LeftOrConfirmed(named[i])
  <2>1. CatalogInv' /\ Touched
    BY <1>1, NamedStepKeeps
  <2>2. DOMAIN named = 1..Len(named) /\ DOMAIN named' = 1..Len(named')
    BY <1>1, <2>1 DEF CatalogInv, WellNamed
  <2>. QED
    BY <2>1, <2>2 DEF Touched, Stays, AgreedTo, Named!LeftOrConfirmed
<1>2. /\ CatalogInv /\ QuestionInv
      /\ [ApplicationNext]_<<exercised, vars, workspaces, session, import>>
      => [\A i \in DOMAIN named : Named!LeftOrConfirmed(named[i])]_(Named!workspaces)
  BY <1>1 DEF ApplicationNext, Named!workspaces, workspaces
<1>. QED
  BY <1>2, CatalogAlways, PTL
  DEF ApplicationSpec, OnlyTheConfirmedIsTouched, Named!OnlyTheConfirmedIsTouched
==============================================================================
