---------------------- MODULE AudioInputServiceProofs ----------------------
(***************************************************************************)
(* Proofs about AudioInputService, for any number of consumer slots and    *)
(* any set of analysis tools.                                              *)
(***************************************************************************)
EXTENDS AudioInputService, FiniteSetTheorems, WellFoundedInduction, TLAPS

\* Any set of naturals that is not empty has a least element: the initial segments
\* below its elements are finite, and strict inclusion of finite sets is well-founded.
LEMMA LeastExists ==
  ASSUME NEW S, S \subseteq Nat, S # {}
  PROVE  \E least \in S : \A other \in S : least <= other
<1> DEFINE UpTo(n) == 0..n
           T == {UpTo(n) : n \in S}
<1>1. T \subseteq FiniteSubsetsOf(Nat) /\ T # {}
  <2>1. \A n \in S : IsFiniteSet(UpTo(n)) /\ UpTo(n) \subseteq Nat
    BY FS_Interval
  <2>. QED
    BY <2>1 DEF FiniteSubsetsOf
<1>2. \E x \in T : \A y \in T : <<y, x>> \notin StrictSubsetOrdering(Nat)
  BY <1>1, FS_StrictSubsetOrderingWellFounded, WFMin
<1>3. PICK n \in S : \A m \in S : <<UpTo(m), UpTo(n)>> \notin StrictSubsetOrdering(Nat)
  BY <1>2
<1>4. ASSUME NEW m \in S, m < n PROVE FALSE
  <2>1. UpTo(m) \subseteq Nat /\ UpTo(n) \subseteq Nat /\ UpTo(m) \subseteq UpTo(n)
    BY <1>4
  <2>2. n \in UpTo(n) /\ n \notin UpTo(m)
    BY <1>4
  <2>. HIDE DEF UpTo
  <2>3. <<UpTo(m), UpTo(n)>> \in StrictSubsetOrdering(Nat)
    BY <2>1, <2>2 DEF StrictSubsetOrdering
  <2>. QED
    BY <2>3, <1>3
<1>. QED
  BY <1>4

\* addListener takes a slot that is free.
LEMMA AddListenerTakes ==
  ASSUME NEW l, AddListener(l)
  PROVE  \E s \in FreeSlots : /\ listener' = [listener EXCEPT ![s] = l]
                              /\ active' = active \cup {s}
<1>1. FreeSlots \subseteq Nat /\ FreeSlots # {}
  BY DEF AddListener, FreeSlots, Slots
<1>2. \E least \in FreeSlots : \A other \in FreeSlots : least <= other
  BY <1>1, LeastExists
<1>. QED
  BY <1>2 DEF AddListener

-----------------------------------------------------------------------------
(* Type correctness. *)

\* A block is copied into a slot of the array, and the slot that is being removed
\* is one, switched off before anybody waits.
SlotInv ==
  /\ \A p \in Producers : at[p] = "pushing" => slot[p] \in Slots
  /\ task \in {"await", "reset"} => subject \in Slots \ active
  /\ task = "greet" => subject \in Listeners

TypeInv == TypeOK /\ SlotInv

LEMMA Booleans ==
  ASSUME NEW a1, NEW a2, NEW a3, NEW a4, NEW a5, NEW a6, NEW a7, NEW a8, NEW a9, NEW a10
  PROVE  {a1, a2, a3, a4, a5, a6, a7, a8, a9, a10} \subseteq BOOLEAN <=>
           /\ a1 \in BOOLEAN /\ a2 \in BOOLEAN /\ a3 \in BOOLEAN /\ a4 \in BOOLEAN
           /\ a5 \in BOOLEAN /\ a6 \in BOOLEAN /\ a7 \in BOOLEAN /\ a8 \in BOOLEAN
           /\ a9 \in BOOLEAN /\ a10 \in BOOLEAN
OBVIOUS

\* One step keeps every variable in its range and the slots in use apart from the
\* slot being removed.
LEMMA TypeStep ==
  ASSUME InputAssumption, TypeInv, [Next]_vars
  PROVE  TypeInv'
<1> USE DEF InputAssumption, TypeInv, TypeOK, SlotInv, None, Slots, Producers, flags, slots, fill,
            message
<1>1. ASSUME NEW p \in Producers, Produce(p) PROVE TypeInv'
  <2>1. CASE Enter(p) \/ ReturnEarly(p) \/ Render(p)
    <3>1. \E label \in {"out", "entered", "rendering", "ready"} : at' = [at EXCEPT ![p] = label]
      BY <2>1 DEF Enter, ReturnEarly, Render
    <3>2. UNCHANGED <<flags, slots, filling, slot, message, told, work, lossUncounted>>
      BY <2>1 DEF Enter, ReturnEarly, Render
    <3>. QED
      BY <3>1, <3>2
  <2>2. CASE TakeToken(p)
    BY <2>2 DEF TakeToken, TokenTaken
  <2>3. CASE Fill(p)
    BY <2>3 DEF Fill
  <2>4. CASE ReleaseToken(p)
    BY <2>4 DEF ReleaseToken
  <2>. QED
    BY <1>1, <2>1, <2>2, <2>3, <2>4 DEF Produce
<1>2. ASSUME NEW l \in Listeners, AddListener(l) PROVE TypeInv'
  <2>1. PICK s \in FreeSlots : listener' = [listener EXCEPT ![s] = l] /\ active' = active \cup {s}
    BY <1>2, AddListenerTakes
  <2>2. s \in Slots /\ task' = "greet" /\ subject' = l
    BY <1>2 DEF AddListener, FreeSlots
  <2>3. UNCHANGED <<flags, fill, ticking, wanted, told, work, lossUncounted>>
    BY <1>2 DEF AddListener
  <2>. QED
    BY <2>1, <2>2, <2>3
<1>3. ASSUME NEW l \in Listeners, RemoveListener(l) PROVE TypeInv'
  BY <1>3 DEF RemoveListener
<1>4. CASE Greet \/ AwaitCallbacks \/ Recycle
  BY <1>4 DEF Greet, AwaitCallbacks, Recycle, NoCallbackInProgress
<1>5. ASSUME NEW on \in BOOLEAN, SetSyntheticTone(on) PROVE TypeInv'
  BY <1>5 DEF SetSyntheticTone, StopTimer
<1>6. CASE Silence \/ Retune \/ UpdateToneSource \/ Compare
  BY <1>6 DEF Silence, Retune, UpdateToneSource, Compare, Updated
<1>7. CASE Raise \/ StartTimer \/ Halt \/ Lower
  BY <1>7 DEF Raise, StartTimer, Halt, Lower, Updated, StopTimer
<1>8. CASE Tick \/ Deliver \/ Tell \/ Scan \/ InitialiseInput
  BY <1>8 DEF Tick, Deliver, Tell, Scan, InitialiseInput
<1>9. CASE DeviceWork
  BY <1>9 DEF DeviceWork, CloseDevice, CountStopped, OpenFails, AboutToStart, StandDown, StopTimer,
              Run, CountRunning, Announced
<1>10. CASE DeviceLost \/ CountLost
  BY <1>10, ZenonT(40) DEF DeviceLost, CountLost
<1>11. CASE UNCHANGED vars
  BY <1>11 DEF vars
<1>. QED
  BY <1>1, <1>2, <1>3, <1>4, <1>5, <1>6, <1>7, <1>8, <1>9, <1>10, <1>11 DEF Next, MessageThread

\* Every variable stays in its range, whatever the threads do in between.
THEOREM TypeCorrect ==
  ASSUME InputAssumption
  PROVE  Spec => []TypeInv
<1>1. Init => TypeInv
  <2> SUFFICES ASSUME Init PROVE TypeInv
    OBVIOUS
  <2>1. listener \in [Slots -> Listeners \cup {None}] /\ active \subseteq Slots
    BY DEF Init
  <2>2. slot \in [Producers -> 1..(MaxConsumers + 1)]
    BY DEF Init, InputAssumption
  <2>3. at \in [Producers -> {"out", "entered", "rendering", "ready", "filling", "pushing"}]
    BY DEF Init
  <2>4. told \in [Listeners -> {"nothing", "running", "stopped"}]
    BY DEF Init
  <2>5. subject \in Listeners \cup Slots \cup {None}
    BY DEF Init
  <2>6. SlotInv
    BY DEF Init, SlotInv
  <2>. QED
    BY <2>1, <2>2, <2>3, <2>4, <2>5, <2>6 DEF Init, TypeInv, TypeOK
<1>2. TypeInv /\ [Next]_vars => TypeInv'
  BY TypeStep
<1>. QED
  BY <1>1, <1>2, PTL DEF Spec

-----------------------------------------------------------------------------
(* The token. *)

\* Whoever fills holds the token, so that nobody else can take it.
TokenInv ==
  /\ \A p \in Producers : Filling(p) => filling
  /\ \A p, q \in Producers : Filling(p) /\ Filling(q) => p = q

\* Only the four actions of a callback touch the token.
LEMMA TokenStep ==
  ASSUME InputAssumption, TypeInv, TokenInv, [Next]_vars
  PROVE  TokenInv'
<1> USE DEF TypeInv, TypeOK, TokenInv, Filling
<1>1. ASSUME NEW p \in Producers, Produce(p) PROVE TokenInv'
  <2>1. CASE Enter(p) \/ ReturnEarly(p) \/ Render(p)
    <3>1. \E label \in {"out", "entered", "rendering", "ready"} : at' = [at EXCEPT ![p] = label]
      BY <2>1 DEF Enter, ReturnEarly, Render
    <3>2. filling' = filling
      BY <2>1 DEF Enter, ReturnEarly, Render
    <3>. QED
      BY <3>1, <3>2
  <2>2. CASE TakeToken(p)
    <3>1. filling' = TRUE /\ at' = [at EXCEPT ![p] = IF filling THEN "out" ELSE "filling"]
      BY <2>2 DEF TakeToken, TokenTaken
    <3>. QED
      BY <3>1
  <2>3. CASE Fill(p)
    <3>1. Filling(p) /\ at' \in {[at EXCEPT ![p] = "filling"], [at EXCEPT ![p] = "pushing"]}
      BY <2>3 DEF Fill
    <3>2. filling' = filling
      BY <2>3 DEF Fill
    <3>. QED
      BY <3>1, <3>2
  <2>4. CASE ReleaseToken(p)
    <3>1. Filling(p) /\ at' = [at EXCEPT ![p] = "out"]
      BY <2>4 DEF ReleaseToken
    <3>. QED
      BY <3>1
  <2>. QED
    BY <1>1, <2>1, <2>2, <2>3, <2>4 DEF Produce
<1>2. CASE UNCHANGED <<filling, at>>
  BY <1>2
<1>3. CASE MessageThread \/ DeviceWork \/ DeviceLost \/ CountLost \/ UNCHANGED vars
  BY <1>2, <1>3
     DEF MessageThread, AddListener, RemoveListener, Greet, AwaitCallbacks, Recycle,
         SetSyntheticTone, Silence, Retune, UpdateToneSource, Compare, Raise, StartTimer, Halt,
         Lower, Tick, Deliver, Tell, Scan, InitialiseInput, DeviceWork, CloseDevice, CountStopped,
         OpenFails, AboutToStart, StandDown, Run, CountRunning, DeviceLost, CountLost, vars, fill
<1>. QED
  BY <1>1, <1>3 DEF Next

\* The device and the generator overlap while one takes over from the other, and
\* never fill the FIFOs together.
THEOREM OneProducer ==
  ASSUME InputAssumption
  PROVE  Spec => []OneProducerFills
<1>1. Init => TokenInv
  BY DEF Init, TokenInv, Filling, Producers
<1>2. TypeInv /\ TokenInv /\ [Next]_vars => TokenInv'
  BY TokenStep
<1>3. TokenInv => OneProducerFills
  BY DEF TokenInv, OneProducerFills, Producers
<1>. QED
  BY <1>1, <1>2, <1>3, TypeCorrect, PTL DEF Spec

-----------------------------------------------------------------------------
(* Removing a listener. *)

\* The device cannot come back to a slot that was switched off before the wait for
\* its callback was over.
LEMMA RemovalStep ==
  ASSUME InputAssumption, TypeInv, NoResetUnderDevice, [Next]_vars
  PROVE  NoResetUnderDevice'
<1> USE DEF TypeInv, TypeOK, SlotInv, NoResetUnderDevice, PushesInto, Producers
<1>1. ASSUME NEW p \in Producers, Produce(p) PROVE NoResetUnderDevice'
  <2>1. UNCHANGED <<task, subject>>
    BY <1>1 DEF Produce, Enter, ReturnEarly, Render, TakeToken, Fill, ReleaseToken, message
  <2>2. CASE Enter(p) \/ ReturnEarly(p) \/ Render(p)
    <3>1. \E label \in {"out", "entered", "rendering", "ready"} : at' = [at EXCEPT ![p] = label]
      BY <2>2 DEF Enter, ReturnEarly, Render
    <3>2. slot' = slot
      BY <2>2 DEF Enter, ReturnEarly, Render
    <3>. QED
      BY <2>1, <3>1, <3>2
  <2>3. CASE TakeToken(p) \/ ReleaseToken(p)
    <3>1. \E label \in {"out", "filling"} : at' = [at EXCEPT ![p] = label]
      BY <2>3 DEF TakeToken, TokenTaken, ReleaseToken
    <3>2. slot' = slot \/ slot' = [slot EXCEPT ![p] = 1]
      BY <2>3 DEF TakeToken, ReleaseToken
    <3>. QED
      BY <2>1, <3>1, <3>2
  <2>4. CASE Fill(p)
    <3>1. \/ slot[p] \in active /\ at' = [at EXCEPT ![p] = "pushing"] /\ slot' = slot
          \/ at' = [at EXCEPT ![p] = "filling"] /\ slot' = [slot EXCEPT ![p] = @ + 1]
      BY <2>4 DEF Fill
    <3>. QED
      BY <2>1, <3>1
  <2>. QED
    BY <1>1, <2>2, <2>3, <2>4 DEF Produce
<1>2. CASE AwaitCallbacks
  BY <1>2 DEF AwaitCallbacks, NoCallbackInProgress, CallbackIdle, fill
<1>3. CASE UNCHANGED <<at, slot>> /\ (UNCHANGED <<task, subject>> \/ task' # "reset")
  BY <1>3
<1>4. CASE \/ Greet \/ Recycle \/ \E l \in Listeners : AddListener(l) \/ RemoveListener(l)
           \/ \E on \in BOOLEAN : SetSyntheticTone(on)
  BY <1>3, <1>4 DEF AddListener, RemoveListener, Greet, Recycle, SetSyntheticTone, fill
<1>5. CASE \/ Silence \/ Retune \/ UpdateToneSource \/ Compare \/ Raise \/ StartTimer \/ Halt
           \/ Lower \/ Tick \/ Deliver \/ Tell \/ Scan \/ InitialiseInput
  BY <1>3, <1>5
     DEF Silence, Retune, UpdateToneSource, Compare, Raise, StartTimer, Halt, Lower, Tick,
         Deliver, Tell, Scan, InitialiseInput, Updated, fill, message
<1>6. CASE DeviceWork \/ DeviceLost \/ CountLost \/ UNCHANGED vars
  BY <1>3, <1>6
     DEF DeviceWork, CloseDevice, CountStopped, OpenFails, AboutToStart, StandDown, Run,
         CountRunning, DeviceLost, CountLost, vars, fill, message
<1>. QED
  BY <1>1, <1>2, <1>4, <1>5, <1>6 DEF Next, MessageThread

\* The device callback is never still copying a block into a FIFO that is being reset
\* for the next listener.
THEOREM NoResetUnderCallback ==
  ASSUME InputAssumption
  PROVE  Spec => []NoResetUnderDevice
<1>1. Init => NoResetUnderDevice
  BY DEF Init, NoResetUnderDevice
<1>2. TypeInv /\ NoResetUnderDevice /\ [Next]_vars => NoResetUnderDevice'
  BY RemovalStep
<1>. QED
  BY <1>1, <1>2, TypeCorrect, PTL DEF Spec

-----------------------------------------------------------------------------
(* What the listeners are told. *)

\* A listener holds one slot.
OneSlotEach ==
  \A s, t \in Slots : listener[s] = listener[t] /\ listener[s] # None => s = t

\* The listener that is being added or removed.
InTransit(l) ==
  \/ task = "greet" /\ l = subject
  \/ task \in {"await", "reset"} /\ l = listener[subject]

TransitNeedsASlot == \A l \in Listeners : InTransit(l) => Registered(l)

\* Who is not registered, or not for long, has been told nothing.
SilentWithoutASlot ==
  \A l \in Listeners : ~Registered(l) \/ InTransit(l) => told[l] = "nothing"

\* A change of the device is on its way to the listeners.
ChangeOnItsWay ==
  formatPending \/ lossUncounted \/ work \in {"stopped", "running"} \/ task = "tell"

ToldTheTruth ==
  \A l \in Listeners : Registered(l) /\ ~InTransit(l) => (told[l] = "running" <=> deviceRunning)

ToldInv ==
  /\ OneSlotEach /\ TransitNeedsASlot
  /\ SilentWithoutASlot
  /\ ~ChangeOnItsWay => ToldTheTruth

\* A step that moves no listener and tells nobody anything.
LEMMA ToldQuietly ==
  ASSUME ToldInv, UNCHANGED <<told, listener>>,
         \A l \in Listeners : InTransit(l)' <=> InTransit(l),
         deviceRunning' = deviceRunning \/ ChangeOnItsWay',
         ChangeOnItsWay => ChangeOnItsWay'
  PROVE  ToldInv'
<1>1. OneSlotEach'
  BY DEF ToldInv, OneSlotEach
<1>2. \A l \in Listeners : Registered(l)' <=> Registered(l)
  BY DEF Registered
<1>3. SilentWithoutASlot'
  BY <1>2 DEF ToldInv, SilentWithoutASlot
<1>4. ~ChangeOnItsWay' => ToldTheTruth'
  BY <1>2 DEF ToldInv, ToldTheTruth
<1>5. TransitNeedsASlot'
  BY <1>2 DEF ToldInv, TransitNeedsASlot
<1>. QED
  BY <1>1, <1>3, <1>4, <1>5 DEF ToldInv

\* Whatever starts, stops or loses the device leaves a change on its way until the
\* listeners are told, and a listener comes and goes without missing one.
LEMMA ToldStep ==
  ASSUME InputAssumption, TypeInv, ToldInv, [Next]_vars
  PROVE  ToldInv'
<1> USE DEF flags, slots, fill, message
<1>1. ASSUME NEW l \in Listeners, AddListener(l) PROVE ToldInv'
  <2>1. PICK s \in FreeSlots : listener' = [listener EXCEPT ![s] = l]
    BY <1>1, AddListenerTakes
  <2>2. /\ task = "idle" /\ task' = "greet" /\ subject' = l /\ ~Registered(l)
        /\ UNCHANGED <<told, deviceRunning, formatPending, lossUncounted, work>>
    BY <1>1 DEF AddListener
  <2>3. listener \in [Slots -> Listeners \cup {None}] /\ s \in Slots /\ listener[s] = None
    BY DEF TypeInv, TypeOK, FreeSlots
  <2>4. \A other \in Listeners \ {l} : /\ Registered(other)' <=> Registered(other)
                                       /\ ~InTransit(other)' /\ ~InTransit(other)
    BY <2>1, <2>2, <2>3 DEF Registered, InTransit, InputAssumption
  <2>5. OneSlotEach'
    BY <2>1, <2>2, <2>3 DEF ToldInv, OneSlotEach, Registered
  <2>6. InTransit(l)' /\ told[l] = "nothing"
    BY <2>2 DEF InTransit, ToldInv, SilentWithoutASlot
  <2>7. SilentWithoutASlot'
    BY <2>2, <2>4, <2>6 DEF ToldInv, SilentWithoutASlot
  <2>8. ChangeOnItsWay' <=> ChangeOnItsWay
    BY <2>2 DEF ChangeOnItsWay
  <2>9. ~ChangeOnItsWay' => ToldTheTruth'
    BY <2>2, <2>4, <2>6, <2>8 DEF ToldInv, ToldTheTruth
  <2>10. TransitNeedsASlot'
    BY <2>1, <2>3, <2>4 DEF TransitNeedsASlot, Registered
  <2>. QED
    BY <2>5, <2>7, <2>9, <2>10 DEF ToldInv
<1>2. ASSUME NEW l \in Listeners, RemoveListener(l) PROVE ToldInv'
  <2>1. /\ task = "idle" /\ task' = "await" /\ subject' \in Slots /\ listener[subject'] = l
        /\ told' = [told EXCEPT ![l] = "nothing"]
        /\ UNCHANGED <<listener, deviceRunning, formatPending, lossUncounted, work>>
    BY <1>2 DEF RemoveListener
  <2>2. \A other \in Listeners : /\ Registered(other)' <=> Registered(other)
                                 /\ InTransit(other)' <=> other = l
                                 /\ ~InTransit(other)
    BY <2>1 DEF Registered, InTransit
  <2>3. told \in [Listeners -> {"nothing", "running", "stopped"}]
    BY DEF TypeInv, TypeOK
  <2>4. SilentWithoutASlot'
    BY <2>1, <2>2, <2>3 DEF ToldInv, SilentWithoutASlot
  <2>5. ChangeOnItsWay' <=> ChangeOnItsWay
    BY <2>1 DEF ChangeOnItsWay
  <2>6. ~ChangeOnItsWay' => ToldTheTruth'
    BY <2>1, <2>2, <2>3, <2>5 DEF ToldInv, ToldTheTruth
  <2>7. TransitNeedsASlot'
    BY <2>1, <2>2 DEF TransitNeedsASlot, Registered
  <2>. QED
    BY <2>1, <2>4, <2>6, <2>7 DEF ToldInv, OneSlotEach
<1>3. CASE Greet
  <2>1. /\ task = "greet" /\ task' = "idle" /\ subject \in Listeners
        /\ told' = [told EXCEPT ![subject] = IF deviceRunning THEN "running" ELSE @]
        /\ UNCHANGED <<listener, deviceRunning, formatPending, lossUncounted, work>>
    BY <1>3 DEF Greet, TypeInv, SlotInv
  <2>2. \A l \in Listeners : /\ Registered(l)' <=> Registered(l)
                             /\ ~InTransit(l)'
                             /\ InTransit(l) <=> l = subject
    BY <2>1 DEF Registered, InTransit
  <2>3. told \in [Listeners -> {"nothing", "running", "stopped"}]
    BY DEF TypeInv, TypeOK
  <2>4. told[subject] = "nothing"
    BY <2>1, <2>2 DEF ToldInv, SilentWithoutASlot
  <2>5. Registered(subject)
    BY <2>1, <2>2 DEF ToldInv, TransitNeedsASlot
  <2>6. SilentWithoutASlot'
    BY <2>1, <2>2, <2>3, <2>5 DEF ToldInv, SilentWithoutASlot
  <2>7. ChangeOnItsWay' <=> ChangeOnItsWay
    BY <2>1 DEF ChangeOnItsWay
  <2>8. ~ChangeOnItsWay' => ToldTheTruth'
    BY <2>1, <2>2, <2>3, <2>4, <2>7 DEF ToldInv, ToldTheTruth
  <2>. QED
    BY <2>1, <2>2, <2>6, <2>8 DEF ToldInv, OneSlotEach, TransitNeedsASlot
<1>4. CASE AwaitCallbacks
  <2>1. \A l \in Listeners : InTransit(l)' <=> InTransit(l)
    BY <1>4 DEF AwaitCallbacks, InTransit
  <2>. QED
    BY <1>4, <2>1, ToldQuietly DEF AwaitCallbacks, ChangeOnItsWay
<1>5. CASE Recycle
  <2>1. /\ task = "reset" /\ task' = "idle" /\ subject \in Slots
        /\ listener' = [listener EXCEPT ![subject] = None]
        /\ UNCHANGED <<told, deviceRunning, formatPending, lossUncounted, work>>
    BY <1>5 DEF Recycle, TypeInv, SlotInv
  <2>2. listener \in [Slots -> Listeners \cup {None}]
    BY DEF TypeInv, TypeOK
  <2>3. ASSUME NEW l \in Listeners
        PROVE  /\ ~InTransit(l)'
               /\ Registered(l)' <=> Registered(l) /\ ~InTransit(l)
    BY <2>1, <2>2 DEF Registered, InTransit, ToldInv, OneSlotEach, InputAssumption
  <2>4. OneSlotEach'
    BY <2>1, <2>2 DEF ToldInv, OneSlotEach
  <2>5. SilentWithoutASlot' /\ TransitNeedsASlot'
    BY <2>1, <2>3 DEF ToldInv, SilentWithoutASlot, TransitNeedsASlot
  <2>6. ~ChangeOnItsWay' => ToldTheTruth'
    BY <2>1, <2>3 DEF ToldInv, ToldTheTruth, ChangeOnItsWay
  <2>. QED
    BY <2>4, <2>5, <2>6 DEF ToldInv
<1>6. CASE Tell
  <2>1. /\ task = "tell" /\ task' = "update"
        /\ told' = [l \in Listeners |-> IF ~Registered(l) THEN told[l]
                                        ELSE IF deviceRunning THEN "running" ELSE "stopped"]
        /\ UNCHANGED <<listener, deviceRunning, subject>>
    BY <1>6 DEF Tell
  <2>2. \A l \in Listeners : /\ Registered(l)' <=> Registered(l)
                             /\ ~InTransit(l)' /\ ~InTransit(l)
    BY <2>1 DEF Registered, InTransit
  <2>3. SilentWithoutASlot' /\ TransitNeedsASlot'
    BY <2>1, <2>2 DEF ToldInv, SilentWithoutASlot, TransitNeedsASlot
  <2>4. ToldTheTruth'
    BY <2>1, <2>2 DEF ToldTheTruth
  <2>. QED
    BY <2>1, <2>3, <2>4 DEF ToldInv, OneSlotEach
<1>7. CASE \/ Silence \/ Retune \/ UpdateToneSource \/ Compare \/ Raise \/ StartTimer \/ Halt
           \/ Lower \/ Tick \/ Deliver \/ Scan \/ InitialiseInput
           \/ \E on \in BOOLEAN : SetSyntheticTone(on)
  <2>1. /\ task \notin {"greet", "await", "reset", "tell"} /\ task' \notin {"greet", "await", "reset"}
        /\ UNCHANGED <<told, listener, deviceRunning, lossUncounted>>
        /\ work' = work \/ (work = "none" /\ work' = "close")
        /\ formatPending' = formatPending \/ formatPending' = TRUE \/ task' = "tell"
    BY <1>7
       DEF Silence, Retune, UpdateToneSource, Compare, Raise, StartTimer, Halt, Lower, Tick, Deliver,
           Scan, InitialiseInput, SetSyntheticTone, Updated, DeviceWorkInFlight
  <2>2. \A l \in Listeners : InTransit(l)' <=> InTransit(l)
    BY <2>1 DEF InTransit
  <2>. QED
    BY <2>1, <2>2, ToldQuietly DEF ChangeOnItsWay
<1>8. CASE DeviceWork \/ DeviceLost \/ CountLost \/ UNCHANGED vars \/ \E p \in Producers : Produce(p)
  <2>1. UNCHANGED <<told, listener, task, subject>>
    BY <1>8
       DEF DeviceWork, CloseDevice, CountStopped, OpenFails, AboutToStart, StandDown, Run,
           CountRunning, DeviceLost, CountLost, vars, Produce, Enter, ReturnEarly, Render, TakeToken,
           Fill, ReleaseToken
  <2>2. \A l \in Listeners : InTransit(l)' <=> InTransit(l)
    BY <2>1 DEF InTransit
  <2>3. CASE DeviceLost \/ CountLost \/ UNCHANGED vars
    BY <2>1, <2>2, <2>3, ToldQuietly DEF DeviceLost, CountLost, vars, ChangeOnItsWay
  <2>4. CASE DeviceWork
    <3>1. /\ deviceRunning' = deviceRunning \/ work' \in {"stopped", "running"}
          /\ \/ formatPending' = TRUE \/ work' \in {"stopped", "running"}
             \/ formatPending' = formatPending /\ work \notin {"stopped", "running"}
          /\ lossUncounted' = lossUncounted
      BY <2>4
         DEF DeviceWork, CloseDevice, CountStopped, OpenFails, AboutToStart, StandDown, Run,
             CountRunning, Announced, TypeInv, TypeOK
    <3>. QED
      BY <2>1, <2>2, <3>1, ToldQuietly DEF ChangeOnItsWay
  <2>5. ASSUME NEW p \in Producers, Produce(p) PROVE ToldInv'
    <3>1. UNCHANGED <<flags, work, lossUncounted>>
      BY <2>5 DEF Produce, Enter, ReturnEarly, Render, TakeToken, Fill, ReleaseToken
    <3>. QED
      BY <2>1, <2>2, <3>1, ToldQuietly DEF ChangeOnItsWay
  <2>. QED
    BY <1>8, <2>3, <2>4, <2>5
<1>. QED
  BY <1>1, <1>2, <1>3, <1>4, <1>5, <1>6, <1>7, <1>8 DEF Next, MessageThread

\* Between ticks, with no format change left to deliver and no generator running, every
\* tool was last told what the device is doing, whatever was added, started or lost
\* meanwhile.
THEOREM ListenersToldTheTruth ==
  ASSUME InputAssumption
  PROVE  Spec => []FormatSettled
<1>1. Init => ToldInv
  BY DEF Init, InputAssumption, ToldInv, OneSlotEach, TransitNeedsASlot, SilentWithoutASlot,
         ToldTheTruth, Registered, InTransit, None
<1>2. TypeInv /\ ToldInv /\ [Next]_vars => ToldInv'
  BY ToldStep
<1>3. ToldInv => FormatSettled
  BY DEF ToldInv, ToldTheTruth, ChangeOnItsWay, FormatSettled, InTransit
<1>. QED
  BY <1>1, <1>2, <1>3, TypeCorrect, PTL DEF Spec
=============================================================================
