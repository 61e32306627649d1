------------------------- MODULE AudioInputService -------------------------
(***************************************************************************)
(* platform/audio/AudioInputService.cpp: who fills the analysis FIFOs, who *)
(* is told what, and when a FIFO may be given to somebody else.  Four      *)
(* threads: the message thread, the device's audio thread, the tone        *)
(* source's timer thread, and the detached thread of one piece of device   *)
(* work.  Atomic accesses another thread can come between are steps of     *)
(* their own; what happens inside one FIFO is AudioSampleFifo's.           *)
(*                                                                         *)
(* Gain, levels, clipping, the scan countdown and the names of devices are *)
(* left out: no guard of what follows reads them.  Muting, an empty block  *)
(* and a device without input channels all end a callback early.           *)
(***************************************************************************)
EXTENDS Integers, FiniteSets

CONSTANTS
  Listeners,      (* the analysis tools           *)
  MaxConsumers    (* maximumConsumers             *)

VARIABLES
  deviceRunning, toneSourceRunning, filling,   (* the atomics of that name      *)
  formatPending,   (* formatVersion # deliveredFormatVersion                    *)
  toneOn,          (* toneFrequency > 0                                         *)
  timerOn,         (* the tone source's timer is running                        *)
  callingBack,     (* the backend has registered the audio callback             *)
  listener,        (* per consumer slot                                         *)
  active,          (* the slots whose active flag is set                        *)
  at,              (* per producer: where its callback is                       *)
  slot,            (* per producer: the consumer it is filling                  *)
  task,            (* the message thread's next step                            *)
  ticking,         (* that step belongs to timerCallback                        *)
  wanted,          (* the local of updateToneSource; setSyntheticTone's request *)
  subject,         (* the listener being added, the slot being removed          *)
  told,            (* per listener: what it last heard about the input          *)
  work,            (* the device thread's next step, "none" without a flight    *)
  lossUncounted    (* a lost device has not bumped formatVersion yet            *)

flags   == <<deviceRunning, toneSourceRunning, formatPending, toneOn, timerOn, callingBack>>
slots   == <<listener, active>>
fill    == <<filling, at, slot>>
message == <<task, ticking, wanted, subject>>
vars    == <<flags, slots, fill, message, told, work, lossUncounted>>

None      == 0
Slots     == 1..MaxConsumers
Producers == {"device", "tone"}

CallbackIdle(p) == at[p] = "out"

FreeSlots == {s \in Slots : listener[s] = None}

Registered(l) == \E s \in Slots : listener[s] = l

\* A slot holds a listener or nobody.
InputAssumption == MaxConsumers \in Nat /\ None \notin Listeners

DeviceWorkInFlight == work # "none"

HasUsableInput == toneSourceRunning \/ (callingBack /\ deviceRunning)

-----------------------------------------------------------------------------
(* The two producers: audioDeviceIOCallbackWithContext and renderToneBlock. *)

Enter(p) ==
  /\ CallbackIdle(p)
  /\ IF p = "device" THEN callingBack ELSE timerOn
  /\ at' = [at EXCEPT ![p] = "entered"]
  /\ UNCHANGED <<flags, slots, filling, slot, message, told, work, lossUncounted>>

\* Muted, or nothing to deliver.
ReturnEarly(p) ==
  /\ at[p] = "entered"
  /\ at' = [at EXCEPT ![p] = "out"]
  /\ UNCHANGED <<flags, slots, filling, slot, message, told, work, lossUncounted>>

\* A requested tone replaces the device's samples.
Render(p) ==
  /\ \/ at[p] = "entered" /\ toneOn /\ at' = [at EXCEPT ![p] = "rendering"]
     \/ at[p] = "entered" /\ ~toneOn /\ p = "device" /\ at' = [at EXCEPT ![p] = "ready"]
     \/ at[p] = "rendering" /\ at' = [at EXCEPT ![p] = "ready"]
  /\ UNCHANGED <<flags, slots, filling, slot, message, told, work, lossUncounted>>

\* Mutation: the token is set but not tested.
TokenIgnored == FALSE

TokenTaken == filling

\* filling.exchange(true): the loser drops its block.
TakeToken(p) ==
  /\ at[p] = "ready"
  /\ filling' = TRUE
  /\ at' = [at EXCEPT ![p] = IF TokenTaken THEN "out" ELSE "filling"]
  /\ slot' = [slot EXCEPT ![p] = 1]
  /\ UNCHANGED <<flags, slots, message, told, work, lossUncounted>>

\* Mutation: the loop has no end of the array.
FillOn(p) ==
  /\ \/ /\ at[p] = "filling" /\ slot[p] \in active
        /\ at' = [at EXCEPT ![p] = "pushing"]
        /\ UNCHANGED slot
     \/ /\ \/ at[p] = "filling" /\ slot[p] \notin active
           \/ at[p] = "pushing"
        /\ at' = [at EXCEPT ![p] = "filling"]
        /\ slot' = [slot EXCEPT ![p] = @ + 1]
  /\ UNCHANGED <<flags, slots, filling, message, told, work, lossUncounted>>

\* deliverSamples: every active consumer in turn, its whole block at once.
Fill(p) ==
  /\ \/ /\ at[p] = "filling" /\ slot[p] \in active
        /\ at' = [at EXCEPT ![p] = "pushing"]
        /\ UNCHANGED slot
     \/ /\ \/ at[p] = "filling" /\ slot[p] \in Slots \ active
           \/ at[p] = "pushing"
        /\ at' = [at EXCEPT ![p] = "filling"]
        /\ slot' = [slot EXCEPT ![p] = @ + 1]
  /\ UNCHANGED <<flags, slots, filling, message, told, work, lossUncounted>>

ReleaseToken(p) ==
  /\ at[p] = "filling" /\ slot[p] \notin Slots
  /\ filling' = FALSE
  /\ at' = [at EXCEPT ![p] = "out"]
  /\ UNCHANGED <<flags, slots, slot, message, told, work, lossUncounted>>

Produce(p) ==
  Enter(p) \/ ReturnEarly(p) \/ Render(p) \/ TakeToken(p) \/ Fill(p) \/ ReleaseToken(p)

-----------------------------------------------------------------------------
(* Listeners, on the message thread. *)

\* The part of addListener under the lock: take the first free slot.
AddListener(l) ==
  /\ task = "idle" /\ ~Registered(l) /\ FreeSlots # {}
  /\ LET s == CHOOSE free \in FreeSlots : \A other \in FreeSlots : free <= other IN
       listener' = [listener EXCEPT ![s] = l] /\ active' = active \cup {s}
  /\ task' = "greet" /\ subject' = l
  /\ UNCHANGED <<flags, fill, ticking, wanted, told, work, lossUncounted>>

\* What the new listener is told.
Greet ==
  /\ task = "greet"
  /\ told' = [told EXCEPT ![subject] = IF deviceRunning THEN "running" ELSE @]
  /\ task' = "idle" /\ subject' = None
  /\ UNCHANGED <<flags, slots, fill, ticking, wanted, work, lossUncounted>>

RemoveListener(l) ==
  /\ task = "idle"
  /\ \E s \in Slots :
       /\ listener[s] = l
       /\ active' = active \ {s}
       /\ subject' = s
  /\ task' = "await"
  /\ told' = [told EXCEPT ![l] = "nothing"]
  /\ UNCHANGED <<flags, listener, fill, ticking, wanted, work, lossUncounted>>

\* Mutation: removal does not wait.
NobodyWaitedFor == TRUE

\* Only audioDeviceIOCallbackWithContext takes an AudioCallbackScope.
NoCallbackInProgress == CallbackIdle("device")

AwaitCallbacks ==
  /\ task = "await" /\ NoCallbackInProgress
  /\ task' = "reset"
  /\ UNCHANGED <<flags, slots, fill, ticking, wanted, subject, told, work, lossUncounted>>

\* fifo.reset() and the slot is free: it ends here and began with the step before.
Recycle ==
  /\ task = "reset"
  /\ listener' = [listener EXCEPT ![subject] = None]
  /\ task' = "idle" /\ subject' = None
  /\ UNCHANGED <<flags, active, fill, ticking, wanted, told, work, lossUncounted>>

-----------------------------------------------------------------------------
(* The tone: setSyntheticTone and updateToneSource, on the message thread. *)

\* toneSource.stopTimer() returns once no timer callback is in progress.
StopTimer == CallbackIdle("tone") /\ timerOn' = FALSE

SetSyntheticTone(on) ==
  /\ task = "idle"
  /\ StopTimer
  /\ wanted' = on
  /\ task' = "silence"
  /\ UNCHANGED <<deviceRunning, toneSourceRunning, formatPending, toneOn, callingBack, slots,
                 fill, ticking, subject, told, work, lossUncounted>>

Silence ==
  /\ task = "silence"
  /\ toneSourceRunning' = FALSE
  /\ task' = "retune"
  /\ UNCHANGED <<deviceRunning, formatPending, toneOn, timerOn, callingBack, slots, fill,
                 ticking, wanted, subject, told, work, lossUncounted>>

Retune ==
  /\ task = "retune"
  /\ toneOn' = wanted
  /\ task' = "update"
  /\ UNCHANGED <<deviceRunning, toneSourceRunning, formatPending, timerOn, callingBack, slots,
                 fill, ticking, wanted, subject, told, work, lossUncounted>>

Updated == task' = (IF ticking THEN "scan" ELSE "idle")

UpdateToneSource ==
  /\ task = "update"
  /\ wanted' = (toneOn /\ ~deviceRunning)
  /\ task' = "compare"
  /\ UNCHANGED <<flags, slots, fill, ticking, subject, told, work, lossUncounted>>

Compare ==
  /\ task = "compare"
  /\ \/ wanted = toneSourceRunning /\ Updated
     \/ wanted /\ ~toneSourceRunning /\ task' = "raise"
     \/ ~wanted /\ toneSourceRunning /\ task' = "halt"
  /\ UNCHANGED <<flags, slots, fill, ticking, wanted, subject, told, work, lossUncounted>>

\* The flag and the format version, then the timer.
Raise ==
  /\ task = "raise"
  /\ toneSourceRunning' = TRUE /\ formatPending' = TRUE
  /\ task' = "start"
  /\ UNCHANGED <<deviceRunning, toneOn, timerOn, callingBack, slots, fill, ticking, wanted,
                 subject, told, work, lossUncounted>>

StartTimer ==
  /\ task = "start"
  /\ timerOn' = TRUE
  /\ Updated
  /\ UNCHANGED <<deviceRunning, toneSourceRunning, formatPending, toneOn, callingBack, slots,
                 fill, ticking, wanted, subject, told, work, lossUncounted>>

Halt ==
  /\ task = "halt"
  /\ StopTimer
  /\ task' = "lower"
  /\ UNCHANGED <<deviceRunning, toneSourceRunning, formatPending, toneOn, callingBack, slots,
                 fill, ticking, wanted, subject, told, work, lossUncounted>>

Lower ==
  /\ task = "lower"
  /\ toneSourceRunning' = FALSE /\ formatPending' = TRUE
  /\ Updated
  /\ UNCHANGED <<deviceRunning, toneOn, timerOn, callingBack, slots, fill, ticking, wanted,
                 subject, told, work, lossUncounted>>

-----------------------------------------------------------------------------
(* timerCallback, twenty times a second on the message thread. *)

Tick ==
  /\ task = "idle"
  /\ ticking' = TRUE
  /\ task' = IF formatPending THEN "deliver" ELSE "update"
  /\ UNCHANGED <<flags, slots, fill, wanted, subject, told, work, lossUncounted>>

\* deliverFormatChange takes the version first and reads the device afterwards.
Deliver ==
  /\ task = "deliver"
  /\ formatPending' = FALSE
  /\ task' = "tell"
  /\ UNCHANGED <<deviceRunning, toneSourceRunning, toneOn, timerOn, callingBack, slots, fill,
                 ticking, wanted, subject, told, work, lossUncounted>>

Tell ==
  /\ task = "tell"
  /\ told' = [l \in Listeners |-> IF ~Registered(l) THEN told[l]
                                  ELSE IF deviceRunning THEN "running" ELSE "stopped"]
  /\ task' = "update"
  /\ UNCHANGED <<flags, slots, fill, ticking, wanted, subject, work, lossUncounted>>

\* The end of the tick.  scanForDeviceChanges runs on some ticks only and finds an
\* input to open on some scans only.
Scan ==
  /\ task = "scan"
  /\ task' = "idle" /\ ticking' = FALSE
  /\ \/ UNCHANGED work
     \/ ~HasUsableInput /\ ~callingBack /\ ~DeviceWorkInFlight /\ work' = "close"
  /\ UNCHANGED <<flags, slots, fill, wanted, subject, told, lossUncounted>>

\* initialiseInput: at startup, or when settings are imported or reset.
InitialiseInput ==
  /\ task = "idle"
  /\ ~DeviceWorkInFlight /\ work' = "close"
  /\ UNCHANGED <<flags, slots, fill, message, told, lossUncounted>>

-----------------------------------------------------------------------------
(* Device work, on its own thread: close, open, and what JUCE calls meanwhile. *)

\* Closing waits for the audio callback, then calls audioDeviceStopped.
CloseDevice ==
  /\ work = "close" /\ CallbackIdle("device")
  /\ work' = IF callingBack THEN "stopped" ELSE "open"
  /\ callingBack' = FALSE
  /\ deviceRunning' = (deviceRunning /\ ~callingBack)
  /\ UNCHANGED <<toneSourceRunning, formatPending, toneOn, timerOn, slots, fill, message, told,
                 lossUncounted>>

CountStopped ==
  /\ work = "stopped"
  /\ formatPending' = TRUE
  /\ work' = "open"
  /\ UNCHANGED <<deviceRunning, toneSourceRunning, toneOn, timerOn, callingBack, slots, fill,
                 message, told, lossUncounted>>

OpenFails ==
  /\ work = "open"
  /\ work' = "none"
  /\ UNCHANGED <<flags, slots, fill, message, told, lossUncounted>>

\* audioDeviceAboutToStart: the tone source stands down first.
AboutToStart ==
  /\ work = "open"
  /\ toneSourceRunning' = FALSE
  /\ work' = IF toneSourceRunning THEN "standDown" ELSE "run"
  /\ UNCHANGED <<deviceRunning, formatPending, toneOn, timerOn, callingBack, slots, fill,
                 message, told, lossUncounted>>

StandDown ==
  /\ work = "standDown"
  /\ StopTimer
  /\ formatPending' = TRUE
  /\ work' = "run"
  /\ UNCHANGED <<deviceRunning, toneSourceRunning, toneOn, callingBack, slots, fill, message,
                 told, lossUncounted>>

Run ==
  /\ work = "run"
  /\ deviceRunning' = TRUE
  /\ work' = "running"
  /\ UNCHANGED <<toneSourceRunning, formatPending, toneOn, timerOn, callingBack, slots, fill,
                 message, told, lossUncounted>>

\* Mutation: the start of a device is not a format change.
Unannounced == formatPending

Announced == TRUE

\* The version is bumped, then the backend registers the callback.
CountRunning ==
  /\ work = "running"
  /\ formatPending' = Announced
  /\ callingBack' = TRUE
  /\ work' = "none"
  /\ UNCHANGED <<deviceRunning, toneSourceRunning, toneOn, timerOn, slots, fill, message, told,
                 lossUncounted>>

DeviceWork ==
  \/ CloseDevice \/ CountStopped \/ OpenFails \/ AboutToStart \/ StandDown \/ Run \/ CountRunning

\* The device goes away and its backend calls audioDeviceStopped.
DeviceLost ==
  /\ callingBack /\ CallbackIdle("device") /\ ~DeviceWorkInFlight
  /\ callingBack' = FALSE /\ deviceRunning' = FALSE
  /\ lossUncounted' = TRUE
  /\ UNCHANGED <<toneSourceRunning, formatPending, toneOn, timerOn, slots, fill, message, told,
                 work>>

CountLost ==
  /\ lossUncounted
  /\ formatPending' = TRUE
  /\ lossUncounted' = FALSE
  /\ UNCHANGED <<deviceRunning, toneSourceRunning, toneOn, timerOn, callingBack, slots, fill,
                 message, told, work>>

-----------------------------------------------------------------------------
Init ==
  /\ deviceRunning = FALSE /\ toneSourceRunning = FALSE /\ filling = FALSE
  /\ formatPending = FALSE /\ toneOn = FALSE /\ timerOn = FALSE /\ callingBack = FALSE
  /\ listener = [s \in Slots |-> None] /\ active = {}
  /\ at = [p \in Producers |-> "out"] /\ slot = [p \in Producers |-> 1]
  /\ task = "idle" /\ ticking = FALSE /\ wanted = FALSE /\ subject = None
  /\ told = [l \in Listeners |-> "nothing"]
  /\ work = "none" /\ lossUncounted = FALSE

MessageThread ==
  \/ \E l \in Listeners : AddListener(l) \/ RemoveListener(l)
  \/ Greet \/ AwaitCallbacks \/ Recycle
  \/ \E on \in BOOLEAN : SetSyntheticTone(on)
  \/ Silence \/ Retune \/ UpdateToneSource \/ Compare \/ Raise \/ StartTimer \/ Halt \/ Lower
  \/ Tick \/ Deliver \/ Tell \/ Scan \/ InitialiseInput

Next ==
  \/ MessageThread \/ DeviceWork \/ DeviceLost \/ CountLost
  \/ \E p \in Producers : Produce(p)

Spec == Init /\ [][Next]_vars

-----------------------------------------------------------------------------
TypeOK ==
  /\ {deviceRunning, toneSourceRunning, filling, formatPending, toneOn, timerOn, callingBack,
      ticking, wanted, lossUncounted} \subseteq BOOLEAN
  /\ listener \in [Slots -> Listeners \cup {None}] /\ active \subseteq Slots
  /\ at \in [Producers -> {"out", "entered", "rendering", "ready", "filling", "pushing"}]
  /\ slot \in [Producers -> 1..(MaxConsumers + 1)]
  /\ task \in {"idle", "greet", "await", "reset", "silence", "retune", "update", "compare",
               "raise", "start", "halt", "lower", "deliver", "tell", "scan"}
  /\ subject \in Listeners \cup Slots \cup {None}
  /\ told \in [Listeners -> {"nothing", "running", "stopped"}]
  /\ work \in {"none", "close", "stopped", "open", "standDown", "run", "running"}

Filling(p) == at[p] \in {"filling", "pushing"}

\* "The token is what keeps the FIFOs single-producer": the device and the generator
\* overlap while one takes over from the other, and never fill the FIFOs together.
OneProducerFills == ~(Filling("device") /\ Filling("tone"))

PushesInto(p, s) == at[p] = "pushing" /\ slot[p] = s

\* The device callback is never still copying a block into a FIFO that is being reset
\* for the next listener.
NoResetUnderDevice == task = "reset" => ~PushesInto("device", subject)

\* Reset is "only valid while the producer is inactive" (AudioSampleFifo.h); removal
\* waits for "the current bounded callback to finish before recycling this slot".  The
\* tone source is a producer too, and takes no AudioCallbackScope.
ResetOnlyWhenQuiet == task = "reset" => \A p \in Producers : ~PushesInto(p, subject)

\* Between ticks, with no format change left to deliver and no generator running, every
\* tool was last told what the device is doing, whatever was added, started or lost
\* meanwhile.  While the generator runs a tool has been told "stopped", which is not
\* what it should be told: see ToneToolsToldRunning.
FormatSettled ==
  task = "idle" /\ ~formatPending /\ ~lossUncounted /\ work \notin {"stopped", "running"}
  /\ ~toneSourceRunning =>
    \A l \in Listeners : Registered(l) => (told[l] = "running" <=> deviceRunning)

\* A tick that wants the generator stopped leaves it stopped: "Until the next tick
\* both could be delivering".
ToneStandsDown == task = "scan" /\ ~wanted => ~timerOn

\* A tool fed by the generator "SHALL be told the same things a tool being fed a
\* device is told: its sample rate, its channel count, and that input is running".  It
\* is not: deliverFormatChange asks for the device alone, so the format change of Raise
\* is told as "stopped", and who is added later is told nothing.
ToneToolsToldRunning ==
  task = "idle" /\ ~formatPending /\ toneSourceRunning /\ ~DeviceWorkInFlight /\ ~lossUncounted =>
    \A l \in Listeners : Registered(l) => told[l] = "running"
=============================================================================
