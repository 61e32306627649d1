---------------------------- MODULE MCInputPath ----------------------------
(***************************************************************************)
(* The parts of the input path for TLC: the sample FIFO of one analysis    *)
(* tool, the audio input service around such FIFOs, the MIDI event queue,  *)
(* the service that keeps the chosen keyboard open, the page that follows  *)
(* its notes, and the tuner's reading of the shared pitch analysis.  They  *)
(* share no state here, so a behaviour exercises one of them and the state *)
(* space is their union, not their product.                                *)
(***************************************************************************)
EXTENDS AudioSampleFifo

CONSTANTS
  QueueCapacity, MaxPop, MaxEvents, Listeners, MaxConsumers,
  Identifiers, DeviceNames, NoDevice, NoName, SettleTicks, OpenScanTicks, ClosedScanTicks,
  MaxPlugs,
  Positions, Thresholds, FifoCapacity, BatchSize, MaxMessages, MaxConnections,
  Pitches, Semitone, AverageWindow, Presets, MaxHistory, Settling

VARIABLES
  part,
  events, head, tail, lostEventCount, pushStep, pushRead, popStep, popRead, popCount,
  drained, received, skipped,
  deviceRunning, toneSourceRunning, filling, formatPending, toneOn, timerOn, callingBack,
  listener, active, at, slot, task, ticking, wanted, subject, told, work, lossUncounted,
  present, port, notified, chosen, openInput, changePending, ticks, listMoved, listed, awaited,
  devices, box,
  connection, connections, page, handler, lastOpen, lastLost, threshold, fifo, lost, keyState,
  pedal, ended, messages, droppedAt,
  muted, late, window, latest, settings, recent, smoothed, pending, silentFrames, locked, graph, same

Queue == INSTANCE MidiEventFifo WITH
           Capacity <- QueueCapacity, writePosition <- head, readPosition <- tail,
           destination <- drained, delivered <- received

Input == INSTANCE AudioInputService

Keyboard == INSTANCE MidiInputService

Notes == INSTANCE NoteSounding WITH at <- handler, slot <- keyState

SomePresets ==
  {[easing |-> 50, averaging |-> 3, noteSwitch |-> 1, dropout |-> 2],
   [easing |-> 100, averaging |-> 2, noteSwitch |-> 1, dropout |-> 1]}

Tuner == INSTANCE TunerReading

ASSUME InputPathAssumption ==
  /\ Input!InputAssumption /\ Keyboard!KeyboardAssumption /\ Queue!QueueAssumption
  /\ Notes!NotesAssumption /\ Tuner!TunerAssumption

queue == <<events, head, tail, lostEventCount, pushStep, pushRead, popStep, popRead, popCount,
           drained, received, skipped>>

input == <<deviceRunning, toneSourceRunning, filling, formatPending, toneOn, timerOn,
           callingBack, listener, active, at, slot, task, ticking, wanted, subject, told, work,
           lossUncounted>>

keyboard == <<present, port, notified, chosen, openInput, changePending, ticks, listMoved,
              listed, awaited, devices, box>>

notes == <<connection, connections, page, handler, lastOpen, lastLost, threshold, fifo, lost,
           keyState, pedal, ended, messages, droppedAt>>

tuner == <<muted, late, window, latest, settings, recent, smoothed, pending, silentFrames, locked,
           graph, same>>

\* A part that is not exercised starts in one state.
MCInit ==
  /\ part \in {"samples", "events", "input", "keyboard", "notes", "tuner"}
  /\ Init /\ Queue!Init /\ Input!Init /\ Keyboard!Init /\ Notes!Init /\ Tuner!Init
  /\ part # "keyboard" =>
       chosen = Keyboard!Nobody /\ present = [i \in Identifiers |-> NoDevice]
  /\ part # "notes" => threshold = CHOOSE value \in Thresholds : TRUE
  /\ part # "tuner" => settings = CHOOSE preset \in Presets : TRUE

MCNext ==
  /\ UNCHANGED part
  /\ \/ part = "samples" /\ Next /\ UNCHANGED <<queue, input, keyboard, notes, tuner>>
     \/ part = "events" /\ Queue!Next /\ UNCHANGED <<vars, input, keyboard, notes, tuner>>
     \/ part = "input" /\ Input!Next /\ UNCHANGED <<vars, queue, keyboard, notes, tuner>>
     \/ part = "keyboard" /\ Keyboard!Next /\ UNCHANGED <<vars, queue, input, notes, tuner>>
     \/ part = "notes" /\ Notes!Next /\ UNCHANGED <<vars, queue, input, keyboard, tuner>>
     \/ part = "tuner" /\ Tuner!Next /\ UNCHANGED <<vars, queue, input, keyboard, notes>>

MCSpec == MCInit /\ [][MCNext]_<<part, vars, queue, input, keyboard, notes, tuner>>

InputTypeOK == Input!TypeOK
OneProducerFills == Input!OneProducerFills
NoResetUnderDevice == Input!NoResetUnderDevice
FormatSettled == Input!FormatSettled
EveryLossCounted == Queue!EveryLossCounted
InOrderWhileNothingLost == Queue!InOrderWhileNothingLost
SettledInputIsTheChosenKeyboard ==
  part = "keyboard" => Keyboard!SettledInputIsTheChosenKeyboard
NoLossInsideAMeasurement == Notes!NoLossInsideAMeasurement
SustainedPitchIsShown == Tuner!SustainedPitchIsShown
=============================================================================
