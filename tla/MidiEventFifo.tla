--------------------------- MODULE MidiEventFifo ---------------------------
(***************************************************************************)
(* platform/midi/MidiEventFifo.h: the queue between the MIDI driver thread *)
(* and the message thread, which drops the oldest event when it is full.   *)
(* Each atomic access is a step, and the assignment of an event, a plain   *)
(* struct of several words, is two: a copy taken in between is torn.       *)
(* Both threads store readPosition.                                        *)
(***************************************************************************)
EXTENDS Integers, Sequences, FiniteSets

CONSTANTS
  Capacity,   (* template parameter                    *)
  MaxPop,     (* bound: events a consumer asks for     *)
  MaxEvents   (* bound: events the driver delivers     *)

VARIABLES
  events,          (* the ring; an event is its serial number           *)
  writePosition, readPosition, lostEventCount,
  pushStep,        (* what the driver thread does next                  *)
  pushRead,        (* its local copy of readPosition                    *)
  popStep,         (* what the message thread does next                 *)
  popRead,         (* its local copy of readPosition                    *)
  popCount,        (* how many events it is copying                     *)
  destination,     (* those copied so far                               *)
  delivered,       (* history: events handed to the consumer, in order  *)
  skipped          (* history: events the consumer discarded            *)

QueueAssumption == Capacity \in Nat \ {0} /\ MaxPop \in Nat

driver   == <<pushStep, pushRead>>
drainer  == <<popStep, popRead, popCount, destination>>
history  == <<delivered, skipped>>
vars     == <<events, writePosition, readPosition, lostEventCount, driver, drainer, history>>

Torn == -1

Slot(position) == position % Capacity

Full(read) == writePosition - read >= Capacity

\* Mutation: the loss is not counted.
Uncounted(count) == count

Counted(count) == count + 1

Smaller(a, b) == IF a < b THEN a ELSE b

-----------------------------------------------------------------------------
PushLoad ==
  /\ pushStep = "load"
  /\ writePosition < MaxEvents
  /\ pushRead' = readPosition
  /\ pushStep' = IF Full(readPosition) THEN "dropOldest" ELSE "assign"
  /\ UNCHANGED <<events, writePosition, readPosition, lostEventCount, drainer, history>>

PushDropOldest ==
  /\ pushStep = "dropOldest"
  /\ readPosition' = pushRead + 1
  /\ pushStep' = "count"
  /\ UNCHANGED <<events, writePosition, lostEventCount, pushRead, drainer, history>>

PushCount ==
  /\ pushStep = "count"
  /\ lostEventCount' = Counted(lostEventCount)
  /\ pushStep' = "assign"
  /\ UNCHANGED <<events, writePosition, readPosition, pushRead, drainer, history>>

PushAssign ==
  /\ pushStep = "assign"
  /\ events' = [events EXCEPT ![Slot(writePosition)] = Torn]
  /\ pushStep' = "assigned"
  /\ UNCHANGED <<writePosition, readPosition, lostEventCount, pushRead, drainer, history>>

PushAssigned ==
  /\ pushStep = "assigned"
  /\ events' = [events EXCEPT ![Slot(writePosition)] = writePosition + 1]
  /\ pushStep' = "publish"
  /\ UNCHANGED <<writePosition, readPosition, lostEventCount, pushRead, drainer, history>>

PushPublish ==
  /\ pushStep = "publish"
  /\ writePosition' = writePosition + 1
  /\ pushStep' = "load"
  /\ UNCHANGED <<events, readPosition, lostEventCount, pushRead, drainer, history>>

-----------------------------------------------------------------------------
PopLoadRead ==
  /\ popStep = "load"
  /\ popRead' = readPosition
  /\ popStep' = "loaded"
  /\ UNCHANGED <<events, writePosition, readPosition, lostEventCount, driver, popCount,
                 destination, history>>

PopLoadWrite(n) ==
  /\ popStep = "loaded"
  /\ popCount' = Smaller(n, writePosition - popRead)
  /\ popStep' = "copy"
  /\ UNCHANGED <<events, writePosition, readPosition, lostEventCount, driver, popRead,
                 destination, history>>

PopCopy ==
  /\ popStep = "copy"
  /\ Len(destination) < popCount
  /\ destination' = Append(destination, events[Slot(popRead + Len(destination))])
  /\ UNCHANGED <<events, writePosition, readPosition, lostEventCount, driver, popStep, popRead,
                 popCount, history>>

\* Mutation: the position is moved past what was available, not what was copied.
PopStoreAll ==
  /\ popStep = "copy"
  /\ Len(destination) = popCount
  /\ readPosition' = writePosition
  /\ delivered' = delivered \o destination
  /\ destination' = <<>>
  /\ popStep' = "load"
  /\ UNCHANGED <<events, writePosition, lostEventCount, driver, popRead, popCount, skipped>>

PopStore ==
  /\ popStep = "copy"
  /\ Len(destination) = popCount
  /\ readPosition' = popRead + popCount
  /\ delivered' = delivered \o destination
  /\ destination' = <<>>
  /\ popStep' = "load"
  /\ UNCHANGED <<events, writePosition, lostEventCount, driver, popRead, popCount, skipped>>

\* discardPending: the load, then the store.
DiscardLoad ==
  /\ popStep = "load"
  /\ popRead' = writePosition
  /\ popStep' = "discard"
  /\ UNCHANGED <<events, writePosition, readPosition, lostEventCount, driver, popCount,
                 destination, history>>

DiscardStore ==
  /\ popStep = "discard"
  /\ skipped' = skipped \cup (readPosition + 1)..popRead
  /\ readPosition' = popRead
  /\ popStep' = "load"
  /\ UNCHANGED <<events, writePosition, lostEventCount, driver, popRead, popCount, destination,
                 delivered>>

\* reset, with nobody pushing or draining.  No event left in the ring is the next
\* consumer's: they all count as event 0 from here on.
Reset ==
  /\ pushStep = "load" /\ popStep = "load"
  /\ events' = [i \in DOMAIN events |-> 0]
  /\ writePosition' = 0 /\ readPosition' = 0 /\ lostEventCount' = 0
  /\ delivered' = <<>> /\ skipped' = {}
  /\ UNCHANGED <<driver, drainer>>

Init ==
  /\ events = [i \in 0..(Capacity - 1) |-> 0]
  /\ writePosition = 0 /\ readPosition = 0 /\ lostEventCount = 0
  /\ pushStep = "load" /\ pushRead = 0
  /\ popStep = "load" /\ popRead = 0 /\ popCount = 0 /\ destination = <<>>
  /\ delivered = <<>> /\ skipped = {}

Push == PushLoad \/ PushDropOldest \/ PushCount \/ PushAssign \/ PushAssigned \/ PushPublish

Pop == PopLoadRead \/ (\E n \in 1..MaxPop : PopLoadWrite(n)) \/ PopCopy \/ PopStore
       \/ DiscardLoad \/ DiscardStore

Next == Push \/ Pop \/ Reset

Spec == Init /\ [][Next]_vars

-----------------------------------------------------------------------------
\* "no event is handed out twice and none is read after being overwritten"
\* (MidiEventFifo.h, at the advance of readPosition in push).
NoEventTwice ==
  \A i, j \in DOMAIN delivered : i # j => delivered[i] # delivered[j]

\* The events a consumer can no longer get: published, neither handed out nor discarded
\* by itself, and not in a slot it will read again.
Gone ==
  {e \in (1..writePosition) \ skipped :
     /\ \A i \in DOMAIN delivered : delivered[i] # e
     /\ \A p \in readPosition..(writePosition - 1) : events[Slot(p)] # e}

\* "it counts what it dropped, so a consumer tracking held notes can tell that its
\* picture is corrupt": between pushes and pops, no event is gone that was not counted.
EveryLossCounted ==
  pushStep = "load" /\ popStep = "load" => Cardinality(Gone) <= lostEventCount

\* A consumer that is never a whole queue behind gets every event it does not discard,
\* once and in order.
InOrderWhileNothingLost ==
  lostEventCount = 0 /\ pushStep # "count" =>
    /\ \A i, j \in DOMAIN delivered : i < j => delivered[i] < delivered[j]
    /\ \A i \in DOMAIN delivered : \A e \in (1..delivered[i]) \ skipped :
         \E j \in DOMAIN delivered : delivered[j] = e
=============================================================================
