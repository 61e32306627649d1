-------------------------- MODULE AudioSampleFifo --------------------------
(***************************************************************************)
(* platform/audio/AudioSampleFifo.h: the ring between the audio callback,  *)
(* its only producer, and one analysis tool, its only consumer.  Each      *)
(* atomic access and each sample copied is a step.                         *)
(*                                                                         *)
(* An acquire load need not return the newest value: it returns one at     *)
(* least as new as the last one the same thread saw.  Positions are        *)
(* natural numbers; the 2^64 wrap of std::size_t is out of reach.          *)
(***************************************************************************)
EXTENDS Integers, Sequences

CONSTANTS
  Capacity,    (* template parameter                              *)
  MaxBlock,    (* bound: samples in a block, or asked for by pop  *)
  MaxOffered   (* bound: samples captured before the next reset   *)

ASSUME FifoAssumption ==
  Capacity \in Nat \ {0} /\ MaxBlock \in Nat \ {0} /\ MaxOffered \in Nat

VARIABLES
  samples,         (* the ring; a sample is its serial number             *)
  writePosition, readPosition,
  droppedSamples,  (* droppedSampleCount                                  *)
  seenRead,        (* readPosition as the producer last loaded it         *)
  seenWrite,       (* writePosition as the consumer last loaded it        *)
  pushing,         (* length of the block being copied in, 0 for none     *)
  written,         (* how many of its samples are in the ring             *)
  popping,         (* samples being copied out, 0 for none                *)
  destination,     (* those copied so far                                 *)
  offered,         (* history: samples captured                           *)
  delivered,       (* history: samples the consumer got                   *)
  discarded        (* history: how many it gave up                        *)

ring     == <<samples, writePosition, readPosition>>
producer == <<seenRead, pushing, written>>
consumer == <<seenWrite, popping, destination>>
history  == <<delivered, discarded>>
vars     == <<ring, droppedSamples, producer, consumer, offered, history>>

Slot(position) == position % Capacity

\* Mutation: one block too many.
FitsLoosely(n, read) == n <= Capacity - (writePosition - read) + 1

Fits(n, read) == n <= Capacity - (writePosition - read)

Smaller(a, b) == IF a < b THEN a ELSE b

-----------------------------------------------------------------------------
\* push: load the positions and keep or refuse the whole block.
PushBegin(n) ==
  /\ pushing = 0
  /\ offered + n <= MaxOffered
  /\ \E read \in seenRead..readPosition :
       /\ seenRead' = read
       /\ \/ Fits(n, read) /\ pushing' = n /\ UNCHANGED <<droppedSamples, offered>>
          \/ /\ ~Fits(n, read)
             /\ droppedSamples' = droppedSamples + n
             /\ offered' = offered + n
             /\ UNCHANGED pushing
  /\ UNCHANGED <<ring, written, consumer, history>>

PushCopy ==
  /\ written < pushing
  /\ samples' = [samples EXCEPT ![Slot(writePosition + written)] = offered + written + 1]
  /\ written' = written + 1
  /\ UNCHANGED <<writePosition, readPosition, droppedSamples, seenRead, pushing, consumer,
                 offered, history>>

PushPublish ==
  /\ pushing > 0 /\ written = pushing
  /\ writePosition' = writePosition + pushing
  /\ offered' = offered + pushing
  /\ pushing' = 0 /\ written' = 0
  /\ UNCHANGED <<samples, readPosition, droppedSamples, seenRead, consumer, history>>

\* pop: load the positions and take what there is, up to n samples.
PopBegin(n) ==
  /\ popping = 0
  /\ \E write \in seenWrite..writePosition :
       /\ seenWrite' = write
       /\ popping' = Smaller(n, write - readPosition)
  /\ UNCHANGED <<ring, droppedSamples, producer, destination, offered, history>>

PopCopy ==
  /\ Len(destination) < popping
  /\ destination' = Append(destination, samples[Slot(readPosition + Len(destination))])
  /\ UNCHANGED <<ring, droppedSamples, producer, seenWrite, popping, offered, history>>

\* Mutation: the whole request is acknowledged before it has been copied.
PopPublishEarly ==
  /\ popping > 0
  /\ readPosition' = readPosition + popping
  /\ delivered' = delivered \o destination
  /\ popping' = 0 /\ destination' = <<>>
  /\ UNCHANGED <<samples, writePosition, droppedSamples, producer, seenWrite, offered,
                 discarded>>

PopPublish ==
  /\ popping > 0 /\ Len(destination) = popping
  /\ readPosition' = readPosition + popping
  /\ delivered' = delivered \o destination
  /\ popping' = 0 /\ destination' = <<>>
  /\ UNCHANGED <<samples, writePosition, droppedSamples, producer, seenWrite, offered,
                 discarded>>

\* discardPending, on the consumer's side.
DiscardPending ==
  /\ popping = 0
  /\ \E write \in seenWrite..writePosition :
       /\ seenWrite' = write
       /\ discarded' = discarded + (write - readPosition)
       /\ readPosition' = write
  /\ UNCHANGED <<samples, writePosition, droppedSamples, producer, popping, destination,
                 offered, delivered>>

\* reset, while the producer is inactive and the consumer detached: the slot starts
\* over with a new listener.  No sample left in the ring is the next listener's: they all
\* count as sample 0 from here on.
Reset ==
  /\ pushing = 0 /\ popping = 0
  /\ samples' = [i \in DOMAIN samples |-> 0]
  /\ writePosition' = 0 /\ readPosition' = 0
  /\ droppedSamples' = 0
  /\ seenRead' = 0 /\ seenWrite' = 0
  /\ offered' = 0 /\ delivered' = <<>> /\ discarded' = 0
  /\ UNCHANGED <<pushing, written, popping, destination>>

Init ==
  /\ samples = [i \in 0..(Capacity - 1) |-> 0]
  /\ writePosition = 0 /\ readPosition = 0 /\ droppedSamples = 0
  /\ seenRead = 0 /\ pushing = 0 /\ written = 0
  /\ seenWrite = 0 /\ popping = 0 /\ destination = <<>>
  /\ offered = 0 /\ delivered = <<>> /\ discarded = 0

Next ==
  \/ \E n \in 1..MaxBlock : PushBegin(n) \/ PopBegin(n)
  \/ PushCopy \/ PushPublish \/ PopCopy \/ PopPublish \/ DiscardPending \/ Reset

Spec == Init /\ [][Next]_vars

-----------------------------------------------------------------------------
\* The two threads are never in the same slot of the ring: no sample is read while
\* it is being overwritten, without a lock and with stale loads.
NoTornSample ==
  written < pushing /\ Len(destination) < popping =>
    Slot(writePosition + written) # Slot(readPosition + Len(destination))

Buffered == [i \in 1..(writePosition - readPosition) |-> samples[Slot(readPosition + i - 1)]]

\* Every captured sample is delivered, still buffered, discarded by the consumer or
\* in the dropped-sample counter the settings page shows; none vanishes uncounted.
EverySampleAccounted ==
  offered = Len(delivered) + Len(Buffered) + discarded + droppedSamples

\* The ring implements the stream: order, at-most-once, whole blocks, bounded.
Stream == INSTANCE SampleStream WITH buffered <- Buffered

StreamSpec == Stream!Spec
=============================================================================
