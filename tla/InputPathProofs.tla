-------------------------- MODULE InputPathProofs --------------------------
(***************************************************************************)
(* The sample FIFO, for every capacity, block size and number of samples:  *)
(* no sample is torn, none vanishes uncounted, and the ring implements the *)
(* stream of SampleStream.  Then the other parts of the input path: what   *)
(* is proved of each of them alone holds in their union, the state machine *)
(* MCInputPath explores, since a step of the union is a step of one part   *)
(* and leaves the others alone.                                            *)
(***************************************************************************)
EXTENDS MCInputPath, FiniteSetTheorems, SequenceTheorems, WellFoundedInduction, TLAPS

-----------------------------------------------------------------------------
(* Remainders: two positions less than a lap apart are in different slots.  *)

LEMMA Division ==
  \A a \in Nat, c \in Nat \ {0} : a = c * (a \div c) + (a % c) /\ a % c \in 0..(c - 1)
BY Z3

LEMMA NoPositiveMultipleBelow ==
  \A k \in Int, c \in Nat \ {0} : c * k > 0 => c * k >= c
BY Z3

LEMMA RemaindersDiffer ==
  ASSUME NEW c \in Nat \ {0}, NEW a \in Nat, NEW b \in Nat, a < b, b < a + c
  PROVE  a % c # b % c
<1>1. SUFFICES ASSUME a % c = b % c PROVE FALSE
  OBVIOUS
<1> DEFINE laps == (b \div c) - (a \div c)
<1>2. laps \in Int
  OBVIOUS
<1>3. b - a = c * (b \div c) - c * (a \div c)
  BY <1>1, Division
<1>4. b - a = c * laps
  BY <1>2, <1>3
<1> HIDE DEF laps
<1>5. c * laps > 0 /\ c * laps < c
  BY <1>2, <1>4
<1>. QED
  BY <1>2, <1>5, NoPositiveMultipleBelow

LEMMA LessThanALapApart ==
  ASSUME NEW a \in Nat, NEW b \in Nat, a < b, b < a + Capacity
  PROVE  Slot(a) # Slot(b)
BY RemaindersDiffer, FifoAssumption DEF Slot

LEMMA SlotInRing ==
  ASSUME NEW a \in Nat
  PROVE  Slot(a) \in 0..(Capacity - 1)
BY Division, FifoAssumption DEF Slot

LEMMA SmallerOf ==
  ASSUME NEW a \in Nat, NEW b \in Nat
  PROVE  Smaller(a, b) \in Nat /\ Smaller(a, b) <= a /\ Smaller(a, b) <= b
BY DEF Smaller

-----------------------------------------------------------------------------
(***************************************************************************)
(* The inductive invariant.  Each thread works with a position of the      *)
(* other that may be old, and old is safe on both sides: the producer's    *)
(* block fits behind the read position it saw, and what the consumer       *)
(* copies lies before the write position it saw.  Inside these limits the  *)
(* ring holds what has been copied into it, and the destination holds what *)
(* has been copied out.                                                    *)
(***************************************************************************)
RingType ==
  /\ samples \in [0..(Capacity - 1) -> Nat]
  /\ writePosition \in Nat /\ readPosition \in Nat
  /\ seenRead \in Nat /\ seenWrite \in Nat
  /\ pushing \in 0..MaxBlock /\ written \in 0..pushing
  /\ popping \in 0..MaxBlock
  /\ destination \in Seq(Nat) /\ Len(destination) <= popping
  /\ droppedSamples \in Nat /\ offered \in Nat /\ discarded \in Nat
  /\ delivered \in Seq(Nat)

PositionsInv ==
  /\ seenRead <= readPosition
  /\ readPosition + popping <= seenWrite
  /\ seenWrite <= writePosition
  /\ writePosition + pushing <= seenRead + Capacity

CountsInv ==
  /\ offered = writePosition + droppedSamples
  /\ readPosition = Len(delivered) + discarded

ContentsInv ==
  /\ \A k \in 0..(written - 1) : samples[Slot(writePosition + k)] = offered + k + 1
  /\ \A k \in 1..Len(destination) : destination[k] = samples[Slot(readPosition + k - 1)]

RingInv == RingType /\ PositionsInv /\ CountsInv /\ ContentsInv

LEMMA InitRing == Init => RingInv
<1>. SUFFICES ASSUME Init PROVE RingInv
  OBVIOUS
<1>1. destination = <<>> /\ delivered = <<>> /\ Len(<<>>) = 0 /\ <<>> \in Seq(Nat)
  BY EmptySeq DEF Init
<1>. QED
  BY <1>1, FifoAssumption DEF Init, RingInv, RingType, PositionsInv, CountsInv, ContentsInv

LEMMA RingStep == RingInv /\ [Next]_vars => RingInv'
<1>. SUFFICES ASSUME RingInv, [Next]_vars PROVE RingInv'
  OBVIOUS
<1>. USE FifoAssumption
<1>. USE DEF ring, producer, consumer, history
<1>0. RingType /\ PositionsInv /\ CountsInv /\ ContentsInv
  BY DEF RingInv
<1>1. ASSUME NEW n \in 1..MaxBlock, PushBegin(n) PROVE RingInv'
  <2>1. PICK read \in seenRead..readPosition :
          /\ seenRead' = read
          /\ \/ Fits(n, read) /\ pushing' = n /\ UNCHANGED <<droppedSamples, offered>>
             \/ /\ ~Fits(n, read)
                /\ droppedSamples' = droppedSamples + n
                /\ offered' = offered + n
                /\ UNCHANGED pushing
    BY <1>1 DEF PushBegin
  <2>2. /\ pushing = 0 /\ written = 0 /\ n \in Nat /\ n <= MaxBlock
        /\ read \in Nat /\ seenRead <= read /\ read <= readPosition
    BY <1>0, <1>1 DEF PushBegin, RingType
  <2>3. UNCHANGED <<samples, writePosition, readPosition, written, seenWrite, popping,
                    destination, delivered, discarded>>
    BY <1>1 DEF PushBegin
  <2>4. RingType'
    BY <1>0, <2>1, <2>2, <2>3, SMTT(30) DEF RingType
  <2>5. PositionsInv'
    BY <1>0, <2>1, <2>2, <2>3 DEF RingType, PositionsInv, Fits
  <2>6. CountsInv'
    BY <1>0, <2>1, <2>2, <2>3 DEF RingType, CountsInv
  <2>7. ContentsInv'
    BY <1>0, <2>2, <2>3 DEF RingType, ContentsInv, Slot
  <2>. QED
    BY <2>4, <2>5, <2>6, <2>7 DEF RingInv
<1>2. CASE PushCopy
  <2> DEFINE here == Slot(writePosition + written)
  <2>1. /\ written \in Nat /\ written < pushing /\ written' = written + 1
        /\ samples' = [samples EXCEPT ![here] = offered + written + 1]
        /\ UNCHANGED <<writePosition, readPosition, droppedSamples, seenRead, pushing, seenWrite,
                       popping, destination, offered, delivered, discarded>>
    BY <1>0, <1>2 DEF PushCopy, RingType
  <2>2. here \in 0..(Capacity - 1)
    <3>1. writePosition + written \in Nat
      BY <1>0 DEF RingType
    <3>. QED
      BY <3>1, SlotInRing
  <2>3. RingType'
    BY <1>0, <2>1, <2>2 DEF RingType
  <2>4. PositionsInv' /\ CountsInv'
    BY <1>0, <2>1 DEF PositionsInv, CountsInv
  <2>5. ASSUME NEW k \in 0..(written' - 1)
        PROVE  samples'[Slot(writePosition + k)] = offered + k + 1
    <3>1. CASE k = written
      BY <1>0, <2>1, <2>2, <3>1 DEF RingType
    <3>2. CASE k # written
      <4>1. k \in 0..(written - 1) /\ k \in Nat /\ k < written
        BY <1>0, <2>1, <3>2 DEF RingType
      <4>2. Slot(writePosition + k) # here
        <5>1. /\ writePosition + k < writePosition + written
              /\ writePosition + written < writePosition + k + Capacity
          BY <1>0, <2>1, <4>1 DEF RingType, PositionsInv
        <5>. QED
          BY <1>0, <4>1, <5>1, LessThanALapApart DEF RingType
      <4>3. Slot(writePosition + k) \in 0..(Capacity - 1)
        <5>1. writePosition + k \in Nat
          BY <1>0, <4>1 DEF RingType
        <5>. QED
          BY <5>1, SlotInRing
      <4>. QED
        BY <1>0, <2>1, <4>1, <4>2, <4>3 DEF RingType, ContentsInv
    <3>. QED
      BY <3>1, <3>2
  <2>6. ASSUME NEW k \in 1..Len(destination)
        PROVE  destination[k] = samples'[Slot(readPosition + k - 1)]
    <3>1. k \in Nat /\ k >= 1 /\ k <= popping /\ readPosition + k - 1 \in Nat
      BY <1>0 DEF RingType
    <3>2. Slot(readPosition + k - 1) # here
      <4>1. /\ readPosition + k - 1 < writePosition + written
            /\ writePosition + written < readPosition + k - 1 + Capacity
        BY <1>0, <2>1, <3>1 DEF RingType, PositionsInv
      <4>. QED
        BY <1>0, <3>1, <4>1, LessThanALapApart DEF RingType
    <3>3. Slot(readPosition + k - 1) \in 0..(Capacity - 1)
      BY <3>1, SlotInRing
    <3>. QED
      BY <1>0, <2>1, <3>2, <3>3 DEF RingType, ContentsInv
  <2>7. ContentsInv'
    <3> HIDE DEF here
    <3>. QED
      BY <2>1, <2>5, <2>6 DEF ContentsInv, Slot
  <2>. QED
    BY <2>3, <2>4, <2>7 DEF RingInv
<1>3. CASE PushPublish
  <2>1. /\ pushing > 0 /\ written = pushing
        /\ writePosition' = writePosition + pushing
        /\ offered' = offered + pushing
        /\ pushing' = 0 /\ written' = 0
        /\ UNCHANGED <<samples, readPosition, droppedSamples, seenRead, seenWrite, popping,
                       destination, delivered, discarded>>
    BY <1>3 DEF PushPublish
  <2>2. RingType'
    BY <1>0, <2>1 DEF RingType
  <2>3. PositionsInv' /\ CountsInv'
    BY <1>0, <2>1 DEF RingType, PositionsInv, CountsInv
  <2>4. ContentsInv'
    BY <1>0, <2>1 DEF ContentsInv, Slot
  <2>. QED
    BY <2>2, <2>3, <2>4 DEF RingInv
<1>4. ASSUME NEW n \in 1..MaxBlock, PopBegin(n) PROVE RingInv'
  <2>1. PICK write \in seenWrite..writePosition :
          seenWrite' = write /\ popping' = Smaller(n, write - readPosition)
    BY <1>4 DEF PopBegin
  <2>2. /\ popping = 0
        /\ UNCHANGED <<samples, writePosition, readPosition, droppedSamples, seenRead, pushing,
                       written, destination, offered, delivered, discarded>>
    BY <1>4 DEF PopBegin
  <2>3. /\ write \in Nat /\ n \in Nat /\ n <= MaxBlock
        /\ write - readPosition \in Nat /\ write <= writePosition /\ seenWrite <= write
    BY <1>0, <2>1, <2>2 DEF RingType, PositionsInv
  <2>4. popping' \in Nat /\ popping' <= n /\ popping' <= write - readPosition
    BY <2>1, <2>3, SmallerOf
  <2>5. Len(destination) = 0
    BY <1>0, <2>2, LenProperties DEF RingType
  <2>6. RingType'
    BY <1>0, <2>1, <2>2, <2>3, <2>4, <2>5 DEF RingType
  <2>7. PositionsInv' /\ CountsInv'
    BY <1>0, <2>1, <2>2, <2>3, <2>4 DEF RingType, PositionsInv, CountsInv
  <2>8. ContentsInv'
    BY <1>0, <2>2 DEF ContentsInv, Slot
  <2>. QED
    BY <2>6, <2>7, <2>8 DEF RingInv
<1>5. CASE PopCopy
  <2> DEFINE m == Len(destination)
             next == samples[Slot(readPosition + m)]
  <2>1. /\ m < popping /\ destination' = Append(destination, next)
        /\ UNCHANGED <<samples, writePosition, readPosition, droppedSamples, seenRead, pushing,
                       written, seenWrite, popping, offered, delivered, discarded>>
    BY <1>5 DEF PopCopy
  <2>2. m \in Nat /\ destination \in Seq(Nat)
    BY <1>0, LenProperties DEF RingType
  <2>3. next \in Nat
    <3>1. readPosition + m \in Nat
      BY <1>0, <2>2 DEF RingType
    <3>2. Slot(readPosition + m) \in 0..(Capacity - 1)
      BY <3>1, SlotInRing
    <3>. QED
      BY <1>0, <3>2 DEF RingType
  <2> HIDE DEF next
  <2>4. /\ destination' \in Seq(Nat) /\ Len(destination') = m + 1
        /\ \A k \in 1..m : destination'[k] = destination[k]
        /\ destination'[m + 1] = next
    BY <2>1, <2>2, <2>3, AppendProperties
  <2>5. RingType'
    BY <1>0, <2>1, <2>2, <2>4 DEF RingType
  <2>6. PositionsInv' /\ CountsInv'
    BY <1>0, <2>1 DEF PositionsInv, CountsInv
  <2>7. ASSUME NEW k \in 1..(m + 1)
        PROVE  destination'[k] = samples[Slot(readPosition + k - 1)]
    <3>1. CASE k = m + 1
      <4>1. readPosition + k - 1 = readPosition + m
        BY <1>0, <2>2, <3>1 DEF RingType
      <4>. QED
        BY <2>4, <3>1, <4>1 DEF next
    <3>2. CASE k # m + 1
      <4>1. k \in 1..m
        BY <2>2, <3>2
      <4>. QED
        BY <1>0, <2>4, <4>1 DEF ContentsInv
    <3>. QED
      BY <3>1, <3>2
  <2>8. ContentsInv'
    BY <1>0, <2>1, <2>4, <2>7 DEF ContentsInv, Slot
  <2>. QED
    BY <2>5, <2>6, <2>8 DEF RingInv
<1>6. CASE PopPublish
  <2>1. /\ popping > 0 /\ Len(destination) = popping
        /\ readPosition' = readPosition + popping
        /\ delivered' = delivered \o destination
        /\ popping' = 0 /\ destination' = <<>>
        /\ UNCHANGED <<samples, writePosition, droppedSamples, seenRead, pushing, written,
                       seenWrite, offered, discarded>>
    BY <1>6 DEF PopPublish
  <2>2. delivered' \in Seq(Nat) /\ Len(delivered') = Len(delivered) + popping
    BY <1>0, <2>1, ConcatProperties DEF RingType
  <2>3. destination' \in Seq(Nat) /\ Len(destination') = 0
    BY <2>1, EmptySeq
  <2>4. Len(delivered) \in Nat
    BY <1>0, LenProperties DEF RingType
  <2>5. RingType'
    BY <1>0, <2>1, <2>2, <2>3 DEF RingType
  <2>6. PositionsInv' /\ CountsInv'
    BY <1>0, <2>1, <2>2, <2>4 DEF RingType, PositionsInv, CountsInv
  <2>7. ContentsInv'
    BY <1>0, <2>1, <2>3 DEF ContentsInv, Slot
  <2>. QED
    BY <2>5, <2>6, <2>7 DEF RingInv
<1>7. CASE DiscardPending
  <2>1. PICK write \in seenWrite..writePosition :
          /\ seenWrite' = write
          /\ discarded' = discarded + (write - readPosition)
          /\ readPosition' = write
    BY <1>7 DEF DiscardPending
  <2>2. /\ popping = 0
        /\ UNCHANGED <<samples, writePosition, droppedSamples, seenRead, pushing, written,
                       popping, destination, offered, delivered>>
    BY <1>7 DEF DiscardPending
  <2>3. /\ write \in Nat /\ write - readPosition \in Nat
        /\ write <= writePosition /\ seenWrite <= write
    BY <1>0, <2>1, <2>2 DEF RingType, PositionsInv
  <2>4. Len(delivered) \in Nat /\ Len(destination) = 0
    BY <1>0, <2>2, LenProperties DEF RingType
  <2>5. RingType'
    BY <1>0, <2>1, <2>2, <2>3 DEF RingType
  <2>6. PositionsInv' /\ CountsInv'
    BY <1>0, <2>1, <2>2, <2>3, <2>4 DEF RingType, PositionsInv, CountsInv
  <2>7. ContentsInv'
    BY <1>0, <2>2, <2>4 DEF ContentsInv, Slot
  <2>. QED
    BY <2>5, <2>6, <2>7 DEF RingInv
<1>8. CASE Reset
  <2>1. /\ pushing = 0 /\ popping = 0
        /\ samples' = [i \in DOMAIN samples |-> 0]
        /\ writePosition' = 0 /\ readPosition' = 0 /\ droppedSamples' = 0
        /\ seenRead' = 0 /\ seenWrite' = 0
        /\ offered' = 0 /\ delivered' = <<>> /\ discarded' = 0
        /\ UNCHANGED <<pushing, written, popping, destination>>
    BY <1>8 DEF Reset
  <2>2. Len(destination) = 0 /\ written = 0
    BY <1>0, <2>1, LenProperties DEF RingType
  <2>3. delivered' \in Seq(Nat) /\ Len(delivered') = 0
    BY <2>1, EmptySeq
  <2>4. RingType'
    BY <1>0, <2>1, <2>2, <2>3 DEF RingType
  <2>5. PositionsInv' /\ CountsInv' /\ ContentsInv'
    BY <2>1, <2>2, <2>3 DEF PositionsInv, CountsInv, ContentsInv
  <2>. QED
    BY <2>4, <2>5 DEF RingInv
<1>9. CASE UNCHANGED vars
  BY <1>0, <1>9 DEF vars, RingInv, RingType, PositionsInv, CountsInv, ContentsInv, Slot
<1>. QED
  BY <1>1, <1>2, <1>3, <1>4, <1>5, <1>6, <1>7, <1>8, <1>9 DEF Next

LEMMA RingAlways == Spec => []RingInv
<1>. QED
  BY InitRing, RingStep, PTL DEF Spec

-----------------------------------------------------------------------------
\* The producer and the consumer are never in the same slot, whatever old positions
\* they work with: no sample is read while it is being overwritten.
THEOREM NoSampleTorn == Spec => []NoTornSample
<1>1. RingInv => NoTornSample
  <2>. SUFFICES ASSUME RingInv, written < pushing, Len(destination) < popping
                PROVE  Slot(writePosition + written) # Slot(readPosition + Len(destination))
    BY DEF NoTornSample
  <2>1. Len(destination) \in Nat
    BY LenProperties DEF RingInv, RingType
  <2>2. /\ readPosition + Len(destination) \in Nat /\ writePosition + written \in Nat
        /\ readPosition + Len(destination) < writePosition + written
        /\ writePosition + written < readPosition + Len(destination) + Capacity
    BY <2>1, FifoAssumption DEF RingInv, RingType, PositionsInv
  <2>. QED
    BY <2>2, LessThanALapApart
<1>. QED
  BY <1>1, RingAlways, PTL

-----------------------------------------------------------------------------
(* What the ring holds for the consumer, as a sequence.                     *)

BufferedShape ==
  /\ Buffered \in Seq(Nat)
  /\ Len(Buffered) = writePosition - readPosition
  /\ writePosition - readPosition \in 0..Capacity
  /\ \A i \in 1..(writePosition - readPosition) :
       Buffered[i] = samples[Slot(readPosition + i - 1)]

LEMMA BufferedIsASequence == RingInv => BufferedShape
<1>. SUFFICES ASSUME RingInv PROVE BufferedShape
  OBVIOUS
<1> DEFINE n == writePosition - readPosition
<1>1. n \in 0..Capacity
  BY FifoAssumption DEF RingInv, RingType, PositionsInv
<1>2. ASSUME NEW i \in 1..n PROVE samples[Slot(readPosition + i - 1)] \in Nat
  <2>1. readPosition + i - 1 \in Nat
    BY DEF RingInv, RingType
  <2>2. Slot(readPosition + i - 1) \in 0..(Capacity - 1)
    BY <2>1, SlotInRing
  <2>. QED
    BY <2>2 DEF RingInv, RingType
<1>3. Buffered \in [1..n -> Nat] /\ n \in Nat
  BY <1>1, <1>2, FifoAssumption DEF Buffered
<1>4. Buffered \in Seq(Nat)
  BY <1>3, SeqDef
<1>5. Len(Buffered) = n
  BY <1>3, <1>4, LenProperties
<1>. QED
  BY <1>1, <1>4, <1>5 DEF Buffered, BufferedShape

\* Every sample captured is delivered, buffered, discarded by the consumer or counted
\* as dropped, at every step of every interleaving.
THEOREM SamplesAccounted == Spec => []EverySampleAccounted
<1>1. RingInv => EverySampleAccounted
  <2>. SUFFICES ASSUME RingInv PROVE EverySampleAccounted
    OBVIOUS
  <2>1. Len(delivered) \in Nat
    BY LenProperties DEF RingInv, RingType
  <2>2. Len(Buffered) = writePosition - readPosition
    BY BufferedIsASequence DEF BufferedShape
  <2>. QED
    BY <2>1, <2>2 DEF EverySampleAccounted, RingInv, RingType, CountsInv
<1>. QED
  BY <1>1, RingAlways, PTL

-----------------------------------------------------------------------------
(***************************************************************************)
(* The ring implements the stream.  A block is accepted when its positions *)
(* are published and delivered when the read position is stored; copying   *)
(* and loading are invisible, since what they touch is not buffered.       *)
(***************************************************************************)

\* A step that leaves both positions and the ring alone leaves the buffered samples.
LEMMA BufferedKept ==
  ASSUME UNCHANGED <<samples, writePosition, readPosition>>
  PROVE  Buffered' = Buffered
BY DEF Buffered, Slot

\* A copy into the ring is outside of what is buffered.
LEMMA CopyIsInvisible ==
  ASSUME RingInv, PushCopy
  PROVE  Buffered' = Buffered
<1>1. /\ written \in Nat /\ written < pushing
      /\ samples' = [samples EXCEPT ![Slot(writePosition + written)] = offered + written + 1]
      /\ UNCHANGED <<writePosition, readPosition>>
  BY DEF PushCopy, RingInv, RingType
<1>2. ASSUME NEW i \in 1..(writePosition - readPosition)
      PROVE  samples'[Slot(readPosition + i - 1)] = samples[Slot(readPosition + i - 1)]
  <2>1. /\ readPosition + i - 1 \in Nat /\ writePosition + written \in Nat
        /\ readPosition + i - 1 < writePosition + written
        /\ writePosition + written < readPosition + i - 1 + Capacity
    BY <1>1, FifoAssumption DEF RingInv, RingType, PositionsInv
  <2>2. Slot(readPosition + i - 1) # Slot(writePosition + written)
    BY <2>1, LessThanALapApart
  <2>3. /\ Slot(readPosition + i - 1) \in 0..(Capacity - 1)
        /\ Slot(writePosition + written) \in 0..(Capacity - 1)
    BY <2>1, SlotInRing
  <2>. QED
    BY <1>1, <2>2, <2>3 DEF RingInv, RingType
<1>. QED
  BY <1>1, <1>2 DEF Buffered, Slot

\* Publishing a block appends it.
LEMMA PublishAccepts ==
  ASSUME RingInv, RingInv', BufferedShape, BufferedShape', PushPublish
  PROVE  \E n \in 1..MaxBlock : Stream!Accept(n)
<1>1. /\ pushing > 0 /\ written = pushing
      /\ writePosition' = writePosition + pushing
      /\ offered' = offered + pushing
      /\ UNCHANGED <<samples, readPosition, delivered>>
  BY DEF PushPublish, history
<1>2. /\ pushing \in 1..MaxBlock /\ pushing \in Nat /\ offered \in Nat
      /\ readPosition \in Nat /\ writePosition \in Nat
      /\ writePosition - readPosition + pushing <= Capacity
  BY <1>1, FifoAssumption DEF RingInv, RingType, PositionsInv
<1> DEFINE n == writePosition - readPosition
           block == Stream!Block(pushing)
<1>3. n \in Nat /\ Len(Buffered) = n /\ Buffered \in Seq(Nat)
  BY <1>2 DEF BufferedShape
<1>4. block \in Seq(Nat) /\ Len(block) = pushing
      /\ \A i \in 1..pushing : block[i] = offered + i
  <2>1. block \in [1..pushing -> Nat]
    BY <1>2 DEF Stream!Block
  <2>2. block \in Seq(Nat)
    BY <1>2, <2>1, SeqDef
  <2>. QED
    BY <1>2, <2>1, <2>2, LenProperties DEF Stream!Block
<1> HIDE DEF block
<1>5. /\ Buffered \o block \in Seq(Nat) /\ Len(Buffered \o block) = n + pushing
      /\ \A i \in 1..(n + pushing) :
           (Buffered \o block)[i] = IF i <= n THEN Buffered[i] ELSE block[i - n]
  <2>1. /\ Buffered \o block \in Seq(Nat)
        /\ Len(Buffered \o block) = Len(Buffered) + Len(block)
        /\ \A i \in 1..(Len(Buffered) + Len(block)) :
             (Buffered \o block)[i] = IF i <= Len(Buffered) THEN Buffered[i]
                                                           ELSE block[i - Len(Buffered)]
    BY <1>3, <1>4, ConcatProperties
  <2>2. Len(Buffered) = n /\ Len(block) = pushing
    BY <1>3, <1>4
  <2>. QED
    BY <2>1, <2>2
<1>6. Buffered' \in Seq(Nat) /\ Len(Buffered') = n + pushing
  BY <1>1, <1>2 DEF BufferedShape
<1>7. ASSUME NEW i \in 1..(n + pushing)
      PROVE  Buffered'[i] = (Buffered \o block)[i]
  <2>1. Buffered'[i] = samples[Slot(readPosition + i - 1)]
    BY <1>1, <1>2 DEF BufferedShape, Slot
  <2>2. CASE i <= n
    <3>1. i \in 1..n
      BY <1>2, <1>3, <2>2
    <3>. QED
      BY <1>5, <2>1, <3>1 DEF BufferedShape
  <2>3. CASE i > n
    <3> DEFINE k == i - n - 1
    <3>1. k \in 0..(written - 1) /\ i - n \in 1..pushing
      BY <1>1, <1>2, <1>3, <2>3
    <3>2. readPosition + i - 1 = writePosition + k
      BY <1>2
    <3>3. samples[Slot(writePosition + k)] = offered + k + 1
      BY <3>1 DEF RingInv, ContentsInv
    <3>4. block[i - n] = offered + (i - n)
      BY <1>4, <3>1
    <3>5. offered + k + 1 = offered + (i - n)
      BY <1>2
    <3>. QED
      BY <1>3, <1>5, <2>1, <2>3, <3>2, <3>3, <3>4, <3>5
  <2>4. i <= n \/ i > n
    BY <1>2, <1>3
  <2>. QED
    BY <2>2, <2>3, <2>4
<1>8. Buffered' = Buffered \o block
  BY <1>5, <1>6, <1>7, SeqEqual
<1>9. Stream!Accept(pushing)
  BY <1>1, <1>2, <1>3, <1>8 DEF Stream!Accept, block
<1>. QED
  BY <1>2, <1>9

\* What the consumer gives up or takes is the oldest part of the buffer; what it
\* leaves is the rest.
LEMMA AdvanceDropsOldest ==
  ASSUME RingInv, RingInv', BufferedShape, BufferedShape',
         NEW n \in 0..(writePosition - readPosition),
         readPosition' = readPosition + n, UNCHANGED <<samples, writePosition>>
  PROVE  /\ n \in 0..Len(Buffered)
         /\ Buffered' = SubSeq(Buffered, n + 1, Len(Buffered))
<1> DEFINE m == writePosition - readPosition
           rest == SubSeq(Buffered, n + 1, m)
<1>1. m \in Nat /\ n \in Nat /\ n <= m /\ readPosition \in Nat
  BY DEF RingInv, RingType, BufferedShape
<1>2. Buffered \in Seq(Nat) /\ Len(Buffered) = m
  BY DEF BufferedShape
<1>3. \A i \in (n + 1)..m : Buffered[i] \in Nat
  BY <1>1, <1>2, ElementOfSeq
<1>4. /\ rest \in Seq(Nat) /\ Len(rest) = m - n
      /\ \A i \in 1..(m - n) : rest[i] = Buffered[n + i]
  <2>1. /\ rest \in Seq(Nat)
        /\ Len(rest) = IF n + 1 <= m THEN m - (n + 1) + 1 ELSE 0
        /\ \A i \in 1..(m - (n + 1) + 1) : rest[i] = Buffered[n + 1 + i - 1]
    BY <1>1, <1>3, SubSeqProperties
  <2>2. m - (n + 1) + 1 = m - n /\ \A i \in 1..(m - n) : n + 1 + i - 1 = n + i
    BY <1>1
  <2>. QED
    BY <1>1, <2>1, <2>2
<1> HIDE DEF rest
<1>5. Buffered' \in Seq(Nat) /\ Len(Buffered') = m - n
  BY <1>1 DEF BufferedShape, RingInv, RingType
<1>6. ASSUME NEW i \in 1..(m - n) PROVE Buffered'[i] = rest[i]
  <2>1. Buffered'[i] = samples[Slot(readPosition + n + i - 1)]
    BY <1>1, <1>5 DEF BufferedShape, Slot
  <2>2. n + i \in 1..m /\ readPosition + (n + i) - 1 = readPosition + n + i - 1
    BY <1>1
  <2>3. Buffered[n + i] = samples[Slot(readPosition + (n + i) - 1)]
    BY <2>2 DEF BufferedShape
  <2>. QED
    BY <1>4, <2>1, <2>2, <2>3
<1>7. Buffered' = rest
  BY <1>4, <1>5, <1>6, SeqEqual
<1>. QED
  BY <1>1, <1>2, <1>7 DEF rest

\* What has been copied out is the oldest part of the buffer.
LEMMA DestinationIsOldest ==
  ASSUME RingInv, BufferedShape, Len(destination) = popping
  PROVE  destination = SubSeq(Buffered, 1, popping)
<1> DEFINE front == SubSeq(Buffered, 1, popping)
<1>1. /\ popping \in Nat /\ popping <= writePosition - readPosition
      /\ writePosition - readPosition \in Nat /\ readPosition \in Nat
  BY DEF RingInv, RingType, PositionsInv, BufferedShape
<1>2. Buffered \in Seq(Nat) /\ Len(Buffered) = writePosition - readPosition
  BY DEF BufferedShape
<1>3. \A i \in 1..popping : Buffered[i] \in Nat
  BY <1>1, <1>2, ElementOfSeq
<1>4. /\ front \in Seq(Nat) /\ Len(front) = popping
      /\ \A i \in 1..popping : front[i] = Buffered[i]
  <2>1. /\ front \in Seq(Nat)
        /\ Len(front) = IF 1 <= popping THEN popping - 1 + 1 ELSE 0
        /\ \A i \in 1..(popping - 1 + 1) : front[i] = Buffered[1 + i - 1]
    BY <1>1, <1>3, SubSeqProperties
  <2>2. popping - 1 + 1 = popping /\ \A i \in 1..popping : 1 + i - 1 = i
    BY <1>1
  <2>. QED
    BY <1>1, <2>1, <2>2
<1> HIDE DEF front
<1>5. destination \in Seq(Nat)
  BY DEF RingInv, RingType
<1>6. ASSUME NEW i \in 1..popping PROVE destination[i] = front[i]
  <2>1. destination[i] = samples[Slot(readPosition + i - 1)]
    BY DEF RingInv, ContentsInv
  <2>2. i \in 1..(writePosition - readPosition)
    BY <1>1
  <2>. QED
    BY <1>4, <2>1, <2>2 DEF BufferedShape
<1>7. destination = front
  BY <1>4, <1>5, <1>6, SeqEqual
<1>. QED
  BY <1>7 DEF front

LEMMA StreamStep ==
  RingInv /\ RingInv' /\ BufferedShape /\ BufferedShape' /\ [Next]_vars
    => [Stream!Next]_(Stream!vars)
<1>. SUFFICES ASSUME RingInv, RingInv', BufferedShape, BufferedShape', [Next]_vars
              PROVE  Stream!Next \/ UNCHANGED Stream!vars
  OBVIOUS
<1>. USE DEF ring, producer, consumer, history
<1>1. ASSUME NEW n \in 1..MaxBlock, PushBegin(n) PROVE Stream!Next \/ UNCHANGED Stream!vars
  <2>1. Buffered' = Buffered /\ delivered' = delivered
    BY <1>1, BufferedKept DEF PushBegin
  <2>2. offered' = offered \/ offered' = offered + n
    BY <1>1 DEF PushBegin
  <2>3. CASE offered' = offered + n
    BY <2>1, <2>3 DEF Stream!Next, Stream!DropNewest
  <2>4. CASE offered' = offered
    BY <2>1, <2>4 DEF Stream!vars
  <2>. QED
    BY <2>2, <2>3, <2>4
<1>2. CASE PushCopy
  BY <1>2, CopyIsInvisible DEF PushCopy, Stream!vars
<1>3. CASE PushPublish
  BY <1>3, PublishAccepts DEF Stream!Next
<1>4. ASSUME NEW n \in 1..MaxBlock, PopBegin(n) PROVE UNCHANGED Stream!vars
  BY <1>4, BufferedKept DEF PopBegin, Stream!vars
<1>5. CASE PopCopy
  BY <1>5, BufferedKept DEF PopCopy, Stream!vars
<1>6. CASE PopPublish
  <2>1. /\ Len(destination) = popping
        /\ readPosition' = readPosition + popping
        /\ delivered' = delivered \o destination
        /\ UNCHANGED <<samples, writePosition, offered>>
    BY <1>6 DEF PopPublish
  <2>2. popping \in 0..(writePosition - readPosition)
    BY DEF RingInv, RingType, PositionsInv
  <2>3. /\ popping \in 0..Len(Buffered)
        /\ Buffered' = SubSeq(Buffered, popping + 1, Len(Buffered))
    BY <2>1, <2>2, AdvanceDropsOldest
  <2>4. destination = SubSeq(Buffered, 1, popping)
    BY <2>1, DestinationIsOldest
  <2>5. Stream!Deliver(popping)
    BY <2>1, <2>3, <2>4 DEF Stream!Deliver
  <2>. QED
    BY <2>3, <2>5 DEF Stream!Next
<1>7. CASE DiscardPending
  <2>1. PICK write \in seenWrite..writePosition : readPosition' = write
    BY <1>7 DEF DiscardPending
  <2>2. UNCHANGED <<samples, writePosition, offered, delivered>>
    BY <1>7 DEF DiscardPending
  <2> DEFINE n == write - readPosition
  <2>3. n \in 0..(writePosition - readPosition) /\ readPosition' = readPosition + n
    BY <2>1 DEF RingInv, RingType, PositionsInv
  <2> HIDE DEF n
  <2>4. n \in 0..Len(Buffered) /\ Buffered' = SubSeq(Buffered, n + 1, Len(Buffered))
    BY <2>2, <2>3, AdvanceDropsOldest
  <2>5. Stream!Discard(n)
    BY <2>2, <2>4 DEF Stream!Discard
  <2>. QED
    BY <2>4, <2>5 DEF Stream!Next
<1>8. CASE Reset
  <2>1. Len(Buffered') = 0 /\ Buffered' \in Seq(Nat)
    BY <1>8 DEF Reset, BufferedShape
  <2>2. Buffered' = <<>>
    BY <2>1, EmptySeq
  <2>. QED
    BY <1>8, <2>2 DEF Reset, Stream!Restart, Stream!Next
<1>9. CASE UNCHANGED vars
  BY <1>9, BufferedKept DEF vars, Stream!vars
<1>. QED
  BY <1>1, <1>2, <1>3, <1>4, <1>5, <1>6, <1>7, <1>8, <1>9 DEF Next

\* The ring implements the stream: samples come out at most once and in order, a block
\* is taken or dropped whole, and the backlog is bounded, although the two threads
\* share no lock and load each other's position late.
THEOREM ImplementsStream == Spec => StreamSpec
<1>1. Init => Stream!Init
  <2>. SUFFICES ASSUME Init PROVE Stream!Init
    OBVIOUS
  <2>1. BufferedShape
    BY InitRing, BufferedIsASequence
  <2>2. Len(Buffered) = 0 /\ Buffered \in Seq(Nat)
    BY <2>1 DEF Init, BufferedShape
  <2>3. Buffered = <<>>
    BY <2>2, EmptySeq
  <2>. QED
    BY <2>3 DEF Init, Stream!Init
<1>2. RingInv /\ RingInv' /\ BufferedShape /\ BufferedShape' /\ [Next]_vars
      => [Stream!Next]_(Stream!vars)
  BY StreamStep
<1>. QED
  BY <1>1, <1>2, RingAlways, BufferedIsASequence, PTL DEF Spec, StreamSpec, Stream!Spec

-----------------------------------------------------------------------------
(* The union of the parts.                                                 *)

InputFacts == INSTANCE AudioInputServiceProofs

\* The audio input service runs in the union as it does alone.
LEMMA InputRuns == MCSpec => InputFacts!Spec
<1>1. Input!Init => InputFacts!Init
  BY DEF Input!Init, InputFacts!Init, Input!None, InputFacts!None, Input!Slots,
         InputFacts!Slots, Input!Producers, InputFacts!Producers
<1>2. Input!Next => InputFacts!Next
  BY DEF
         Input!flags, Input!slots, Input!fill, Input!message, Input!None, Input!Slots,
         Input!Producers, Input!CallbackIdle, Input!FreeSlots, Input!Registered,
         Input!DeviceWorkInFlight, Input!HasUsableInput, Input!Enter, Input!ReturnEarly,
         Input!Render, Input!TokenTaken, Input!TakeToken, Input!Fill, Input!ReleaseToken,
         Input!Produce, Input!AddListener, Input!Greet, Input!RemoveListener,
         Input!NoCallbackInProgress, Input!AwaitCallbacks, Input!Recycle, Input!StopTimer,
         Input!SetSyntheticTone, Input!Silence, Input!Retune, Input!Updated,
         Input!UpdateToneSource, Input!Compare, Input!Raise, Input!StartTimer, Input!Halt,
         Input!Lower, Input!Tick, Input!Deliver, Input!Tell, Input!Scan, Input!InitialiseInput,
         Input!CloseDevice, Input!CountStopped, Input!OpenFails, Input!AboutToStart,
         Input!StandDown, Input!Run, Input!Announced, Input!CountRunning, Input!DeviceWork,
         Input!DeviceLost, Input!CountLost, Input!MessageThread, Input!Next,
         InputFacts!flags, InputFacts!slots, InputFacts!fill, InputFacts!message,
         InputFacts!None, InputFacts!Slots, InputFacts!Producers, InputFacts!CallbackIdle,
         InputFacts!FreeSlots, InputFacts!Registered, InputFacts!DeviceWorkInFlight,
         InputFacts!HasUsableInput, InputFacts!Enter, InputFacts!ReturnEarly, InputFacts!Render,
         InputFacts!TokenTaken, InputFacts!TakeToken, InputFacts!Fill, InputFacts!ReleaseToken,
         InputFacts!Produce, InputFacts!AddListener, InputFacts!Greet,
         InputFacts!RemoveListener, InputFacts!NoCallbackInProgress, InputFacts!AwaitCallbacks,
         InputFacts!Recycle, InputFacts!StopTimer, InputFacts!SetSyntheticTone,
         InputFacts!Silence, InputFacts!Retune, InputFacts!Updated, InputFacts!UpdateToneSource,
         InputFacts!Compare, InputFacts!Raise, InputFacts!StartTimer, InputFacts!Halt,
         InputFacts!Lower, InputFacts!Tick, InputFacts!Deliver, InputFacts!Tell,
         InputFacts!Scan, InputFacts!InitialiseInput, InputFacts!CloseDevice,
         InputFacts!CountStopped, InputFacts!OpenFails, InputFacts!AboutToStart,
         InputFacts!StandDown, InputFacts!Run, InputFacts!Announced, InputFacts!CountRunning,
         InputFacts!DeviceWork, InputFacts!DeviceLost, InputFacts!CountLost,
         InputFacts!MessageThread, InputFacts!Next
<1>3. MCInit => InputFacts!Init
  BY <1>1 DEF MCInit
<1>4. [MCNext]_<<part, vars, queue, input, keyboard, notes, tuner>> =>
        [InputFacts!Next]_InputFacts!vars
  BY <1>2 DEF MCNext, input, InputFacts!vars, InputFacts!flags, InputFacts!slots,
              InputFacts!fill, InputFacts!message
<1>. QED
  BY <1>3, <1>4, PTL DEF MCSpec, InputFacts!Spec

LEMMA InputConstants == InputFacts!InputAssumption
BY InputPathAssumption
   DEF Input!InputAssumption, InputFacts!InputAssumption, Input!None, InputFacts!None

\* Every variable of the audio input service stays in its range.
THEOREM InputTyped == MCSpec => []InputTypeOK
<1>1. InputFacts!Spec => []InputFacts!TypeInv
  BY InputConstants, InputFacts!TypeCorrect
<1>2. InputFacts!TypeInv => InputTypeOK
  BY DEF InputFacts!TypeInv, InputFacts!TypeOK, InputTypeOK, Input!TypeOK, Input!None,
         InputFacts!None, Input!Slots, InputFacts!Slots, Input!Producers, InputFacts!Producers
<1>. QED
  BY <1>1, <1>2, InputRuns, PTL

\* The device and the generator never fill the FIFOs together ("The token is what
\* keeps the FIFOs single-producer").
THEOREM InputHasOneProducer == MCSpec => []OneProducerFills
<1>1. InputFacts!Spec => []InputFacts!OneProducerFills
  BY InputConstants, InputFacts!OneProducer
<1>2. InputFacts!OneProducerFills => OneProducerFills
  BY DEF InputFacts!OneProducerFills, OneProducerFills, Input!OneProducerFills,
         InputFacts!Filling, Input!Filling
<1>. QED
  BY <1>1, <1>2, InputRuns, PTL

\* No FIFO is reset for the next listener under the device's callback (removeListener
\* waits for "the current bounded callback to finish before recycling this slot").
THEOREM InputResetsQuietly == MCSpec => []NoResetUnderDevice
<1>1. InputFacts!Spec => []InputFacts!NoResetUnderDevice
  BY InputConstants, InputFacts!NoResetUnderCallback
<1>2. InputFacts!NoResetUnderDevice => NoResetUnderDevice
  BY DEF InputFacts!NoResetUnderDevice, NoResetUnderDevice, Input!NoResetUnderDevice,
         InputFacts!PushesInto, Input!PushesInto
<1>. QED
  BY <1>1, <1>2, InputRuns, PTL

\* Between ticks, with no format change left to deliver and no generator running, every
\* registered tool was last told what the device is doing (addListener,
\* deliverFormatChange).
THEOREM InputSettles == MCSpec => []FormatSettled
<1>1. InputFacts!Spec => []InputFacts!FormatSettled
  BY InputConstants, InputFacts!ListenersToldTheTruth
<1>2. InputFacts!FormatSettled => FormatSettled
  BY DEF InputFacts!FormatSettled, FormatSettled, Input!FormatSettled,
         InputFacts!Registered, Input!Registered, InputFacts!Slots, Input!Slots
<1>. QED
  BY <1>1, <1>2, InputRuns, PTL

-----------------------------------------------------------------------------
(* The keyboard that is kept open, for any identifiers and names, however  *)
(* often keyboards are plugged in and pulled out.                          *)

LEMMA KeyboardConstants == Keyboard!KeyboardAssumption
BY InputPathAssumption

Listing == [Identifiers -> DeviceNames \cup {NoDevice}]
Choice  == {Keyboard!Nobody} \cup [identifier : Identifiers, name : DeviceNames \cup {NoName}]
Port    == {Keyboard!Closed} \cup [identifier : Identifiers, port : Nat]

KeyboardTypeInv ==
  /\ present \in Listing /\ listed \in Listing /\ devices \in Listing
  /\ port \in [Identifiers -> Nat]
  /\ chosen \in Choice /\ openInput \in Port
  /\ awaited \in {"nothing", "scan", "selection", "settled list"}

\* What a choice resolves to is listed, and under the name that was chosen.
LEMMA ResolveFindsTheChoice ==
  ASSUME NEW choice \in Choice, NEW list \in Listing,
         Keyboard!Resolve(choice, list) # NoDevice
  PROVE  /\ Keyboard!Resolve(choice, list) \in Identifiers
         /\ list[Keyboard!Resolve(choice, list)] # NoDevice
         /\ choice.name \in {NoName, list[Keyboard!Resolve(choice, list)]}
         /\ choice # Keyboard!Nobody
<1> DEFINE named == {i \in Identifiers : list[i] = choice.name}
<1>1. choice.identifier # NoDevice
  BY DEF Keyboard!Resolve
<1>2. choice.identifier \in Identifiers /\ choice.name \in DeviceNames \cup {NoName}
  BY <1>1 DEF Choice, Keyboard!Nobody
<1>3. CASE list[choice.identifier] # NoDevice /\ choice.name \in {NoName, list[choice.identifier]}
  BY <1>1, <1>2, <1>3 DEF Keyboard!Resolve, Keyboard!Nobody
<1>4. CASE ~(/\ list[choice.identifier] # NoDevice
             /\ choice.name \in {NoName, list[choice.identifier]})
  <2>1. choice.name # NoName /\ Keyboard!Cardinality(named) = 1
    BY <1>1, <1>4 DEF Keyboard!Resolve
  <2>2. Keyboard!Resolve(choice, list) = CHOOSE i \in named : TRUE
    BY <1>1, <1>4 DEF Keyboard!Resolve
  <2>3. named # {}
    <3>1. Cardinality({}) = 0
      BY FS_EmptySet
    <3>2. Keyboard!Cardinality(named) = Cardinality(named)
      BY DEF Keyboard!Cardinality, Cardinality
    <3>. HIDE DEF named
    <3>. QED
      BY <2>1, <3>1, <3>2
  <2>4. Keyboard!Resolve(choice, list) \in named
    BY <2>2, <2>3
  <2>. QED
    BY <1>1, <1>2, <2>1, <2>4, KeyboardConstants DEF Keyboard!Nobody, Keyboard!KeyboardAssumption
<1>. QED
  BY <1>3, <1>4

\* A choice that is listed under its own name resolves to itself.
LEMMA ResolveKeepsTheChoice ==
  ASSUME NEW choice, NEW list,
         choice.identifier # NoDevice, list[choice.identifier] # NoDevice,
         choice.name \in {NoName, list[choice.identifier]}
  PROVE  Keyboard!Resolve(choice, list) = choice.identifier
BY DEF Keyboard!Resolve

LEMMA KeyboardTypeStep ==
  ASSUME KeyboardTypeInv, [Keyboard!Next]_(Keyboard!vars)
  PROVE  KeyboardTypeInv'
<1> USE DEF KeyboardTypeInv, Listing, Keyboard!world, Keyboard!selection, Keyboard!reconcile,
            Keyboard!shown
<1>1. ASSUME NEW i \in Identifiers, Keyboard!Unplug(i) PROVE KeyboardTypeInv'
  BY <1>1 DEF Keyboard!Unplug
<1>2. ASSUME NEW i \in Identifiers, NEW name \in DeviceNames, Keyboard!PlugIn(i, name)
      PROVE  KeyboardTypeInv'
  <2>1. /\ present' = [present EXCEPT ![i] = name] /\ port' = [port EXCEPT ![i] = @ + 1]
        /\ UNCHANGED <<listed, devices, chosen, openInput, awaited>>
    BY <1>2 DEF Keyboard!PlugIn
  <2>2. present' \in Listing
    BY <2>1
  <2>3. port' \in [Identifiers -> Nat]
    <3>1. port \in [Identifiers -> Nat] /\ i \in Identifiers
      OBVIOUS
    <3>2. port[i] + 1 \in Nat
      BY ONLY <3>1
    <3>3. port' = [port EXCEPT ![i] = port[i] + 1]
      BY <2>1
    <3>. QED
      BY ONLY <3>1, <3>2, <3>3
  <2>. QED
    BY <2>1, <2>2, <2>3
<1>3. CASE Keyboard!ListChanged \/ Keyboard!Wait \/ Keyboard!RebuildDeviceList
  BY <1>3 DEF Keyboard!ListChanged, Keyboard!Wait, Keyboard!RebuildDeviceList
<1>4. CASE Keyboard!Scan
  BY <1>4 DEF Keyboard!Scan
<1>5. ASSUME NEW refused \in BOOLEAN, Keyboard!Reconcile(refused) PROVE KeyboardTypeInv'
  <2> DEFINE target == Keyboard!Resolve(chosen, listed)
  <2>1. /\ UNCHANGED <<present, port, listed, devices>> /\ awaited' = "nothing"
        /\ \/ openInput' \in {openInput, Keyboard!Closed} /\ chosen' = chosen
           \/ /\ target # NoDevice
              /\ openInput' = [identifier |-> target, port |-> port[target]]
              /\ chosen' = [chosen EXCEPT !.identifier = target]
    BY <1>5 DEF Keyboard!Reconcile
  <2>2. openInput' \in Port /\ chosen' \in Choice
    <3>1. CASE openInput' \in {openInput, Keyboard!Closed} /\ chosen' = chosen
      BY <3>1 DEF Port
    <3>2. CASE /\ target # NoDevice
               /\ openInput' = [identifier |-> target, port |-> port[target]]
               /\ chosen' = [chosen EXCEPT !.identifier = target]
      <4>1. target \in Identifiers /\ chosen # Keyboard!Nobody
        BY <3>2, ResolveFindsTheChoice
      <4>. QED
        BY <3>2, <4>1 DEF Port, Choice
    <3>. QED
      BY <2>1, <3>1, <3>2
  <2>. QED
    BY <2>1, <2>2
<1>6. ASSUME NEW i \in Identifiers \cup {"none"}, Keyboard!Choose(i) PROVE KeyboardTypeInv'
  <2>1. chosen' \in Choice
    BY <1>6 DEF Keyboard!Choose, Choice
  <2>. QED
    BY <1>6, <2>1 DEF Keyboard!Choose
<1>7. CASE UNCHANGED Keyboard!vars
  BY <1>7 DEF Keyboard!vars
<1>. QED
  BY <1>1, <1>2, <1>3, <1>4, <1>5, <1>6, <1>7 DEF Keyboard!Next

-----------------------------------------------------------------------------
\* No change of the list is waiting to be acted on.
Calm == notified /\ ~changePending /\ awaited # "settled list"

\* While nobody has changed the list since it was read, it is as it was read; the page
\* shows the list as it is unless it knows better.
ListsAreCurrent ==
  /\ notified /\ ~Keyboard!idle => listed = present
  /\ Calm /\ ~listMoved => devices = present

\* What is open is the port that stands at its identifier now.
OpenIsThere ==
  Calm /\ openInput # Keyboard!Closed =>
    /\ openInput.port = port[openInput.identifier]
    /\ present[openInput.identifier] # NoDevice

ChosenIsThere ==
  /\ chosen.identifier # NoDevice
  /\ present[chosen.identifier] # NoDevice
  /\ chosen.name \in {NoName, present[chosen.identifier]}

\* What is open was chosen, except while another choice is being acted on, which the
\* page only offers when it is there.
OpenIsChosen ==
  /\ Calm /\ awaited # "selection" /\ openInput # Keyboard!Closed =>
       openInput.identifier = chosen.identifier /\ ChosenIsThere
  /\ Calm /\ awaited = "selection" => chosen = Keyboard!Nobody \/ ChosenIsThere

KeyboardInv == ListsAreCurrent /\ OpenIsThere /\ OpenIsChosen

LEMMA KeyboardStep ==
  ASSUME KeyboardTypeInv, KeyboardInv, [Keyboard!Next]_(Keyboard!vars)
  PROVE  KeyboardInv'
<1> USE DEF KeyboardInv, ListsAreCurrent, OpenIsThere, OpenIsChosen, ChosenIsThere, Calm,
            Keyboard!idle, Keyboard!world, Keyboard!selection, Keyboard!reconcile, Keyboard!shown
<1>1. ASSUME NEW i \in Identifiers, Keyboard!Unplug(i) PROVE KeyboardInv'
  BY <1>1 DEF Keyboard!Unplug
<1>2. ASSUME NEW i \in Identifiers, NEW name \in DeviceNames, Keyboard!PlugIn(i, name)
      PROVE  KeyboardInv'
  BY <1>2 DEF Keyboard!PlugIn
<1>3. CASE Keyboard!ListChanged
  BY <1>3 DEF Keyboard!ListChanged
<1>4. CASE Keyboard!Wait
  BY <1>4 DEF Keyboard!Wait
<1>5. CASE Keyboard!RebuildDeviceList
  BY <1>5 DEF Keyboard!RebuildDeviceList
<1>6. CASE Keyboard!Scan
  BY <1>6 DEF Keyboard!Scan
<1>7. ASSUME NEW refused \in BOOLEAN, Keyboard!Reconcile(refused) PROVE KeyboardInv'
  <2> DEFINE target == Keyboard!Resolve(chosen, listed)
             kept == openInput # Keyboard!Closed /\ target # NoDevice
                       /\ openInput.identifier = target /\ awaited # "settled list"
  <2>1. /\ awaited # "nothing" /\ awaited' = "nothing"
        /\ UNCHANGED <<present, port, notified, devices, changePending>>
        /\ ~listMoved' => awaited # "settled list" /\ ~listMoved
    BY <1>7 DEF Keyboard!Reconcile
  <2>2. \/ kept /\ openInput' = openInput /\ chosen' = chosen
        \/ openInput' = Keyboard!Closed /\ chosen' = chosen
        \/ /\ target # NoDevice /\ openInput' = [identifier |-> target, port |-> port[target]]
           /\ chosen' = [chosen EXCEPT !.identifier = target]
    BY <1>7 DEF Keyboard!Reconcile
  <2>3. ListsAreCurrent'
    BY <2>1
  <2>4. SUFFICES ASSUME notified, ~changePending
                 PROVE  OpenIsThere' /\ OpenIsChosen'
    BY <2>1, <2>3
  <2>5. listed = present
    BY <2>1, <2>4
  <2>6. target # NoDevice => /\ target \in Identifiers /\ present[target] # NoDevice
                             /\ chosen.name \in {NoName, present[target]}
                             /\ chosen # Keyboard!Nobody
    BY <2>5, ResolveFindsTheChoice DEF KeyboardTypeInv
  <2>. HIDE DEF target
  <2>7. CASE openInput' = Keyboard!Closed
    BY <2>1, <2>7
  <2>8. CASE /\ target # NoDevice /\ openInput' = [identifier |-> target, port |-> port[target]]
             /\ chosen' = [chosen EXCEPT !.identifier = target]
    <3>1. chosen' = [identifier |-> target, name |-> chosen.name]
      BY <2>6, <2>8 DEF KeyboardTypeInv, Choice
    <3>. QED
      BY <2>1, <2>6, <2>8, <3>1
  <2>9. CASE kept /\ openInput' = openInput /\ chosen' = chosen
    <3>1. OpenIsThere'
      BY <2>1, <2>4, <2>9
    <3>2. ChosenIsThere
      BY <2>1, <2>4, <2>6, <2>9
    <3>3. target = chosen.identifier
      BY <2>5, <3>2, ResolveKeepsTheChoice DEF target
    <3>. QED
      BY <2>1, <2>9, <3>1, <3>2, <3>3
  <2>. QED
    BY <2>2, <2>7, <2>8, <2>9
<1>8. ASSUME NEW i \in Identifiers \cup {"none"}, Keyboard!Choose(i) PROVE KeyboardInv'
  <2> DEFINE choice ==
               IF i = "none" THEN Keyboard!Nobody ELSE [identifier |-> i, name |-> devices[i]]
  <2>1. /\ awaited = "nothing" /\ ~listMoved
        /\ i = "none" \/ (i \in Identifiers /\ devices[i] # NoDevice)
        /\ chosen' = choice
        /\ \/ choice.identifier = chosen.identifier /\ UNCHANGED <<awaited, listed>>
           \/ /\ choice.identifier # chosen.identifier
              /\ awaited' = "selection" /\ listed' = present
        /\ UNCHANGED <<present, port, notified, openInput, devices, changePending, listMoved>>
    BY <1>8 DEF Keyboard!Choose
  <2>2. ListsAreCurrent' /\ OpenIsThere'
    BY <2>1
  <2>3. SUFFICES ASSUME notified, ~changePending
                 PROVE  OpenIsChosen'
    BY <2>1, <2>2
  <2>4. devices = present
    BY <2>1, <2>3
  <2>5. choice = Keyboard!Nobody \/ ChosenIsThere'
    BY <2>1, <2>4, KeyboardConstants DEF Keyboard!KeyboardAssumption
  <2>6. CASE awaited' = "selection"
    BY <2>1, <2>5, <2>6
  <2>7. CASE choice.identifier = chosen.identifier /\ awaited' = "nothing"
    BY <2>1, <2>3, <2>5, <2>7 DEF Keyboard!Nobody
  <2>. QED
    BY <2>1, <2>6, <2>7
<1>9. CASE UNCHANGED Keyboard!vars
  BY <1>9 DEF Keyboard!vars
<1>. QED
  BY <1>1, <1>2, <1>3, <1>4, <1>5, <1>6, <1>7, <1>8, <1>9 DEF Keyboard!Next

\* Once every change of the list has been acted on, what is open is the keyboard that
\* was chosen, at the port where it stands now (MidiInputService reconcileDevice).
THEOREM KeyboardSettles == MCSpec => []SettledInputIsTheChosenKeyboard
<1>1. MCInit => KeyboardTypeInv /\ KeyboardInv
  <2> SUFFICES ASSUME Keyboard!Init PROVE KeyboardTypeInv /\ KeyboardInv
    BY DEF MCInit
  <2>1. KeyboardTypeInv
    BY DEF Keyboard!Init, KeyboardTypeInv, Listing, Choice, Port
  <2>2. KeyboardInv
    BY DEF Keyboard!Init, KeyboardInv, ListsAreCurrent, OpenIsThere, OpenIsChosen, Keyboard!idle
  <2>. QED
    BY <2>1, <2>2
<1>2. KeyboardTypeInv /\ KeyboardInv /\ [MCNext]_<<part, vars, queue, input, keyboard, notes, tuner>>
        => KeyboardTypeInv' /\ KeyboardInv'
  <2>1. [MCNext]_<<part, vars, queue, input, keyboard, notes, tuner>> =>
          [Keyboard!Next]_(Keyboard!vars)
    BY DEF MCNext, keyboard, Keyboard!vars, Keyboard!world, Keyboard!selection,
           Keyboard!reconcile, Keyboard!shown
  <2>. QED
    BY <2>1, KeyboardTypeStep, KeyboardStep
<1>3. KeyboardTypeInv /\ KeyboardInv => SettledInputIsTheChosenKeyboard
  BY DEF KeyboardInv, OpenIsThere, OpenIsChosen, ChosenIsThere, Calm, Keyboard!idle,
         SettledInputIsTheChosenKeyboard, Keyboard!SettledInputIsTheChosenKeyboard
<1>. QED
  BY <1>1, <1>2, <1>3, PTL DEF MCSpec

-----------------------------------------------------------------------------
(***************************************************************************)
(* The MIDI event queue.  The driver moves readPosition as well as the     *)
(* consumer, each from a copy it took earlier, so readPosition can go back *)
(* and events can be handed out twice.  That no loss goes uncounted rests  *)
(* on a set of lost events, not larger than the count, such that every     *)
(* event either thread has ever passed is handed over, discarded or lost.  *)
(***************************************************************************)

Ring == 0..(QueueCapacity - 1)

QueueType ==
  /\ events \in [Ring -> Int] /\ head \in Nat /\ tail \in Nat /\ lostEventCount \in Nat
  /\ pushStep \in {"load", "dropOldest", "count", "assign", "assigned", "publish"}
  /\ pushRead \in Nat
  /\ popStep \in {"load", "loaded", "copy", "discard"}
  /\ popRead \in Nat /\ popCount \in Nat
  /\ drained \in Seq(Int) /\ received \in Seq(Int) /\ skipped \subseteq Nat

QueueBounds ==
  /\ tail <= head
  /\ popStep # "load" => popRead <= head
  /\ popStep = "copy" => popRead + popCount <= head /\ Len(drained) <= popCount
  /\ popStep # "copy" => drained = <<>>
  /\ pushStep = "dropOldest" => head - pushRead >= QueueCapacity
  /\ pushStep = "publish" => events[Queue!Slot(head)] = head + 1

Handed == {received[i] : i \in 1..Len(received)}
Explained(gone) == Handed \cup skipped \cup gone

\* Between the store that drops an event and the one that counts it.
Pending == IF pushStep = "count" THEN 1 ELSE 0

LostCounted(gone) ==
  gone \subseteq 1..head /\ IsFiniteSet(gone) /\ Cardinality(gone) <= lostEventCount + Pending

\* The events that a thread has passed, or overwritten, or is about to overwrite.
Passed(e) ==
  \/ e <= tail
  \/ popStep \in {"loaded", "copy"} /\ e <= popRead
  \/ pushStep = "dropOldest" /\ e <= pushRead
  \/ e <= head - QueueCapacity
  \/ pushStep \notin {"load", "dropOldest"} /\ e = head - QueueCapacity + 1

PassedExplained(gone) == \A e \in 1..head : Passed(e) => e \in Explained(gone)

StillInRing(gone) ==
  \A e \in 1..head : e \in Explained(gone) \/ events[Queue!Slot(e - 1)] = e

CopiedRight(gone) ==
  popStep = "copy" =>
    \A i \in 1..Len(drained) : popRead + i \in Explained(gone) \/ drained[i] = popRead + i

LossesAre(gone) ==
  LostCounted(gone) /\ PassedExplained(gone) /\ StillInRing(gone) /\ CopiedRight(gone)

LossInv == QueueType /\ QueueBounds /\ \E S : LossesAre(S)

LEMMA QueueConstants == QueueCapacity \in Nat \ {0} /\ MaxPop \in Nat
<1>1. Queue!QueueAssumption
  BY InputPathAssumption
<1>. QED
  BY <1>1 DEF Queue!QueueAssumption

LEMMA QueueSlots ==
  /\ \A p \in Nat : Queue!Slot(p) \in Ring
  /\ \A p, q \in Nat : p < q /\ q < p + QueueCapacity => Queue!Slot(p) # Queue!Slot(q)
BY QueueConstants, Division, RemaindersDiffer DEF Queue!Slot, Ring

\* Steps of the driver that lose nothing: the loads, the count, the assignment and
\* the publication.
LEMMA QuietPush ==
  ASSUME QueueType, QueueBounds, NEW S, LossesAre(S),
         Queue!PushLoad \/ Queue!PushCount \/ Queue!PushAssign \/ Queue!PushAssigned
           \/ Queue!PushPublish
  PROVE  QueueType' /\ QueueBounds' /\ LossesAre(S)'
<1>. QueueCapacity \in Nat \ {0}
  BY QueueConstants
<1>. USE DEF Queue!drainer, Queue!history, Explained, Handed
<1>. LostCounted(S) /\ PassedExplained(S) /\ StillInRing(S) /\ CopiedRight(S)
  BY DEF LossesAre
<1>1. CASE Queue!PushLoad
  <2>. DEFINE next == IF head - tail >= QueueCapacity THEN "dropOldest" ELSE "assign"
  <2>1. /\ pushStep = "load" /\ pushRead' = tail /\ pushStep' = next
        /\ UNCHANGED <<events, head, tail, lostEventCount, popStep, popRead, popCount, drained,
                       received, skipped>>
    BY <1>1 DEF Queue!PushLoad, Queue!Full
  <2>2. QueueType' /\ QueueBounds'
    BY <2>1 DEF QueueType, QueueBounds
  <2>3. \A e \in 1..head : Passed(e)' => Passed(e)
    BY <2>1 DEF Passed, QueueType
  <2>4. LossesAre(S)'
    BY <2>1, <2>3 DEF LossesAre, LostCounted, PassedExplained, StillInRing, CopiedRight, Pending
  <2>. QED
    BY <2>2, <2>4
<1>2. CASE Queue!PushCount
  <2>1. /\ pushStep = "count" /\ lostEventCount' = lostEventCount + 1 /\ pushStep' = "assign"
        /\ UNCHANGED <<events, head, tail, pushRead, popStep, popRead, popCount, drained,
                       received, skipped>>
    BY <1>2 DEF Queue!PushCount, Queue!Counted
  <2>2. QueueType' /\ QueueBounds'
    BY <2>1 DEF QueueType, QueueBounds
  <2>3. \A e \in 1..head : Passed(e)' => Passed(e)
    BY <2>1 DEF Passed, QueueType
  <2>4. LostCounted(S)'
    BY <2>1 DEF LostCounted, Pending, QueueType
  <2>5. LossesAre(S)'
    BY <2>1, <2>3, <2>4 DEF LossesAre, PassedExplained, StillInRing, CopiedRight
  <2>. QED
    BY <2>2, <2>5
<1>3. CASE Queue!PushAssign \/ Queue!PushAssigned
  <2>1. PICK value \in Int :
          /\ events' = [events EXCEPT ![Queue!Slot(head)] = value]
          /\ \/ pushStep = "assign" /\ pushStep' = "assigned"
             \/ pushStep = "assigned" /\ pushStep' = "publish" /\ value = head + 1
          /\ UNCHANGED <<head, tail, lostEventCount, pushRead, popStep, popRead, popCount,
                         drained, received, skipped>>
    <3>1. CASE Queue!PushAssign
      <4>. WITNESS -1 \in Int
      <4>. QED
        BY <3>1 DEF Queue!PushAssign, Queue!Torn
    <3>2. CASE Queue!PushAssigned
      <4>. head + 1 \in Int
        BY DEF QueueType
      <4>. WITNESS head + 1 \in Int
      <4>. QED
        BY <3>2 DEF Queue!PushAssigned
    <3>. QED
      BY <1>3, <3>1, <3>2
  <2>2. Queue!Slot(head) \in Ring
    BY QueueSlots DEF QueueType
  <2>3. QueueType' /\ QueueBounds'
    BY <2>1, <2>2 DEF QueueType, QueueBounds
  <2>4. \A e \in 1..head : Passed(e)' => Passed(e)
    BY <2>1 DEF Passed, QueueType
  <2>5. ASSUME NEW e \in 1..head, e \notin Explained(S)
        PROVE  events'[Queue!Slot(e - 1)] = e
    <3>1. ~Passed(e)
      BY <2>5 DEF PassedExplained
    <3>2. e > head - QueueCapacity + 1
      BY <2>1, <3>1 DEF Passed, QueueType
    <3>3. e - 1 \in Nat /\ e - 1 < head /\ head < (e - 1) + QueueCapacity
      BY <3>2 DEF QueueType
    <3>4. Queue!Slot(e - 1) \in Ring /\ Queue!Slot(e - 1) # Queue!Slot(head)
      BY <3>3, QueueSlots DEF QueueType
    <3>5. events[Queue!Slot(e - 1)] = e
      BY <2>5 DEF StillInRing
    <3>. QED
      BY <2>1, <3>4, <3>5 DEF QueueType
  <2>6. StillInRing(S)'
    BY <2>1, <2>5 DEF StillInRing
  <2>7. LossesAre(S)'
    BY <2>1, <2>4, <2>6 DEF LossesAre, LostCounted, PassedExplained, CopiedRight, Pending
  <2>. QED
    BY <2>3, <2>7
<1>4. CASE Queue!PushPublish
  <2>1. /\ pushStep = "publish" /\ head' = head + 1 /\ pushStep' = "load"
        /\ UNCHANGED <<events, tail, lostEventCount, pushRead, popStep, popRead, popCount,
                       drained, received, skipped>>
    BY <1>4 DEF Queue!PushPublish
  <2>2. QueueType' /\ QueueBounds'
    BY <2>1 DEF QueueType, QueueBounds
  <2>3. \A e \in 1..head : Passed(e)' => Passed(e)
    BY <2>1 DEF Passed, QueueType
  <2>4. /\ events[Queue!Slot(head)] = head + 1
        /\ \A e \in Nat : e = head + 1 => ~Passed(e)'
    BY <2>1 DEF Passed, QueueType, QueueBounds
  <2>5. \A e \in (1..head)' : e \in Nat /\ (e \in 1..head \/ e = head + 1)
    BY <2>1 DEF QueueType
  <2>6. Explained(S)' = Explained(S)
    BY <2>1
  <2>7. PassedExplained(S)'
    <3>1. ASSUME NEW e \in (1..head)', Passed(e)' PROVE e \in Explained(S)
      BY <2>3, <2>4, <2>5, <3>1 DEF PassedExplained
    <3>. QED
      BY <2>6, <3>1 DEF PassedExplained
  <2>8. ASSUME NEW e \in (1..head)', e \notin Explained(S)
        PROVE  events[Queue!Slot(e - 1)] = e
    <3>1. CASE e \in 1..head
      BY <2>8, <3>1 DEF StillInRing
    <3>2. CASE e = head + 1
      <4>1. e - 1 = head
        BY <3>2 DEF QueueType
      <4>. QED
        BY <2>4, <3>2, <4>1
    <3>. QED
      BY <2>5, <3>1, <3>2
  <2>9. StillInRing(S)'
    BY <2>1, <2>6, <2>8 DEF StillInRing
  <2>10. LostCounted(S)'
    BY <2>1 DEF LostCounted, Pending, QueueType
  <2>11. CopiedRight(S)'
    BY <2>1 DEF CopiedRight
  <2>. QED
    BY <2>2, <2>7, <2>9, <2>10, <2>11 DEF LossesAre
<1>. QED
  BY <1>1, <1>2, <1>3, <1>4

\* The store that drops the oldest event: one more event is lost, unless another store
\* has passed it already.
LEMMA DropPush ==
  ASSUME QueueType, QueueBounds, NEW S, LossesAre(S), Queue!PushDropOldest
  PROVE  QueueType' /\ QueueBounds' /\ LossesAre(S \cup {head - QueueCapacity + 1})'
<1>. DEFINE oldest == head - QueueCapacity + 1
            T == S \cup {oldest}
<1>. QueueCapacity \in Nat \ {0}
  BY QueueConstants
<1>. LostCounted(S) /\ PassedExplained(S) /\ StillInRing(S) /\ CopiedRight(S)
  BY DEF LossesAre
<1>1. /\ pushStep = "dropOldest" /\ tail' = pushRead + 1 /\ pushStep' = "count"
      /\ UNCHANGED <<events, head, lostEventCount, pushRead, popStep, popRead, popCount,
                     drained, received, skipped>>
  BY DEF Queue!PushDropOldest, Queue!drainer, Queue!history
<1>2. pushRead + 1 <= oldest /\ oldest \in 1..head
  BY <1>1 DEF QueueType, QueueBounds
<1>3. QueueType' /\ QueueBounds'
  BY <1>1, <1>2 DEF QueueType, QueueBounds
<1>4. Explained(T)' = Explained(S) \cup {oldest}
  BY <1>1 DEF Explained, Handed
<1>5. LostCounted(T)'
  <2>1. IsFiniteSet(T) /\ Cardinality(T) <= Cardinality(S) + 1
    <3>1. IsFiniteSet(S)
      BY DEF LostCounted
    <3>2. IsFiniteSet(T) /\ Cardinality(T) = IF oldest \in S THEN Cardinality(S)
                                                            ELSE Cardinality(S) + 1
      BY <3>1, FS_AddElement
    <3>. QED
      BY <3>1, <3>2, FS_CardinalityType
  <2>2. Cardinality(S) <= lostEventCount
    BY <1>1 DEF LostCounted, Pending, QueueType
  <2>3. Cardinality(S) \in Nat /\ Cardinality(T) \in Nat
    BY <2>1, FS_CardinalityType DEF LostCounted
  <2>4. T \subseteq 1..head
    BY <1>2 DEF LostCounted
  <2>. QED
    BY <1>1, <2>1, <2>2, <2>3, <2>4 DEF LostCounted, Pending, QueueType
<1>6. PassedExplained(T)'
  <2>1. ASSUME NEW e \in 1..head, Passed(e)' PROVE e = oldest \/ Passed(e)
    BY <1>1, <1>2, <2>1 DEF Passed, QueueType
  <2>. QED
    BY <1>1, <1>4, <2>1 DEF PassedExplained
<1>7. StillInRing(T)'
  BY <1>1, <1>4 DEF StillInRing
<1>8. CopiedRight(T)'
  BY <1>1, <1>4 DEF CopiedRight
<1>. QED
  BY <1>3, <1>5, <1>6, <1>7, <1>8 DEF LossesAre

\* The consumer's loads and its copies.
LEMMA QuietPop ==
  ASSUME QueueType, QueueBounds, NEW S, LossesAre(S),
         \/ Queue!PopLoadRead
         \/ \E n \in 1..MaxPop : Queue!PopLoadWrite(n)
         \/ Queue!PopCopy
         \/ Queue!DiscardLoad
  PROVE  QueueType' /\ QueueBounds' /\ LossesAre(S)'
<1>. QueueCapacity \in Nat \ {0} /\ MaxPop \in Nat
  BY QueueConstants
<1>. USE DEF Queue!driver, Queue!history, Handed
<1>. LostCounted(S) /\ PassedExplained(S) /\ StillInRing(S) /\ CopiedRight(S)
  BY DEF LossesAre
<1>1. CASE Queue!PopLoadRead
  <2>1. /\ popStep = "load" /\ popRead' = tail /\ popStep' = "loaded"
        /\ UNCHANGED <<events, head, tail, lostEventCount, pushStep, pushRead, popCount,
                       drained, received, skipped>>
    BY <1>1 DEF Queue!PopLoadRead
  <2>2. QueueType' /\ QueueBounds'
    BY <2>1 DEF QueueType, QueueBounds
  <2>3. \A e \in 1..head : Passed(e)' => Passed(e)
    BY <2>1 DEF Passed, QueueType
  <2>4. LossesAre(S)'
    BY <2>1, <2>3 DEF LossesAre, LostCounted, PassedExplained, StillInRing, CopiedRight,
                      Pending, Explained
  <2>. QED
    BY <2>2, <2>4
<1>2. CASE \E n \in 1..MaxPop : Queue!PopLoadWrite(n)
  <2>1. PICK n \in 1..MaxPop : Queue!PopLoadWrite(n)
    BY <1>2
  <2>2. /\ popStep = "loaded" /\ popStep' = "copy"
        /\ popCount' = IF n < head - popRead THEN n ELSE head - popRead
        /\ UNCHANGED <<events, head, tail, lostEventCount, pushStep, pushRead, popRead,
                       drained, received, skipped>>
    BY <2>1 DEF Queue!PopLoadWrite, Queue!Smaller
  <2>3. popCount' \in Nat /\ popRead + popCount' <= head /\ drained = <<>>
    BY <2>2 DEF QueueType, QueueBounds
  <2>4. QueueType' /\ QueueBounds'
    BY <2>2, <2>3 DEF QueueType, QueueBounds
  <2>5. \A e \in 1..head : Passed(e)' => Passed(e)
    BY <2>2 DEF Passed, QueueType
  <2>6. LossesAre(S)'
    BY <2>2, <2>3, <2>5 DEF LossesAre, LostCounted, PassedExplained, StillInRing, CopiedRight,
                            Pending, Explained
  <2>. QED
    BY <2>4, <2>6
<1>3. CASE Queue!PopCopy
  <2>1. /\ popStep = "copy" /\ Len(drained) < popCount
        /\ drained' = Append(drained, events[Queue!Slot(popRead + Len(drained))])
        /\ UNCHANGED <<events, head, tail, lostEventCount, pushStep, pushRead, popStep, popRead,
                       popCount, received, skipped>>
    BY <1>3 DEF Queue!PopCopy
  <2>2. PICK copy : copy = events[Queue!Slot(popRead + Len(drained))]
    OBVIOUS
  <2>3. copy \in Int
    BY <2>2, QueueSlots DEF QueueType
  <2>4. /\ drained' \in Seq(Int) /\ Len(drained') = Len(drained) + 1
        /\ \A i \in 1..Len(drained) : drained'[i] = drained[i]
        /\ drained'[Len(drained) + 1] = copy
    BY <2>1, <2>2, <2>3 DEF QueueType
  <2>5. QueueType' /\ QueueBounds'
    BY <2>1, <2>4 DEF QueueType, QueueBounds
  <2>6. \A e \in 1..head : Passed(e)' => Passed(e)
    BY <2>1 DEF Passed, QueueType
  <2>7. CopiedRight(S)'
    <3>1. ASSUME NEW i \in 1..Len(drained')
          PROVE  popRead + i \in Explained(S) \/ drained'[i] = popRead + i
      <4>1. CASE i <= Len(drained)
        BY <2>1, <2>4, <4>1 DEF CopiedRight, QueueType
      <4>2. CASE i = Len(drained) + 1
        <5>1. popRead + i \in 1..head /\ (popRead + i) - 1 = popRead + Len(drained)
          BY <2>1, <4>2 DEF QueueType, QueueBounds
        <5>. QED
          BY <2>2, <2>4, <4>2, <5>1 DEF StillInRing
      <4>. QED
        BY <2>4, <4>1, <4>2 DEF QueueType
    <3>. QED
      BY <2>1, <3>1 DEF CopiedRight, Explained
  <2>8. LossesAre(S)'
    BY <2>1, <2>6, <2>7 DEF LossesAre, LostCounted, PassedExplained, StillInRing, Pending,
                            Explained
  <2>. QED
    BY <2>5, <2>8
<1>4. CASE Queue!DiscardLoad
  <2>1. /\ popStep = "load" /\ popRead' = head /\ popStep' = "discard"
        /\ UNCHANGED <<events, head, tail, lostEventCount, pushStep, pushRead, popCount,
                       drained, received, skipped>>
    BY <1>4 DEF Queue!DiscardLoad
  <2>2. QueueType' /\ QueueBounds'
    BY <2>1 DEF QueueType, QueueBounds
  <2>3. \A e \in 1..head : Passed(e)' => Passed(e)
    BY <2>1 DEF Passed, QueueType
  <2>4. LossesAre(S)'
    BY <2>1, <2>3 DEF LossesAre, LostCounted, PassedExplained, StillInRing, CopiedRight,
                      Pending, Explained
  <2>. QED
    BY <2>2, <2>4
<1>. QED
  BY <1>1, <1>2, <1>3, <1>4

\* The two stores of the consumer: what they move readPosition past is handed over or
\* discarded.
LEMMA StoringPop ==
  ASSUME QueueType, QueueBounds, NEW S, LossesAre(S), Queue!PopStore \/ Queue!DiscardStore
  PROVE  QueueType' /\ QueueBounds' /\ LossesAre(S)'
<1>. QueueCapacity \in Nat \ {0}
  BY QueueConstants
<1>. USE DEF Queue!driver, Queue!history
<1>. LostCounted(S) /\ PassedExplained(S) /\ StillInRing(S) /\ CopiedRight(S)
  BY DEF LossesAre
<1>1. CASE Queue!PopStore
  <2>1. /\ popStep = "copy" /\ Len(drained) = popCount /\ tail' = popRead + popCount
        /\ received' = received \o drained /\ drained' = <<>> /\ popStep' = "load"
        /\ UNCHANGED <<events, head, lostEventCount, pushStep, pushRead, popRead, popCount,
                       skipped>>
    BY <1>1 DEF Queue!PopStore
  <2>2. /\ received' \in Seq(Int) /\ Len(received') = Len(received) + Len(drained)
        /\ \A i \in 1..Len(received) : received'[i] = received[i]
        /\ \A i \in 1..Len(drained) : received'[Len(received) + i] = drained[i]
    BY <2>1 DEF QueueType
  <2>3. QueueType'
    BY <2>1, <2>2 DEF QueueType
  <2>4. QueueBounds'
    BY <2>1 DEF QueueType, QueueBounds
  <2>5. Handed \subseteq Handed'
    BY <2>2 DEF Handed, QueueType
  <2>6. \A i \in 1..Len(drained) : drained[i] \in Handed'
    <3>1. ASSUME NEW i \in 1..Len(drained) PROVE Len(received) + i \in 1..Len(received')
      BY <2>2 DEF QueueType
    <3>. QED
      BY <2>2, <3>1 DEF Handed
  <2>7. Explained(S) \subseteq Explained(S)'
    BY <2>1, <2>5 DEF Explained
  <2>8. PassedExplained(S)'
    <3>1. ASSUME NEW e \in 1..head, Passed(e)' PROVE e \in Explained(S)'
      <4>1. CASE Passed(e)
        BY <2>7, <4>1 DEF PassedExplained
      <4>2. CASE popRead < e /\ e <= popRead + popCount
        <5>1. e - popRead \in 1..Len(drained) /\ popRead + (e - popRead) = e
          BY <2>1, <4>2 DEF QueueType
        <5>2. e \in Explained(S) \/ drained[e - popRead] = e
          BY <2>1, <5>1 DEF CopiedRight
        <5>. QED
          BY <2>6, <2>7, <5>1, <5>2 DEF Explained
      <4>. QED
        BY <2>1, <3>1, <4>1, <4>2 DEF Passed, QueueType
    <3>. QED
      BY <2>1, <3>1 DEF PassedExplained
  <2>9. StillInRing(S)'
    BY <2>1, <2>7 DEF StillInRing
  <2>10. LossesAre(S)'
    BY <2>1, <2>8, <2>9 DEF LossesAre, LostCounted, CopiedRight, Pending
  <2>. QED
    BY <2>3, <2>4, <2>10
<1>2. CASE Queue!DiscardStore
  <2>1. /\ popStep = "discard" /\ skipped' = skipped \cup (tail + 1)..popRead
        /\ tail' = popRead /\ popStep' = "load"
        /\ UNCHANGED <<events, head, lostEventCount, pushStep, pushRead, popRead, popCount,
                       drained, received>>
    BY <1>2 DEF Queue!DiscardStore
  <2>2. QueueType' /\ QueueBounds'
    BY <2>1 DEF QueueType, QueueBounds
  <2>3. Explained(S)' = Explained(S) \cup (tail + 1)..popRead
    BY <2>1 DEF Explained, Handed
  <2>4. ASSUME NEW e \in 1..head, Passed(e)' PROVE Passed(e) \/ e \in (tail + 1)..popRead
    BY <2>1, <2>4 DEF Passed, QueueType
  <2>5. PassedExplained(S)'
    BY <2>1, <2>3, <2>4 DEF PassedExplained
  <2>6. StillInRing(S)'
    BY <2>1, <2>3 DEF StillInRing
  <2>7. LossesAre(S)'
    BY <2>1, <2>5, <2>6 DEF LossesAre, LostCounted, CopiedRight, Pending
  <2>. QED
    BY <2>2, <2>7
<1>. QED
  BY <1>1, <1>2

\* Nothing has been passed, and nothing lost, when a queue starts or is reset.
LEMMA EmptyQueue ==
  /\ QueueType /\ head = 0 /\ tail = 0 /\ lostEventCount = 0
  /\ pushStep = "load" /\ popStep = "load" /\ drained = <<>>
  => LossInv
<1>. SUFFICES ASSUME QueueType, head = 0, tail = 0, lostEventCount = 0, pushStep = "load",
                     popStep = "load", drained = <<>>
              PROVE  LossInv
  OBVIOUS
<1>1. IsFiniteSet({}) /\ Cardinality({}) = 0
  BY FS_EmptySet
<1>2. LossesAre({})
  BY <1>1 DEF LossesAre, LostCounted, PassedExplained, StillInRing, CopiedRight, Pending
<1>3. QueueBounds
  BY DEF QueueBounds
<1>. QED
  BY <1>2, <1>3 DEF LossInv

\* The queue's losses stay explained, and none of the other parts touches it.
LEMMA QueueKeepsLossInv == LossInv /\ Queue!Next => LossInv'
<1>. SUFFICES ASSUME LossInv, Queue!Next PROVE LossInv'
  OBVIOUS
<1>. USE DEF LossInv
<1>1. PICK S : LossesAre(S)
  OBVIOUS
<1>2. CASE \/ Queue!PushLoad \/ Queue!PushCount \/ Queue!PushAssign \/ Queue!PushAssigned
           \/ Queue!PushPublish
  <2>1. QueueType' /\ QueueBounds' /\ LossesAre(S)'
    BY <1>1, <1>2, QuietPush
  <2>. QED
    BY <2>1
<1>3. CASE Queue!PushDropOldest
  <2>1. QueueType' /\ QueueBounds' /\ LossesAre(S \cup {head - QueueCapacity + 1})'
    BY <1>1, <1>3, DropPush
  <2>. QED
    BY <2>1
<1>4. CASE \/ Queue!PopLoadRead \/ (\E n \in 1..MaxPop : Queue!PopLoadWrite(n))
           \/ Queue!PopCopy \/ Queue!DiscardLoad
  <2>1. QueueType' /\ QueueBounds' /\ LossesAre(S)'
    BY <1>1, <1>4, QuietPop
  <2>. QED
    BY <2>1
<1>5. CASE Queue!PopStore \/ Queue!DiscardStore
  <2>1. QueueType' /\ QueueBounds' /\ LossesAre(S)'
    BY <1>1, <1>5, StoringPop
  <2>. QED
    BY <2>1
<1>6. CASE Queue!Reset
  <2>1. (/\ head = 0 /\ tail = 0 /\ lostEventCount = 0
         /\ pushStep = "load" /\ popStep = "load" /\ drained = <<>>)'
    BY <1>6 DEF Queue!Reset, Queue!driver, Queue!drainer, QueueBounds
  <2>2. QueueType'
    BY <1>6 DEF Queue!Reset, Queue!driver, Queue!drainer, QueueType
  <2>. QED
    BY <2>1, <2>2, EmptyQueue, PTL
<1>. QED
  BY <1>2, <1>3, <1>4, <1>5, <1>6 DEF Queue!Next, Queue!Push, Queue!Pop

\* Neither the start of the other parts nor their steps touch the queue.
LEMMA QueueAlwaysExplained == MCSpec => []LossInv
<1>1. MCInit => LossInv
  <2>. SUFFICES ASSUME Queue!Init PROVE LossInv
    BY DEF MCInit
  <2>1. QueueType
    BY QueueConstants DEF Queue!Init, QueueType, Ring
  <2>. QED
    BY <2>1, EmptyQueue DEF Queue!Init
<1>2. LossInv /\ [MCNext]_<<part, vars, queue, input, keyboard, notes, tuner>> => LossInv'
  <2>1. ASSUME UNCHANGED queue, LossInv PROVE LossInv'
    <3>. USE <2>1 DEF queue
    <3>1. PICK S : LossesAre(S)
      BY DEF LossInv
    <3>2. QueueType' /\ QueueBounds'
      BY DEF LossInv, QueueType, QueueBounds
    <3>3. (LossesAre(S)' <=> LossesAre(S))
      BY DEF LossesAre, LostCounted, PassedExplained, StillInRing, CopiedRight, Passed,
             Explained, Handed, Pending
    <3>. QED
      BY <3>1, <3>2, <3>3 DEF LossInv
  <2>. QED
    BY <2>1, QueueKeepsLossInv DEF MCNext
<1>. QED
  BY <1>1, <1>2, PTL DEF MCSpec

\* Between pushes and pops no event is gone that the queue did not count ("it counts
\* what it dropped", MidiEventFifo push).
THEOREM QueueCountsItsLosses == MCSpec => []EveryLossCounted
<1>1. LossInv => EveryLossCounted
  <2>. SUFFICES ASSUME LossInv, pushStep = "load", popStep = "load"
                PROVE  Queue!Cardinality(Queue!Gone) <= lostEventCount
    BY DEF EveryLossCounted, Queue!EveryLossCounted
  <2>. QueueType
    BY DEF LossInv
  <2>1. PICK S : LossesAre(S)
    BY DEF LossInv
  <2>2. ASSUME NEW e \in Queue!Gone PROVE e \in S
    <3>1. /\ e \in 1..head /\ e \notin skipped /\ e \notin Handed
          /\ \A p \in tail..(head - 1) : events[Queue!Slot(p)] # e
      BY DEF Queue!Gone, Handed, QueueType
    <3>2. e \in Explained(S)
      <4>1. CASE Passed(e)
        BY <2>1, <3>1, <4>1 DEF LossesAre, PassedExplained
      <4>2. CASE ~Passed(e)
        <5>1. e - 1 \in tail..(head - 1)
          BY <3>1, <4>2 DEF Passed, QueueType
        <5>. QED
          BY <2>1, <3>1, <5>1 DEF LossesAre, StillInRing
      <4>. QED
        BY <4>1, <4>2
    <3>. QED
      BY <3>1, <3>2 DEF Explained
  <2>3. IsFiniteSet(S) /\ Cardinality(S) <= lostEventCount + Pending
    BY <2>1 DEF LossesAre, LostCounted
  <2>4. /\ Cardinality(Queue!Gone) \in Nat /\ Cardinality(S) \in Nat
        /\ Cardinality(Queue!Gone) <= Cardinality(S)
    <3>1. Queue!Gone \in SUBSET S
      BY <2>2
    <3>. QED
      BY <2>3, <3>1, FS_Subset, FS_CardinalityType
  <2>5. Queue!Cardinality(Queue!Gone) = Cardinality(Queue!Gone)
    BY Zenon DEF Queue!Cardinality, Cardinality
  <2>6. Pending = 0
    BY DEF Pending
  <2>. QED
    BY <2>3, <2>4, <2>5, <2>6 DEF QueueType
<1>. QED
  BY <1>1, QueueAlwaysExplained, PTL

\* As long as nothing was dropped the consumer's copy of readPosition is the queue's,
\* and all it has been handed lies below it, in order.
NothingLost == lostEventCount = 0 /\ pushStep # "count"

InOrderSoFar ==
  /\ popStep \in {"loaded", "copy"} => popRead = tail
  /\ popStep = "discard" => tail <= popRead
  /\ \A i \in 1..Len(received) : received[i] \in 1..tail
  /\ \A i, j \in 1..Len(received) : i < j => received[i] < received[j]
  /\ skipped \subseteq 1..tail

CleanInv == NothingLost => InOrderSoFar

\* With nothing lost, every event below a position is handed over or discarded.
LEMMA NothingLostExplained ==
  ASSUME LossInv, NothingLost
  PROVE  LossesAre({})
<1>1. PICK S : LossesAre(S)
  BY DEF LossInv
<1>2. Cardinality(S) \in Nat /\ Cardinality(S) <= 0 /\ IsFiniteSet(S)
  BY <1>1, FS_CardinalityType DEF LossesAre, LostCounted, NothingLost, Pending
<1>3. S = {}
  BY <1>2, FS_EmptySet
<1>. QED
  BY <1>1, <1>3

\* What is copied is what follows readPosition, until something is lost.
LEMMA QueueKeepsCleanInv == LossInv /\ CleanInv /\ Queue!Next => CleanInv'
<1>. SUFFICES ASSUME LossInv, CleanInv, Queue!Next, NothingLost' PROVE InOrderSoFar'
  BY DEF CleanInv
<1>. QueueType /\ QueueBounds
  BY DEF LossInv
<1>. USE DEF Queue!driver, Queue!drainer, Queue!history
<1>1. CASE Queue!PushDropOldest \/ Queue!PushCount
  BY <1>1 DEF Queue!PushDropOldest, Queue!PushCount, Queue!Counted, NothingLost, QueueType
<1>2. CASE Queue!PushLoad \/ Queue!PushAssign \/ Queue!PushAssigned \/ Queue!PushPublish
  <2>1. UNCHANGED <<tail, popStep, popRead, received, skipped>> /\ NothingLost
    BY <1>2 DEF Queue!PushLoad, Queue!PushAssign, Queue!PushAssigned, Queue!PushPublish,
                NothingLost
  <2>. QED
    BY <2>1 DEF CleanInv, InOrderSoFar
<1>3. CASE Queue!PopLoadRead
  BY <1>3 DEF Queue!PopLoadRead, CleanInv, NothingLost, InOrderSoFar
<1>4. CASE \E n \in 1..MaxPop : Queue!PopLoadWrite(n)
  BY <1>4 DEF Queue!PopLoadWrite, CleanInv, NothingLost, InOrderSoFar
<1>5. CASE Queue!PopCopy
  BY <1>5 DEF Queue!PopCopy, CleanInv, NothingLost, InOrderSoFar
<1>6. CASE Queue!PopStore
  <2>1. /\ popStep = "copy" /\ Len(drained) = popCount /\ tail' = popRead + popCount
        /\ received' = received \o drained /\ popStep' = "load" /\ skipped' = skipped
        /\ NothingLost
    BY <1>6 DEF Queue!PopStore, NothingLost
  <2>2. InOrderSoFar /\ popRead = tail /\ LossesAre({})
    BY <2>1, NothingLostExplained DEF CleanInv, InOrderSoFar
  <2>3. ASSUME NEW i \in 1..Len(drained) PROVE drained[i] = tail + i
    <3>1. tail + i \notin Explained({})
      BY <2>2 DEF Explained, Handed, InOrderSoFar, QueueType
    <3>. QED
      BY <2>1, <2>2, <3>1 DEF LossesAre, CopiedRight
  <2>4. /\ Len(received') = Len(received) + Len(drained)
        /\ \A i \in 1..Len(received) : received'[i] = received[i] /\ received[i] \in 1..tail
        /\ \A i \in 1..Len(received') :
             i > Len(received) => received'[i] = tail + (i - Len(received))
    <3>1. /\ Len(received') = Len(received) + Len(drained)
          /\ \A i \in 1..Len(received) : received'[i] = received[i]
          /\ \A i \in 1..Len(received') :
               i > Len(received) => received'[i] = drained[i - Len(received)]
      <4>1. received \in Seq(Int) /\ drained \in Seq(Int)
        BY DEF QueueType
      <4>2. Len(received \o drained) = Len(received) + Len(drained)
        BY <4>1
      <4>3. \A i \in 1..Len(received) : (received \o drained)[i] = received[i]
        BY <4>1
      <4>4. \A i \in 1..(Len(received) + Len(drained)) :
              i > Len(received) => (received \o drained)[i] = drained[i - Len(received)]
        BY <4>1
      <4>. QED
        BY <2>1, <4>2, <4>3, <4>4
    <3>2. ASSUME NEW i \in 1..Len(received'), i > Len(received)
          PROVE  i - Len(received) \in 1..Len(drained)
      BY <3>1, <3>2 DEF QueueType
    <3>. QED
      BY <2>2, <2>3, <3>1, <3>2 DEF InOrderSoFar
  <2>5. tail' = tail + Len(drained) /\ tail \in Nat /\ Len(received) \in Nat
        /\ Len(drained) \in Nat
    BY <2>1, <2>2 DEF QueueType
  <2>6. \A i \in 1..Len(received') : received'[i] \in 1..tail'
    BY <2>4, <2>5
  <2>7. ASSUME NEW i \in 1..Len(received'), NEW j \in 1..Len(received'), i < j
        PROVE  received'[i] < received'[j]
    <3>1. CASE j <= Len(received)
      BY <2>2, <2>4, <2>5, <2>7, <3>1 DEF InOrderSoFar
    <3>2. CASE j > Len(received) /\ i <= Len(received)
      BY <2>4, <2>5, <3>2
    <3>3. CASE i > Len(received)
      BY <2>4, <2>5, <2>7, <3>3
    <3>. QED
      BY <2>5, <3>1, <3>2, <3>3
  <2>8. skipped' \subseteq 1..tail'
    BY <2>1, <2>2, <2>5 DEF InOrderSoFar
  <2>. QED
    BY <2>1, <2>6, <2>7, <2>8 DEF InOrderSoFar
<1>7. CASE Queue!DiscardLoad
  BY <1>7 DEF Queue!DiscardLoad, CleanInv, NothingLost, InOrderSoFar, QueueBounds
<1>8. CASE Queue!DiscardStore
  <2>1. /\ popStep = "discard" /\ skipped' = skipped \cup (tail + 1)..popRead
        /\ tail' = popRead /\ popStep' = "load" /\ received' = received /\ NothingLost
    BY <1>8 DEF Queue!DiscardStore, NothingLost
  <2>2. InOrderSoFar /\ tail <= popRead /\ tail \in Nat /\ popRead \in Nat
    BY <2>1 DEF CleanInv, InOrderSoFar, QueueType
  <2>3. 1..tail \subseteq 1..popRead /\ (tail + 1)..popRead \subseteq 1..popRead
    BY <2>2
  <2>. QED
    BY <2>1, <2>2, <2>3 DEF InOrderSoFar
<1>9. CASE Queue!Reset
  BY <1>9 DEF Queue!Reset, InOrderSoFar
<1>. QED
  BY <1>1, <1>2, <1>3, <1>4, <1>5, <1>6, <1>7, <1>8, <1>9 DEF Queue!Next, Queue!Push, Queue!Pop

\* Until something is dropped the consumer gets every event it does not discard, once
\* and in order (MidiEventFifo popPending).
THEOREM QueueKeepsOrder == MCSpec => []InOrderWhileNothingLost
<1>1. MCInit => CleanInv
  BY DEF MCInit, Queue!Init, CleanInv, InOrderSoFar
<1>2. LossInv /\ CleanInv /\ [MCNext]_<<part, vars, queue, input, keyboard, notes, tuner>>
        => CleanInv'
  <2>1. UNCHANGED queue /\ CleanInv => CleanInv'
    BY DEF queue, CleanInv, NothingLost, InOrderSoFar
  <2>. QED
    BY <2>1, QueueKeepsCleanInv DEF MCNext
<1>3. LossInv /\ CleanInv => InOrderWhileNothingLost
  <2>. SUFFICES ASSUME LossInv, CleanInv, NothingLost
                PROVE  /\ \A i, j \in DOMAIN received : i < j => received[i] < received[j]
                       /\ \A i \in DOMAIN received : \A e \in (1..received[i]) \ skipped :
                            \E j \in DOMAIN received : received[j] = e
    BY DEF InOrderWhileNothingLost, Queue!InOrderWhileNothingLost, NothingLost
  <2>1. InOrderSoFar /\ LossesAre({}) /\ DOMAIN received = 1..Len(received) /\ tail \in Nat
        /\ head \in Nat /\ tail <= head
    BY NothingLostExplained DEF CleanInv, LossInv, QueueType, QueueBounds
  <2>2. ASSUME NEW i \in DOMAIN received, NEW e \in (1..received[i]) \ skipped
        PROVE  e \in Handed
    <3>1. received[i] \in 1..tail
      BY <2>1 DEF InOrderSoFar
    <3>2. e \in 1..head /\ e <= tail
      BY <2>1, <3>1
    <3>. QED
      BY <2>1, <3>2 DEF LossesAre, PassedExplained, Passed, Explained
  <2>. QED
    BY <2>1, <2>2 DEF InOrderSoFar, Handed
<1>. QED
  BY <1>1, <1>2, <1>3, QueueAlwaysExplained, PTL DEF MCSpec

-----------------------------------------------------------------------------
(* The notes of the MIDI page.  The batch a refresh reads is a fold over    *)
(* its events: what the fold keeps is shown along the events it has seen.   *)

\* A set of naturals that is not empty has a least element: what is left of the naturals
\* up to its elements is finite, and strict inclusion well-founded.
LEMMA LeastExists ==
  ASSUME NEW S \in SUBSET Nat, S # {}
  PROVE  \E m \in S : \A k \in S : m <= k
<1> DEFINE UpTo(m) == 0..m
           T == {UpTo(m) : m \in S}
<1>1. T \subseteq FiniteSubsetsOf(Nat) /\ T # {}
  <2>1. \A m \in S : IsFiniteSet(UpTo(m)) /\ UpTo(m) \subseteq Nat
    BY FS_Interval
  <2>. QED
    BY <2>1 DEF FiniteSubsetsOf
<1>2. \E x \in T : \A y \in T : <<y, x>> \notin StrictSubsetOrdering(Nat)
  BY <1>1, FS_StrictSubsetOrderingWellFounded, WFMin
<1>3. PICK m \in S : \A k \in S : <<UpTo(k), UpTo(m)>> \notin StrictSubsetOrdering(Nat)
  BY <1>2
<1>4. ASSUME NEW k \in S, k < m PROVE FALSE
  <2>1. UpTo(k) \subseteq Nat /\ UpTo(m) \subseteq Nat /\ UpTo(k) \subseteq UpTo(m)
    BY <1>4
  <2>2. m \in UpTo(m) /\ m \notin UpTo(k)
    BY <1>4
  <2>. HIDE DEF UpTo
  <2>3. <<UpTo(k), UpTo(m)>> \in StrictSubsetOrdering(Nat)
    BY <2>1, <2>2 DEF StrictSubsetOrdering
  <2>. QED
    BY <2>3, <1>3
<1>. QED
  BY <1>4

\* Induction over a set of naturals.
LEMMA Induction ==
  ASSUME NEW S, 0 \in S, \A n \in Nat : n \in S => n + 1 \in S
  PROVE  Nat \subseteq S
<1>1. SUFFICES ASSUME Nat \ S # {} PROVE FALSE
  OBVIOUS
<1>2. PICK m \in Nat \ S : \A k \in Nat \ S : m <= k
  BY <1>1, LeastExists
<1>3. m # 0 /\ m - 1 \in Nat /\ m - 1 \in S
  BY <1>2
<1>. QED
  BY <1>3

LEMMA GreatestExists ==
  ASSUME NEW n \in Nat, NEW S \in SUBSET (1..n), S # {}
  PROVE  Notes!Max(S) \in S /\ \A y \in S : Notes!Max(S) >= y
<1> DEFINE Below == {n - k : k \in S}
<1>1. Below \in SUBSET Nat /\ Below # {}
  <2>1. \A k \in S : n - k \in Nat
    OBVIOUS
  <2>. QED
    BY <2>1
<1>2. PICK b \in Below : \A k \in Below : b <= k
  BY <1>1, LeastExists
<1>3. PICK m \in S : b = n - m
  BY <1>2
<1>4. \A y \in S : m >= y
  <2>. SUFFICES ASSUME NEW y \in S PROVE m >= y
    OBVIOUS
  <2>1. n - y \in Below /\ m \in Nat /\ y \in Nat
    OBVIOUS
  <2>. QED
    BY <1>2, <1>3, <2>1
<1>. QED
  BY <1>4 DEF Notes!Max

\* The fold of SequencesExt, over the first n events.
Folding(g, base, batch, n) ==
  g = [s \in SUBSET (1..n) |->
         IF s = {} THEN base
         ELSE LET newest == Notes!Max(s) IN Notes!consume(g[s \ {newest}], batch[newest])]

LEMMA GreatestOf ==
  ASSUME NEW n \in Nat
  PROVE  /\ Notes!Max(1..(n + 1)) = n + 1
         /\ \A s \in SUBSET (1..n) : s # {} => Notes!Max(s) \in s
         /\ \A s \in SUBSET (1..(n + 1)) : n + 1 \in s => Notes!Max(s) = n + 1
<1>1. \A s \in SUBSET (1..n) : s # {} => Notes!Max(s) \in s
  BY GreatestExists
<1>2. ASSUME NEW s \in SUBSET (1..(n + 1)), n + 1 \in s PROVE Notes!Max(s) = n + 1
  <2>1. n + 1 \in Nat /\ s # {}
    BY <1>2
  <2>2. Notes!Max(s) \in s /\ \A y \in s : Notes!Max(s) >= y
    BY <2>1, GreatestExists
  <2>3. Notes!Max(s) \in 1..(n + 1) /\ Notes!Max(s) >= n + 1
    BY <1>2, <2>2
  <2>. QED
    BY <2>3
<1>3. n + 1 \in 1..(n + 1)
  OBVIOUS
<1>. QED
  BY <1>1, <1>2, <1>3

LEMMA FoldExists ==
  ASSUME NEW base, NEW batch
  PROVE  \A n \in Nat : \E g : Folding(g, base, batch, n)
<1> DEFINE S == {n \in Nat : \E g : Folding(g, base, batch, n)}
           Value(g, s) == IF s = {} THEN base
                          ELSE Notes!consume(g[s \ {Notes!Max(s)}], batch[Notes!Max(s)])
<1>1. 0 \in S
  <2>1. Folding([s \in SUBSET (1..0) |-> base], base, batch, 0)
    BY DEF Folding
  <2>. QED
    BY <2>1
<1>2. ASSUME NEW n \in Nat, n \in S PROVE n + 1 \in S
  <2>1. PICK f : Folding(f, base, batch, n)
    BY <1>2
  <2> DEFINE g == [s \in SUBSET (1..(n + 1)) |->
                     IF n + 1 \in s THEN Notes!consume(f[s \ {n + 1}], batch[n + 1]) ELSE f[s]]
  <2>2. \A s \in SUBSET (1..n) : f[s] = Value(f, s)
    BY <2>1 DEF Folding
  <2>3. \A s \in SUBSET (1..(n + 1)) :
          /\ n + 1 \notin s => s \in SUBSET (1..n)
          /\ s \ {n + 1} \in SUBSET (1..n)
    OBVIOUS
  <2>4. \A s \in SUBSET (1..n) : s \in SUBSET (1..(n + 1)) /\ n + 1 \notin s /\ g[s] = f[s]
    OBVIOUS
  <2>. HIDE DEF Value
  <2>5. ASSUME NEW s \in SUBSET (1..(n + 1)) PROVE g[s] = Value(g, s)
    <3>1. CASE n + 1 \in s
      <4>1. Notes!Max(s) = n + 1
        BY <3>1, GreatestOf
      <4>2. g[s] = Notes!consume(f[s \ {n + 1}], batch[n + 1])
        BY <3>1
      <4>3. g[s \ {n + 1}] = f[s \ {n + 1}]
        BY <2>3, <2>4
      <4>. HIDE DEF g
      <4>. QED
        BY <3>1, <4>1, <4>2, <4>3 DEF Value
    <3>2. CASE n + 1 \notin s
      <4>1. s \in SUBSET (1..n) /\ g[s] = f[s] /\ f[s] = Value(f, s)
        BY <2>2, <2>3, <2>4, <3>2
      <4>2. s # {} => Notes!Max(s) \in s
        BY <4>1, GreatestOf
      <4>3. s \ {Notes!Max(s)} \in SUBSET (1..n)
        BY <4>1
      <4>4. g[s \ {Notes!Max(s)}] = f[s \ {Notes!Max(s)}]
        BY <2>4, <4>3
      <4>. HIDE DEF g
      <4>. QED
        BY <4>1, <4>4 DEF Value
    <3>. QED
      BY <3>1, <3>2
  <2>6. g = [s \in SUBSET (1..(n + 1)) |-> Value(g, s)]
    BY <2>5
  <2>7. Folding(g, base, batch, n + 1)
    BY <2>6 DEF Folding, Value
  <2>. QED
    BY <2>7
<1>. HIDE DEF S
<1>3. Nat \subseteq S
  BY <1>1, <1>2, Induction
<1>. QED
  BY <1>3 DEF S

\* The tracker after a batch.
Consumed(base, batch) == Notes!FoldLeft(Notes!consume, base, batch)

\* It is reached event by event.
LEMMA BatchConsumed ==
  ASSUME NEW n \in Nat, NEW batch, DOMAIN batch = 1..n, NEW base
  PROVE  \E f : /\ f[0] = base
                /\ \A i \in 0..(n - 1) : f[i + 1] = Notes!consume(f[i], batch[i + 1])
                /\ Consumed(base, batch) = f[n]
<1>1. PICK g : /\ Folding(g, base, batch, n)
               /\ Consumed(base, batch) = g[1..n]
  <2>1. \E h : Folding(h, base, batch, n)
    BY FoldExists
  <2>. QED
    BY <2>1 DEF Folding, Consumed, Notes!FoldLeft, Notes!MapThenFoldSet
<1> DEFINE f == [i \in 0..n |-> g[1..i]]
<1>2. f[0] = base
  <2>1. {} \in SUBSET (1..n) /\ 1..0 = {}
    OBVIOUS
  <2>. QED
    BY <1>1, <2>1 DEF Folding
<1>3. ASSUME NEW i \in 0..(n - 1) PROVE f[i + 1] = Notes!consume(f[i], batch[i + 1])
  <2>1. /\ i \in Nat /\ 1..(i + 1) \in SUBSET (1..n) /\ 1..(i + 1) # {}
        /\ (1..(i + 1)) \ {i + 1} = 1..i
        /\ i \in 0..n /\ i + 1 \in 0..n
    OBVIOUS
  <2>2. Notes!Max(1..(i + 1)) = i + 1
    BY <2>1, GreatestOf
  <2>3. g[1..(i + 1)] = Notes!consume(g[1..i], batch[i + 1])
    BY <1>1, <2>1, <2>2 DEF Folding
  <2>. QED
    BY <2>1, <2>3
<1>4. f[n] = g[1..n]
  OBVIOUS
<1>. HIDE DEF f
<1>. QED
  BY <1>1, <1>2, <1>3, <1>4

-----------------------------------------------------------------------------
(* The notes of the page.  While no loss is unseen by the page, everything *)
(* the tracker holds, and every event still queued, came after the latest  *)
(* dropped event.                                                          *)

Places == Positions \cup {0, 1}

NoteEvents ==
  [kind : {"noteOn", "noteOff", "sustainPedal"}, position : Places, n : Nat, from : Nat]

Sounding ==
  [state : {"silent", "keyDown", "awaitingPedalRelease"}, since : Nat, from : Nat]

EndedNotes == [since : Nat, from : Nat, until : Nat, to : Nat, measured : BOOLEAN]

Trackers == [slot : Sounding, pedal : Places \cup {Notes!Unknown}, ended : SUBSET EndedNotes]

\* What tracker s holds began after event d.
BegunAfter(d, s) ==
  /\ s.slot.state # "silent" => s.slot.since > d
  /\ \A note \in s.ended : note.since > d

TrackerNow == [slot |-> keyState, pedal |-> pedal, ended |-> ended]

\* What is queued: events in the order of their delivery, all after the latest drop.
Queued(batch) ==
  /\ batch \in Seq(NoteEvents)
  /\ \A i \in 1..Len(batch) : droppedAt < batch[i].n /\ batch[i].n <= messages
  /\ \A i, j \in 1..Len(batch) : i < j => batch[i].n < batch[j].n

NotesInv ==
  /\ connection \in Nat /\ connections \in Nat
  /\ messages \in Nat /\ droppedAt \in Nat /\ droppedAt <= messages
  /\ lost \in Nat /\ lastLost \in Nat /\ lastLost <= lost
  /\ Queued(fifo)
  /\ TrackerNow \in Trackers
  /\ lost = lastLost => BegunAfter(droppedAt, TrackerNow)

LEMMA CloseKeeps ==
  ASSUME NEW d \in Int, NEW s \in Trackers, BegunAfter(d, s), s.slot.state # "silent",
         NEW e \in NoteEvents, NEW measured \in BOOLEAN
  PROVE  Notes!close(s, e, measured) \in Trackers /\ BegunAfter(d, Notes!close(s, e, measured))
<1> DEFINE note == [since |-> s.slot.since, from |-> s.slot.from, until |-> e.n, to |-> e.from,
                    measured |-> measured]
<1>1. /\ s = [slot |-> s.slot, pedal |-> s.pedal, ended |-> s.ended]
      /\ s.slot \in Sounding /\ s.pedal \in Places \cup {Notes!Unknown}
      /\ s.ended \subseteq EndedNotes
  BY DEF Trackers
<1>2. note \in EndedNotes /\ note.since > d
  BY <1>1 DEF Sounding, EndedNotes, NoteEvents, BegunAfter
<1>3. Notes!close(s, e, measured)
        = [slot |-> Notes!Silent, pedal |-> s.pedal, ended |-> s.ended \cup {note}]
  <2>1. Notes!close(s, e, measured)
          = [s EXCEPT !.slot = Notes!Silent, !.ended = s.ended \cup {note}]
    BY <1>1 DEF Notes!close
  <2>. HIDE DEF note
  <2>. QED
    BY <2>1 DEF Trackers
<1>4. Notes!Silent \in Sounding /\ Notes!Silent.state = "silent"
  BY DEF Notes!Silent, Notes!None, Sounding
<1>. HIDE DEF note
<1>. QED
  BY <1>1, <1>2, <1>3, <1>4 DEF Trackers, BegunAfter

\* No event makes the tracker forget when what it holds began.
LEMMA ConsumeKeeps ==
  ASSUME NEW d \in Int, NEW s \in Trackers, BegunAfter(d, s), NEW e \in NoteEvents, e.n > d
  PROVE  Notes!consume(s, e) \in Trackers /\ BegunAfter(d, Notes!consume(s, e))
<1>1. /\ s = [slot |-> s.slot, pedal |-> s.pedal, ended |-> s.ended]
      /\ s.slot \in Sounding /\ s.pedal \in Places \cup {Notes!Unknown}
      /\ s.ended \subseteq EndedNotes
  BY DEF Trackers
<1>2. ASSUME NEW t \in Trackers, BegunAfter(d, t)
      PROVE  LET held == [t EXCEPT !.slot = [state |-> "keyDown", since |-> e.n,
                                             from |-> e.from]]
             IN held \in Trackers /\ BegunAfter(d, held)
  BY <1>2 DEF Trackers, BegunAfter, Sounding, NoteEvents
<1>3. CASE e.kind = "noteOn"
  <2>1. CASE s.slot.state = "silent"
    BY <1>2, <1>3, <2>1 DEF Notes!consume, Notes!noteOn
  <2>2. CASE s.slot.state # "silent"
    <3>1. /\ Notes!close(s, e, TRUE) \in Trackers
          /\ BegunAfter(d, Notes!close(s, e, TRUE))
      BY <2>2, CloseKeeps
    <3>. QED
      BY <1>2, <1>3, <2>2, <3>1 DEF Notes!consume, Notes!noteOn
  <2>. QED
    BY <2>1, <2>2
<1>4. CASE e.kind = "noteOff"
  <2>1. Notes!consume(s, e) = Notes!noteOff(s, e)
    BY <1>4 DEF Notes!consume
  <2>2. CASE s.slot.state # "keyDown"
    BY <2>1, <2>2 DEF Notes!noteOff
  <2>3. CASE s.slot.state = "keyDown" /\ s.pedal # Notes!Unknown /\ s.pedal >= threshold
    <3>1. Notes!noteOff(s, e) = [s EXCEPT !.slot.state = "awaitingPedalRelease"]
      BY <2>3 DEF Notes!noteOff
    <3>. QED
      BY <1>1, <2>1, <2>3, <3>1 DEF Trackers, BegunAfter, Sounding
  <2>4. CASE /\ s.slot.state = "keyDown"
             /\ ~(s.pedal # Notes!Unknown /\ s.pedal >= threshold)
    <3>1. Notes!noteOff(s, e) = Notes!close(s, e, s.pedal # Notes!Unknown)
      BY <2>4 DEF Notes!noteOff
    <3>2. (s.pedal # Notes!Unknown) \in BOOLEAN
      OBVIOUS
    <3>3. /\ Notes!close(s, e, s.pedal # Notes!Unknown) \in Trackers
          /\ BegunAfter(d, Notes!close(s, e, s.pedal # Notes!Unknown))
      BY <2>4, <3>2, CloseKeeps
    <3>. QED
      BY <2>1, <3>1, <3>3
  <2>. QED
    BY <2>2, <2>3, <2>4
<1>5. CASE e.kind = "sustainPedal"
  <2>1. ASSUME NEW t \in Trackers, BegunAfter(d, t)
        PROVE  /\ [t EXCEPT !.pedal = e.position] \in Trackers
               /\ BegunAfter(d, [t EXCEPT !.pedal = e.position])
    BY <2>1 DEF Trackers, BegunAfter, NoteEvents
  <2>2. CASE e.position < threshold /\ s.slot.state = "awaitingPedalRelease"
    <3>1. /\ Notes!close(s, e, TRUE) \in Trackers
          /\ BegunAfter(d, Notes!close(s, e, TRUE))
      BY <2>2, CloseKeeps
    <3>. QED
      BY <1>5, <2>1, <2>2, <3>1 DEF Notes!consume, Notes!pedalMoved
  <2>3. CASE ~(e.position < threshold /\ s.slot.state = "awaitingPedalRelease")
    BY <1>5, <2>1, <2>3 DEF Notes!consume, Notes!pedalMoved
  <2>. QED
    BY <2>2, <2>3
<1>. QED
  BY <1>3, <1>4, <1>5 DEF NoteEvents

\* So no batch does.
LEMMA BatchKeeps ==
  ASSUME NEW d \in Int, NEW s \in Trackers, BegunAfter(d, s),
         NEW batch \in Seq(NoteEvents), \A i \in 1..Len(batch) : batch[i].n > d
  PROVE  /\ Consumed(s, batch) \in Trackers
         /\ BegunAfter(d, Consumed(s, batch))
<1>. DEFINE n == Len(batch)
<1>1. n \in Nat /\ DOMAIN batch = 1..n
  OBVIOUS
<1>. HIDE DEF n
<1>2. PICK f : /\ f[0] = s
               /\ \A i \in 0..(n - 1) : f[i + 1] = Notes!consume(f[i], batch[i + 1])
               /\ Consumed(s, batch) = f[n]
  BY <1>1, BatchConsumed
<1>. USE DEF n
<1>. DEFINE S == {i \in Nat : i <= n => f[i] \in Trackers /\ BegunAfter(d, f[i])}
<1>3. 0 \in S
  BY <1>2
<1>4. ASSUME NEW i \in Nat, i \in S PROVE i + 1 \in S
  <2>1. CASE i + 1 > n
    BY <1>1, <2>1
  <2>2. CASE i + 1 <= n
    <3>1. i \in 0..(n - 1) /\ i + 1 \in 1..n /\ i <= n
      BY <1>1, <2>2
    <3>2. f[i] \in Trackers /\ BegunAfter(d, f[i])
      BY <1>4, <3>1
    <3>3. batch[i + 1] \in NoteEvents /\ batch[i + 1].n > d
      BY <3>1
    <3>4. /\ Notes!consume(f[i], batch[i + 1]) \in Trackers
          /\ BegunAfter(d, Notes!consume(f[i], batch[i + 1]))
      BY <3>2, <3>3, ConsumeKeeps
    <3>. QED
      BY <1>2, <3>1, <3>4
  <2>. QED
    BY <1>1, <2>1, <2>2
<1>5. Nat \subseteq S
  <2>. HIDE DEF S
  <2>. QED
    BY <1>3, <1>4, Induction
<1>6. n \in S
  BY <1>1, <1>5
<1>. QED
  BY <1>1, <1>2, <1>6

\* A message that is an event of the stream is one the tracker knows.
LEMMA TranslatedKnown ==
  ASSUME NEW m \in Notes!Messages, NEW kind \in Notes!Translate(m)
  PROVE  kind \in {"noteOn", "noteOff", "sustainPedal"} /\ m.second \in Places
<1>1. m.second \in Places
  BY DEF Notes!Messages, Places
<1>2. kind \in {"noteOn", "noteOff", "sustainPedal"}
  <2>1. CASE m.status = "noteOn"
    BY <2>1 DEF Notes!Translate
  <2>2. CASE m.status = "noteOff"
    BY <2>2 DEF Notes!Translate
  <2>3. CASE m.status = "sustain"
    BY <2>3 DEF Notes!Translate
  <2>4. CASE m.status \notin {"noteOn", "noteOff", "sustain"}
    BY <2>4 DEF Notes!Translate
  <2>. QED
    BY <2>1, <2>2, <2>3, <2>4
<1>. QED
  BY <1>1, <1>2

LEMMA NotesConstants == FifoCapacity \in Nat \ {0} /\ BatchSize \in Nat
<1>1. Notes!NotesAssumption
  BY InputPathAssumption
<1>. QED
  BY <1>1 DEF Notes!NotesAssumption

\* Events arrive behind what is queued, and the oldest makes room for them.
LEMMA DeliverKeeps ==
  ASSUME NotesInv, NEW m \in Notes!Messages, Notes!DeliverMessage(m)
  PROVE  NotesInv'
<1>1. PICK kind \in Notes!Translate(m) :
        LET event == [kind |-> kind, position |-> m.second, n |-> messages + 1,
                      from |-> connection]
            full == Len(fifo) = FifoCapacity
        IN /\ fifo' = Append(IF full THEN Tail(fifo) ELSE fifo, event)
           /\ lost' = IF full THEN lost + 1 ELSE lost
           /\ droppedAt' = IF full THEN Head(fifo).n ELSE droppedAt
  BY DEF Notes!DeliverMessage
<1>. DEFINE event == [kind |-> kind, position |-> m.second, n |-> messages + 1,
                      from |-> connection]
<1>2. /\ messages' = messages + 1
      /\ UNCHANGED <<connection, connections, keyState, pedal, ended, lastLost>>
  BY DEF Notes!DeliverMessage, Notes!device, Notes!tracker, Notes!view
<1>3. /\ messages \in Nat /\ droppedAt \in Nat /\ droppedAt <= messages /\ connection \in Nat
      /\ fifo \in Seq(NoteEvents)
      /\ \A i \in 1..Len(fifo) : droppedAt < fifo[i].n /\ fifo[i].n <= messages
      /\ \A i, j \in 1..Len(fifo) : i < j => fifo[i].n < fifo[j].n
  BY DEF NotesInv, Queued
<1>4. event \in NoteEvents /\ event.n = messages + 1
  BY <1>3, TranslatedKnown DEF NoteEvents
<1>. HIDE DEF event
<1>5. ASSUME NEW batch \in Seq(NoteEvents), NEW d \in Nat, d <= messages,
             \A i \in 1..Len(batch) : d < batch[i].n /\ batch[i].n <= messages,
             \A i, j \in 1..Len(batch) : i < j => batch[i].n < batch[j].n,
             fifo' = Append(batch, event), droppedAt' = d
      PROVE  Queued(fifo)'
  <2>1. /\ fifo' \in Seq(NoteEvents) /\ Len(fifo') = Len(batch) + 1
        /\ \A i \in 1..Len(batch) : fifo'[i] = batch[i]
        /\ fifo'[Len(batch) + 1] = event
    BY <1>4, <1>5
  <2>2. \A i \in 1..Len(batch) : batch[i].n \in Nat
    <3>1. \A i \in 1..Len(batch) : batch[i] \in NoteEvents
      OBVIOUS
    <3>. QED
      BY <3>1 DEF NoteEvents
  <2>3. \A i \in 1..Len(fifo') : i \in 1..Len(batch) \/ i = Len(batch) + 1
    BY <2>1
  <2>4. \A i \in 1..Len(fifo') : d < fifo'[i].n /\ fifo'[i].n <= messages + 1
    BY <1>3, <1>4, <1>5, <2>1, <2>2, <2>3
  <2>5. ASSUME NEW i \in 1..Len(fifo'), NEW j \in 1..Len(fifo'), i < j
        PROVE  fifo'[i].n < fifo'[j].n
    <3>1. i \in 1..Len(batch)
      BY <2>1, <2>5
    <3>. QED
      BY <1>3, <1>4, <1>5, <2>1, <2>2, <2>3, <2>5, <3>1
  <2>. QED
    BY <1>2, <1>5, <2>1, <2>4, <2>5 DEF Queued
<1>6. CASE Len(fifo) # FifoCapacity
  <2>1. fifo' = Append(fifo, event) /\ lost' = lost /\ droppedAt' = droppedAt
    BY <1>1, <1>6 DEF event
  <2>2. Queued(fifo)'
    BY <1>3, <1>5, <2>1
  <2>. QED
    BY <1>2, <2>1, <2>2 DEF NotesInv, TrackerNow
<1>7. CASE Len(fifo) = FifoCapacity
  <2>1. /\ fifo' = Append(Tail(fifo), event) /\ lost' = lost + 1
        /\ droppedAt' = Head(fifo).n
    BY <1>1, <1>7 DEF event
  <2>2. fifo # <<>> /\ Len(fifo) >= 1 /\ Head(fifo) = fifo[1] /\ Head(fifo) \in NoteEvents
    BY <1>3, <1>7, NotesConstants
  <2>3. /\ Tail(fifo) \in Seq(NoteEvents) /\ Len(Tail(fifo)) = Len(fifo) - 1
        /\ \A i \in 1..Len(Tail(fifo)) : Tail(fifo)[i] = fifo[i + 1] /\ i + 1 \in 1..Len(fifo)
    BY <1>3, <2>2
  <2>4. /\ \A i \in 1..Len(Tail(fifo)) :
             Head(fifo).n < Tail(fifo)[i].n /\ Tail(fifo)[i].n <= messages
        /\ \A i, j \in 1..Len(Tail(fifo)) : i < j => Tail(fifo)[i].n < Tail(fifo)[j].n
    <3>1. 1 \in 1..Len(fifo)
      BY <2>2
    <3>. QED
      BY <1>3, <2>2, <2>3, <3>1
  <2>5. Head(fifo).n \in Nat /\ Head(fifo).n <= messages
    BY <1>3, <2>2 DEF NoteEvents
  <2>6. Queued(fifo)'
    BY <1>5, <2>1, <2>3, <2>4, <2>5
  <2>7. lost' # lastLost' /\ lost' \in Nat /\ lastLost' <= lost'
    BY <1>2, <2>1 DEF NotesInv
  <2>. QED
    BY <1>2, <1>3, <2>1, <2>5, <2>6, <2>7 DEF NotesInv, TrackerNow
<1>. QED
  BY <1>6, <1>7

\* A refresh takes the oldest events and leaves the others as they stood.
LEMMA ReadKeeps ==
  ASSUME NotesInv, Notes!ReadEvents
  PROVE  NotesInv'
<1>. DEFINE count == IF Len(fifo) < BatchSize THEN Len(fifo) ELSE BatchSize
            batch == SubSeq(fifo, 1, count)
            rest == SubSeq(fifo, count + 1, Len(fifo))
            after == Consumed(TrackerNow, batch)
<1>1. /\ fifo' = rest /\ keyState' = after.slot /\ pedal' = after.pedal /\ ended' = after.ended
      /\ UNCHANGED <<connection, connections, messages, droppedAt, lost, lastLost>>
  BY DEF Notes!ReadEvents, Notes!device, TrackerNow, Consumed
<1>2. /\ fifo \in Seq(NoteEvents) /\ count \in 0..Len(fifo) /\ Len(fifo) \in Nat
      /\ \A i \in 1..Len(fifo) : droppedAt < fifo[i].n /\ fifo[i].n <= messages
      /\ \A i, j \in 1..Len(fifo) : i < j => fifo[i].n < fifo[j].n
      /\ droppedAt \in Nat /\ TrackerNow \in Trackers
  BY NotesConstants, SMTT(30) DEF NotesInv, Queued
<1>. HIDE DEF count
<1>3. /\ batch \in Seq(NoteEvents) /\ Len(batch) = count
      /\ \A i \in 1..count : batch[i] = fifo[i] /\ i \in 1..Len(fifo)
  BY <1>2
<1>4. /\ rest \in Seq(NoteEvents) /\ Len(rest) = Len(fifo) - count
      /\ \A i \in 1..Len(rest) : rest[i] = fifo[i + count] /\ i + count \in 1..Len(fifo)
  BY <1>2
<1>0. Len(batch) \in Nat /\ Len(rest) \in Nat /\ count \in Nat
  BY <1>2, <1>3, <1>4
<1>. HIDE DEF batch, rest
<1>5. Queued(fifo)'
  <2>1. \A i \in 1..Len(rest) : droppedAt < rest[i].n /\ rest[i].n <= messages
    <3>. SUFFICES ASSUME NEW i \in 1..Len(rest)
                  PROVE  droppedAt < rest[i].n /\ rest[i].n <= messages
      OBVIOUS
    <3>1. rest[i] = fifo[i + count] /\ i + count \in 1..Len(fifo)
      BY <1>4
    <3>. QED
      BY <1>2, <3>1
  <2>2. ASSUME NEW i \in 1..Len(rest), NEW j \in 1..Len(rest), i < j
        PROVE  rest[i].n < rest[j].n
    <3>1. i + count < j + count
      BY <1>0, <2>2
    <3>2. /\ rest[i] = fifo[i + count] /\ i + count \in 1..Len(fifo)
          /\ rest[j] = fifo[j + count] /\ j + count \in 1..Len(fifo)
      BY <1>4
    <3>. QED
      BY <1>2, <3>1, <3>2
  <2>. QED
    BY <1>1, <1>4, <2>1, <2>2 DEF Queued
\* Every event came after event -1.
<1>6. BegunAfter(-1, TrackerNow) /\ \A i \in 1..Len(batch) : batch[i].n > -1
  <2>1. \A i \in 1..Len(batch) : batch[i] \in NoteEvents
    BY <1>3
  <2>2. BegunAfter(-1, TrackerNow)
    <3>1. keyState \in Sounding /\ ended \subseteq EndedNotes
      BY <1>2 DEF TrackerNow, Trackers
    <3>2. \A note \in ended : note.since > -1
      BY <3>1 DEF EndedNotes
    <3>. QED
      BY <3>1, <3>2 DEF TrackerNow, BegunAfter, Sounding
  <2>. QED
    BY <2>1, <2>2 DEF NoteEvents
<1>7. after \in Trackers
  <2>1. -1 \in Int /\ TrackerNow \in Trackers /\ batch \in Seq(NoteEvents)
    BY <1>2, <1>3
  <2>2. BegunAfter(-1, TrackerNow) /\ \A i \in 1..Len(batch) : batch[i].n > -1
    BY <1>6
  <2>. QED
    BY <2>1, <2>2, BatchKeeps
<1>8. lost = lastLost => after \in Trackers /\ BegunAfter(droppedAt, after)
  <2>1. \A i \in 1..Len(batch) : batch[i].n > droppedAt
    BY <1>2, <1>3 DEF NoteEvents
  <2>. QED
    BY <1>2, <1>3, <2>1, BatchKeeps DEF NotesInv
<1>. HIDE DEF after
<1>9. TrackerNow' = after
  BY <1>1, <1>7 DEF TrackerNow, Trackers
<1>. QED
  BY <1>1, <1>5, <1>7, <1>8, <1>9 DEF NotesInv

LEMMA SilentTracker ==
  ASSUME NEW d \in Int
  PROVE  LET silent == [slot |-> Notes!Silent, pedal |-> Notes!Unknown, ended |-> {}]
         IN silent \in Trackers /\ BegunAfter(d, silent)
BY DEF Notes!Silent, Notes!None, Trackers, Sounding, BegunAfter

\* The other steps of the page and the service leave the queue, or empty it, and leave
\* the tracker, or silence it.
LEMMA PageKeeps ==
  ASSUME NotesInv,
         \/ \E opened \in BOOLEAN :
              \/ Notes!SelectDevice(opened)
              \/ Notes!Reconnect(opened) /\ UNCHANGED Notes!view
         \/ Notes!OpenPage \/ Notes!ClosePage \/ Notes!ForgetOldStream \/ Notes!Look
         \/ \E value \in Thresholds : Notes!SetPedalThreshold(value)
  PROVE  NotesInv'
<1>. USE DEF Notes!device, Notes!stream, Notes!tracker, Notes!view, Notes!None
<1>1. Queued(<<>>)
  BY DEF Queued
<1>2. CASE \E opened \in BOOLEAN :
             \/ Notes!SelectDevice(opened)
             \/ Notes!Reconnect(opened) /\ UNCHANGED Notes!view
  BY <1>2 DEF Notes!SelectDevice, Notes!Reconnect, NotesInv, Queued, TrackerNow
<1>3. CASE Notes!OpenPage
  <2>1. /\ TrackerNow' = [slot |-> Notes!Silent, pedal |-> Notes!Unknown, ended |-> {}]
        /\ fifo' = <<>> /\ lost' = 0 /\ lastLost' = 0 /\ droppedAt' = 0
        /\ UNCHANGED <<connection, connections, messages>>
    BY <1>3 DEF Notes!OpenPage, Notes!invalidate, TrackerNow
  <2>2. Queued(fifo)'
    BY <2>1 DEF Queued
  <2>3. droppedAt' \in Int
    BY <2>1
  <2>4. TrackerNow' \in Trackers /\ BegunAfter(droppedAt', TrackerNow')
    BY <2>1, <2>3, SilentTracker
  <2>. QED
    BY <2>1, <2>2, <2>4 DEF NotesInv
<1>4. CASE Notes!ClosePage
  <2>1. /\ TrackerNow' = [TrackerNow EXCEPT !.ended = {}]
        /\ UNCHANGED <<fifo, lost, lastLost, droppedAt, connection, connections, messages>>
    BY <1>4 DEF Notes!ClosePage, TrackerNow
  <2>2. Queued(fifo)'
    BY <2>1 DEF Queued, NotesInv
  <2>. QED
    BY <2>1, <2>2 DEF NotesInv, Trackers, BegunAfter
<1>5. CASE Notes!ForgetOldStream
  <2>1. /\ TrackerNow' = [slot |-> Notes!Silent, pedal |-> Notes!Unknown, ended |-> {}]
        /\ fifo' = <<>>
        /\ UNCHANGED <<lost, lastLost, droppedAt, connection, connections, messages>>
    BY <1>5 DEF Notes!ForgetOldStream, Notes!invalidate, TrackerNow
  <2>2. Queued(fifo)'
    BY <2>1 DEF Queued, NotesInv
  <2>3. droppedAt \in Int
    BY DEF NotesInv
  <2>4. TrackerNow' \in Trackers /\ BegunAfter(droppedAt, TrackerNow')
    BY <2>1, <2>3, SilentTracker
  <2>. QED
    BY <2>1, <2>2, <2>4 DEF NotesInv
<1>6. CASE Notes!Look
  <2>1. /\ lastLost' = lost
        /\ UNCHANGED <<fifo, lost, droppedAt, connection, connections, messages>>
    BY <1>6 DEF Notes!Look
  <2>2. Queued(fifo)'
    BY <2>1 DEF Queued, NotesInv
  <2>3. CASE Notes!untrusted
    <3>1. TrackerNow' = [slot |-> Notes!Silent, pedal |-> Notes!Unknown, ended |-> {}]
      BY <1>6, <2>3 DEF Notes!Look, Notes!invalidate, TrackerNow
    <3>. QED
      BY <2>1, <2>2, <3>1, SilentTracker DEF NotesInv
  <2>4. CASE ~Notes!untrusted
    <3>1. TrackerNow' = [TrackerNow EXCEPT !.ended = {}]
      BY <1>6, <2>4 DEF Notes!Look, TrackerNow
    <3>2. lost = lastLost
      BY <2>4 DEF Notes!untrusted, NotesInv
    <3>. QED
      BY <2>1, <2>2, <3>1, <3>2 DEF NotesInv, Trackers, BegunAfter
  <2>. QED
    BY <2>3, <2>4
<1>7. CASE \E value \in Thresholds : Notes!SetPedalThreshold(value)
  BY <1>7 DEF Notes!SetPedalThreshold, NotesInv, Queued, TrackerNow
<1>. QED
  BY <1>2, <1>3, <1>4, <1>5, <1>6, <1>7

LEMMA NotesAlwaysAfter == MCSpec => []NotesInv
<1>1. MCInit => NotesInv
  <2>. SUFFICES ASSUME MCInit PROVE NotesInv
    OBVIOUS
  <2>1. /\ connection = 0 /\ connections = 0 /\ lastLost = 0 /\ lost = 0 /\ messages = 0
        /\ droppedAt = 0 /\ fifo = <<>>
        /\ TrackerNow = [slot |-> Notes!Silent, pedal |-> Notes!Unknown, ended |-> {}]
    BY DEF MCInit, Notes!Init, Notes!None, TrackerNow
  <2>2. Queued(fifo)
    BY <2>1 DEF Queued
  <2>3. droppedAt \in Int
    BY <2>1
  <2>4. TrackerNow \in Trackers /\ BegunAfter(droppedAt, TrackerNow)
    BY <2>1, <2>3, SilentTracker
  <2>. QED
    BY <2>1, <2>2, <2>4 DEF NotesInv
<1>2. NotesInv /\ [MCNext]_<<part, vars, queue, input, keyboard, notes, tuner>> => NotesInv'
  <2>. SUFFICES ASSUME NotesInv, [MCNext]_<<part, vars, queue, input, keyboard, notes, tuner>>
                PROVE  NotesInv'
    OBVIOUS
  <2>1. CASE Notes!Next
    BY <2>1, DeliverKeeps, ReadKeeps, PageKeeps DEF Notes!Next
  <2>2. CASE UNCHANGED notes
    BY <2>2 DEF notes, NotesInv, Queued, TrackerNow
  <2>. QED
    BY <2>1, <2>2 DEF MCNext
<1>. QED
  BY <1>1, <1>2, PTL DEF MCSpec

\* A length is shown only of a note whose events were all seen: no event was dropped
\* between its beginning and its end (the page's timerCallback: "whatever was lost
\* happened before it").
THEOREM NotesLoseNothing == MCSpec => []NoLossInsideAMeasurement
<1>1. NotesInv => NoLossInsideAMeasurement
  <2>. SUFFICES ASSUME NotesInv, lost = lastLost, NEW note \in ended
                PROVE  ~(note.since < droppedAt)
    BY DEF NoLossInsideAMeasurement, Notes!NoLossInsideAMeasurement
  <2>1. note \in EndedNotes /\ note.since > droppedAt /\ droppedAt \in Nat
    BY DEF NotesInv, TrackerNow, Trackers, BegunAfter
  <2>. QED
    BY <2>1 DEF EndedNotes
<1>. QED
  BY <1>1, NotesAlwaysAfter, PTL

-----------------------------------------------------------------------------
(* The tuner.                                                               *)

LEMMA GreatestNumber ==
  ASSUME NEW n \in Nat
  PROVE  /\ Tuner!Max(1..(n + 1)) = n + 1
         /\ \A s \in SUBSET (1..n) : s # {} => Tuner!Max(s) \in s
         /\ \A s \in SUBSET (1..(n + 1)) : n + 1 \in s => Tuner!Max(s) = n + 1
<1>1. \A s : Tuner!Max(s) = Notes!Max(s)
  BY DEF Tuner!Max, Notes!Max
<1>. QED
  BY <1>1, GreatestOf

\* The sum of the first n of a sequence, as the fold of SequencesExt takes it.
Summing(g, s, n) ==
  g = [x \in SUBSET (1..n) |->
         IF x = {} THEN 0 ELSE LET newest == Tuner!Max(x) IN g[x \ {newest}] + s[newest]]

LEMMA SumExists ==
  ASSUME NEW s
  PROVE  \A n \in Nat : \E g : Summing(g, s, n)
<1> DEFINE S == {n \in Nat : \E g : Summing(g, s, n)}
           Value(g, x) == IF x = {} THEN 0 ELSE g[x \ {Tuner!Max(x)}] + s[Tuner!Max(x)]
<1>1. 0 \in S
  <2>1. Summing([x \in SUBSET (1..0) |-> 0], s, 0)
    BY DEF Summing
  <2>. QED
    BY <2>1
<1>2. ASSUME NEW n \in Nat, n \in S PROVE n + 1 \in S
  <2>1. PICK f : Summing(f, s, n)
    BY <1>2
  <2> DEFINE g == [x \in SUBSET (1..(n + 1)) |->
                     IF n + 1 \in x THEN f[x \ {n + 1}] + s[n + 1] ELSE f[x]]
  <2>2. \A x \in SUBSET (1..n) : f[x] = Value(f, x)
    BY <2>1 DEF Summing
  <2>3. \A x \in SUBSET (1..(n + 1)) :
          /\ n + 1 \notin x => x \in SUBSET (1..n)
          /\ x \ {n + 1} \in SUBSET (1..n)
    OBVIOUS
  <2>4. \A x \in SUBSET (1..n) : x \in SUBSET (1..(n + 1)) /\ n + 1 \notin x /\ g[x] = f[x]
    OBVIOUS
  <2>. HIDE DEF Value
  <2>5. ASSUME NEW x \in SUBSET (1..(n + 1)) PROVE g[x] = Value(g, x)
    <3>1. CASE n + 1 \in x
      <4>1. Tuner!Max(x) = n + 1
        BY <3>1, GreatestNumber
      <4>2. g[x] = f[x \ {n + 1}] + s[n + 1]
        BY <3>1
      <4>3. g[x \ {n + 1}] = f[x \ {n + 1}]
        BY <2>3, <2>4
      <4>. HIDE DEF g
      <4>. QED
        BY <3>1, <4>1, <4>2, <4>3 DEF Value
    <3>2. CASE n + 1 \notin x
      <4>1. x \in SUBSET (1..n) /\ g[x] = f[x] /\ f[x] = Value(f, x)
        BY <2>2, <2>3, <2>4, <3>2
      <4>2. x # {} => Tuner!Max(x) \in x
        BY <4>1, GreatestNumber
      <4>3. x \ {Tuner!Max(x)} \in SUBSET (1..n)
        BY <4>1
      <4>4. g[x \ {Tuner!Max(x)}] = f[x \ {Tuner!Max(x)}]
        BY <2>4, <4>3
      <4>. HIDE DEF g
      <4>. QED
        BY <4>1, <4>4 DEF Value
    <3>. QED
      BY <3>1, <3>2
  <2>6. g = [x \in SUBSET (1..(n + 1)) |-> Value(g, x)]
    BY <2>5
  <2>7. Summing(g, s, n + 1)
    BY <2>6 DEF Summing, Value
  <2>. QED
    BY <2>7
<1>. HIDE DEF S
<1>3. Nat \subseteq S
  BY <1>1, <1>2, Induction
<1>. QED
  BY <1>3 DEF S

\* The sum a mean is taken of is reached number by number.
LEMMA MeanIsOfASum ==
  ASSUME NEW s \in Seq(Int)
  PROVE  \E f : /\ f[0] = 0
                /\ \A i \in 0..(Len(s) - 1) : f[i + 1] = f[i] + s[i + 1]
                /\ Tuner!Mean(s) = f[Len(s)] \div Len(s)
<1> DEFINE n == Len(s)
<1>0. n \in Nat /\ DOMAIN s = 1..n
  OBVIOUS
<1>1. PICK g : /\ Summing(g, s, n)
               /\ Tuner!Mean(s) = g[1..n] \div n
  <2>1. \E h : Summing(h, s, n)
    BY <1>0, SumExists
  <2>. HIDE DEF n
  <2>2. Len(s) = n
    BY DEF n
  <2>. QED
    BY <2>1, <2>2, <1>0 DEF Summing, Tuner!Mean, Tuner!FoldLeft, Tuner!MapThenFoldSet
<1>. HIDE DEF n
<1> DEFINE f == [i \in 0..n |-> g[1..i]]
<1>2. f[0] = 0
  <2>1. {} \in SUBSET (1..n) /\ 1..0 = {}
    OBVIOUS
  <2>. QED
    BY <1>0, <1>1, <2>1 DEF Summing
<1>3. ASSUME NEW i \in 0..(n - 1) PROVE f[i + 1] = f[i] + s[i + 1]
  <2>0. i \in Nat /\ i \in 0..n /\ i + 1 \in 0..n
    BY <1>0
  <2>1. /\ 1..(i + 1) \in SUBSET (1..n) /\ 1..(i + 1) # {}
        /\ (1..(i + 1)) \ {i + 1} = 1..i
    <3>1. n \in Nat /\ i \in Nat /\ i + 1 <= n
      BY <1>0, <2>0
    <3>2. \A k \in 1..(i + 1) : k \in 1..n
      BY <3>1
    <3>3. i + 1 \in 1..(i + 1)
      BY <3>1
    <3>4. (1..(i + 1)) \ {i + 1} = 1..i
      BY <3>1
    <3>. QED
      BY <3>2, <3>3, <3>4
  <2>2. Tuner!Max(1..(i + 1)) = i + 1
    BY <2>0, GreatestNumber
  <2>3. g[1..(i + 1)] = g[1..i] + s[i + 1]
    BY <1>1, <2>1, <2>2 DEF Summing
  <2>. QED
    BY <2>0, <2>3
<1>4. f[n] = g[1..n]
  BY <1>0
<1>. HIDE DEF f
<1>5. Len(s) = n
  BY DEF n
<1>. QED
  BY <1>1, <1>2, <1>3, <1>4, <1>5

\* A product over its second factor.
LEMMA QuotientOfProduct ==
  ASSUME NEW n \in Nat \ {0}, NEW f \in Int
  PROVE  (n * f) \div n = f
OBVIOUS

\* The mean of numbers is one, and that of equal numbers their value.
LEMMA MeanOf ==
  ASSUME NEW s \in Seq(Int), s # <<>>
  PROVE  /\ Tuner!Mean(s) \in Int
         /\ \A f \in Int : (\A i \in 1..Len(s) : s[i] = f) => Tuner!Mean(s) = f
<1> DEFINE n == Len(s)
<1>0. n \in Nat \ {0} /\ \A i \in 1..n : s[i] \in Int
  OBVIOUS
<1>1. PICK g : /\ g[0] = 0
               /\ \A i \in 0..(n - 1) : g[i + 1] = g[i] + s[i + 1]
               /\ Tuner!Mean(s) = g[n] \div n
  BY MeanIsOfASum
<1>. HIDE DEF n
<1>2. \A i \in 0..n : g[i] \in Int
  <2> DEFINE S == {i \in Nat : i <= n => g[i] \in Int}
  <2>1. 0 \in S
    BY <1>1
  <2>2. ASSUME NEW i \in Nat, i \in S PROVE i + 1 \in S
    <3>1. CASE i + 1 <= n
      <4>1. i \in 0..(n - 1) /\ g[i] \in Int /\ s[i + 1] \in Int
        BY <1>0, <2>2, <3>1
      <4>. QED
        BY <1>1, <4>1
    <3>. QED
      BY <3>1, <1>0
  <2>. HIDE DEF S
  <2>3. Nat \subseteq S
    BY <2>1, <2>2, Induction
  <2>. QED
    BY <2>3, <1>0 DEF S
<1>3. Tuner!Mean(s) \in Int
  BY <1>0, <1>1, <1>2
<1>4. ASSUME NEW f \in Int, \A i \in 1..n : s[i] = f PROVE Tuner!Mean(s) = f
  <2> DEFINE S == {i \in Nat : i <= n => g[i] = i * f}
  <2>1. 0 \in S
    BY <1>1
  <2>2. ASSUME NEW i \in Nat, i \in S PROVE i + 1 \in S
    <3>1. CASE i + 1 <= n
      <4>1. i \in 0..(n - 1) /\ g[i] = i * f /\ s[i + 1] = f
        BY <1>0, <1>4, <2>2, <3>1
      <4>2. g[i + 1] = i * f + f
        BY <1>1, <4>1
      <4>3. (i + 1) * f = i * f + f
        OBVIOUS
      <4>. QED
        BY <4>2, <4>3
    <3>. QED
      BY <3>1, <1>0
  <2>. HIDE DEF S
  <2>3. Nat \subseteq S
    BY <2>1, <2>2, Induction
  <2>4. g[n] = n * f
    BY <2>3, <1>0 DEF S
  <2>. QED
    BY <1>0, <1>1, <2>4, QuotientOfProduct
<1>. QED
  BY <1>3, <1>4 DEF n

-----------------------------------------------------------------------------
(* Easing.                                                                  *)

\* What easing leaves of a distance.
LeftOf(d, easing) == d - (d * easing + 99) \div 100

LEMMA EasingCloses ==
  ASSUME NEW easing \in 1..100, NEW d \in Nat
  PROVE  LeftOf(d, easing) \in 0..d
<1> DEFINE x == d * easing
           q == (x + 99) \div 100
<1>1. x \in Nat /\ x <= 100 * d
  <2>1. 0 <= d /\ 0 <= easing /\ easing <= 100 /\ d \in Int /\ easing \in Int
    OBVIOUS
  <2>2. d * easing \in Int
    BY <2>1
  <2>3. d * (100 - easing) >= 0 /\ d * easing >= 0
    BY <2>1
  <2>4. d * (100 - easing) = 100 * d - d * easing
    BY <2>1
  <2>. QED
    BY <2>1, <2>2, <2>3, <2>4
<1>. HIDE DEF x
<1>2. q \in 0..d
  BY <1>1
<1>. HIDE DEF q
<1>3. LeftOf(d, easing) = d - q
  BY DEF LeftOf, q, x
<1>. QED
  BY <1>2, <1>3

\* The nearer pitch stays the nearer one.
LEMMA EasingKeepsOrder ==
  ASSUME NEW easing \in 1..100, NEW c \in Nat, NEW d \in 0..c
  PROVE  LeftOf(d, easing) <= LeftOf(c, easing)
<1> DEFINE x == d * easing
           y == c * easing
<1>1. x \in Int /\ y \in Int /\ y <= x + 100 * (c - d)
  <2>1. d \in Int /\ c \in Int /\ easing \in Int /\ 0 <= c - d /\ 0 <= 100 - easing
    OBVIOUS
  <2>2. (c - d) * (100 - easing) >= 0
    BY <2>1
  <2>3. (c - d) * (100 - easing) = 100 * (c - d) - (c * easing - d * easing)
    BY <2>1
  <2>4. c * easing \in Int /\ d * easing \in Int
    BY <2>1
  <2>. QED
    BY <2>1, <2>2, <2>3, <2>4
<1>2. LeftOf(d, easing) = d - (x + 99) \div 100 /\ LeftOf(c, easing) = c - (y + 99) \div 100
  BY DEF LeftOf
<1>. HIDE DEF x, y
<1>. QED
  BY <1>1, <1>2

Eases(g, easing, n) ==
  g = [i \in 0..n |-> IF i = 0 THEN Tuner!Jump ELSE g[i - 1] - (g[i - 1] * easing + 99) \div 100]

LEMMA ClosingExists ==
  ASSUME NEW easing
  PROVE  \A n \in Nat : \E g : Eases(g, easing, n)
<1> DEFINE S == {n \in Nat : \E g : Eases(g, easing, n)}
           Next_(d) == d - (d * easing + 99) \div 100
<1>1. 0 \in S
  <2>1. Eases([i \in 0..0 |-> Tuner!Jump], easing, 0)
    BY DEF Eases
  <2>. QED
    BY <2>1
<1>2. ASSUME NEW n \in Nat, n \in S PROVE n + 1 \in S
  <2>1. PICK f : Eases(f, easing, n)
    BY <1>2
  <2> DEFINE g == [i \in 0..(n + 1) |-> IF i = n + 1 THEN Next_(f[n]) ELSE f[i]]
  <2>. HIDE DEF Next_
  <2>2. \A i \in 0..n : f[i] = IF i = 0 THEN Tuner!Jump ELSE Next_(f[i - 1])
    BY <2>1 DEF Eases, Next_
  <2>3. \A i \in 0..n : g[i] = f[i]
    OBVIOUS
  <2>4. g[n + 1] = Next_(f[n])
    OBVIOUS
  <2>5. g = [i \in 0..(n + 1) |-> g[i]]
    OBVIOUS
  <2>. HIDE DEF g
  <2>6. ASSUME NEW i \in 0..(n + 1) PROVE g[i] = IF i = 0 THEN Tuner!Jump ELSE Next_(g[i - 1])
    <3>1. CASE i = n + 1
      <4>1. i - 1 = n /\ i # 0 /\ n \in 0..n
        BY <3>1
      <4>. QED
        BY <3>1, <4>1, <2>3, <2>4
    <3>2. CASE i # n + 1
      <4>1. i \in 0..n /\ (i # 0 => i - 1 \in 0..n)
        BY <3>2
      <4>. QED
        BY <4>1, <2>2, <2>3
    <3>. QED
      BY <3>1, <3>2
  <2>7. g = [i \in 0..(n + 1) |-> IF i = 0 THEN Tuner!Jump ELSE Next_(g[i - 1])]
    BY <2>5, <2>6
  <2>8. Eases(g, easing, n + 1)
    BY <2>7 DEF Eases, Next_
  <2>. QED
    BY <2>8
<1>. HIDE DEF S
<1>3. Nat \subseteq S
  BY <1>1, <1>2, Induction
<1>. QED
  BY <1>3 DEF S

\* What is left of a distance after each further reading.
LEMMA ClosingNarrows ==
  ASSUME Tuner!TunerAssumption, NEW preset \in Presets
  PROVE  LET c == Tuner!Closing(preset)
         IN  /\ c[0] = Tuner!Jump
             /\ \A i \in 0..Settling : c[i] \in 0..Tuner!Jump
             /\ \A i \in 1..Settling : c[i] = LeftOf(c[i - 1], preset.easing) /\ c[i] <= c[i - 1]
<1> DEFINE c == Tuner!Closing(preset)
           e == preset.easing
<1>0. Settling \in Nat /\ Tuner!Jump \in Nat /\ e \in 1..100
  BY DEF Tuner!TunerAssumption, Tuner!Jump
<1>1. c = [i \in 0..Settling |-> IF i = 0 THEN Tuner!Jump ELSE c[i - 1] - (c[i - 1] * e + 99) \div 100]
  <2>1. \E g : Eases(g, e, Settling)
    BY <1>0, ClosingExists
  <2>. QED
    BY <2>1 DEF Eases, Tuner!Closing
<1>. HIDE DEF c, e
<1>2. c[0] = Tuner!Jump /\ \A i \in 1..Settling : c[i] = LeftOf(c[i - 1], e)
  BY <1>0, <1>1 DEF LeftOf
<1>3. \A i \in 0..Settling : c[i] \in 0..Tuner!Jump
  <2> DEFINE S == {i \in Nat : i <= Settling => c[i] \in 0..Tuner!Jump}
  <2>1. 0 \in S
    BY <1>0, <1>2
  <2>2. ASSUME NEW i \in Nat, i \in S PROVE i + 1 \in S
    <3>1. CASE i + 1 <= Settling
      <4>1. c[i] \in 0..Tuner!Jump /\ i + 1 \in 1..Settling /\ (i + 1) - 1 = i
        BY <1>0, <2>2, <3>1
      <4>2. c[i] \in Nat
        BY <4>1, <1>0
      <4>3. LeftOf(c[i], e) \in 0..c[i]
        BY <1>0, <4>2, EasingCloses
      <4>4. c[i + 1] = LeftOf(c[i], e)
        BY <1>2, <4>1
      <4>. QED
        BY <1>0, <4>1, <4>3, <4>4
    <3>. QED
      BY <3>1, <1>0
  <2>. HIDE DEF S
  <2>3. Nat \subseteq S
    BY <2>1, <2>2, Induction
  <2>. QED
    BY <2>3, <1>0 DEF S
<1>4. \A i \in 1..Settling : c[i] <= c[i - 1]
  <2>. TAKE i \in 1..Settling
  <2>1. i - 1 \in 0..Settling /\ c[i - 1] \in Nat
    BY <1>0, <1>3
  <2>2. LeftOf(c[i - 1], e) \in 0..c[i - 1]
    BY <1>0, <2>1, EasingCloses
  <2>. QED
    BY <1>2, <2>1, <2>2
<1>. QED
  BY <1>2, <1>3, <1>4 DEF c, e

\* smoothFrequency takes the pitch as far towards a reading.
LEMMA EasedDistance ==
  ASSUME Tuner!TunerAssumption, settings \in Presets, NEW from \in Int, NEW to \in Int
  PROVE  /\ Tuner!Eased(from, to) \in Int
         /\ from # Tuner!NoPitch =>
              Tuner!Distance(Tuner!Eased(from, to), to) = LeftOf(Tuner!Distance(from, to), settings.easing)
         /\ from = Tuner!NoPitch \/ from = to => Tuner!Eased(from, to) = to
<1> DEFINE d == Tuner!Distance(from, to)
           q == (d * settings.easing + 99) \div 100
<1>1. d \in Nat /\ settings.easing \in 1..100
  BY DEF Tuner!Distance, Tuner!TunerAssumption
<1>2. LeftOf(d, settings.easing) \in 0..d /\ LeftOf(d, settings.easing) = d - q
  BY <1>1, EasingCloses DEF LeftOf
<1>3. d * settings.easing \in Int /\ q \in Int
  BY <1>1
<1>4. /\ to >= from => d = to - from
      /\ to < from => d = from - to
  BY DEF Tuner!Distance
<1>5. Tuner!Eased(from, to) = IF from = Tuner!NoPitch THEN to ELSE IF to >= from THEN from + q ELSE from - q
  BY <1>4 DEF Tuner!Eased
<1>. HIDE DEF d, q
<1>6. q \in 0..d
  BY <1>1, <1>2, <1>3
<1>7. Tuner!Distance(Tuner!Eased(from, to), to) = IF from = Tuner!NoPitch THEN 0 ELSE d - q
  BY <1>1, <1>4, <1>5, <1>6 DEF Tuner!Distance
<1>8. from = to => d = 0
  BY <1>4
<1>. QED
  BY <1>1, <1>2, <1>4, <1>5, <1>6, <1>7, <1>8 DEF d

-----------------------------------------------------------------------------
(* What the tracker keeps of the newest readings.                           *)

\* The last k of a sequence are f.
EndsWith(s, k, f) == \A i \in 1..Len(s) : i > Len(s) - k => s[i] = f

LEMMA NewestOf ==
  ASSUME NEW s \in Seq(Int), s # <<>>, NEW n \in Nat \ {0}
  PROVE  /\ Tuner!Newest(s, n) \in Seq(Int) /\ Tuner!Newest(s, n) # <<>>
         /\ \A k \in Nat, f \in Int : EndsWith(s, k, f) => EndsWith(Tuner!Newest(s, n), k, f)
         /\ \A k \in Nat, f \in Int : EndsWith(s, k, f) /\ n <= k =>
              \A i \in 1..Len(Tuner!Newest(s, n)) : Tuner!Newest(s, n)[i] = f
<1> DEFINE a == IF Len(s) > n THEN Len(s) - n + 1 ELSE 1
           t == Tuner!Newest(s, n)
<1>1. Len(s) \in Nat \ {0} /\ \A i \in 1..Len(s) : s[i] \in Int
  OBVIOUS
<1>2. a \in 1..Len(s)
  BY <1>1
<1>3. t = SubSeq(s, a, Len(s))
  BY DEF Tuner!Newest
<1>. HIDE DEF a, t
<1>4. /\ t \in Seq(Int) /\ Len(t) = Len(s) - a + 1
      /\ \A i \in 1..Len(t) : t[i] = s[a + i - 1]
  <2>1. \A i \in a..Len(s) : s[i] \in Int
    BY <1>1, <1>2
  <2>. QED
    BY <1>1, <1>2, <1>3, <2>1
<1>5. t # <<>>
  BY <1>1, <1>2, <1>4
<1>6. \A i \in 1..Len(t) : a + i - 1 \in 1..Len(s)
  BY <1>1, <1>2, <1>4
<1>7. ASSUME NEW k \in Nat, NEW f \in Int, EndsWith(s, k, f) PROVE EndsWith(t, k, f)
  <2>1. \A i \in 1..Len(t) : i > Len(t) - k => a + i - 1 > Len(s) - k
    BY <1>1, <1>2, <1>4
  <2>. QED
    BY <1>4, <1>6, <1>7, <2>1 DEF EndsWith
<1>8. ASSUME NEW k \in Nat, NEW f \in Int, EndsWith(s, k, f), n <= k
      PROVE  \A i \in 1..Len(t) : t[i] = f
  <2>1. \A i \in 1..Len(t) : a + i - 1 > Len(s) - k
    BY <1>1, <1>2, <1>4, <1>8 DEF a
  <2>. QED
    BY <1>4, <1>6, <1>8, <2>1 DEF EndsWith
<1>. QED
  BY <1>4, <1>5, <1>7, <1>8 DEF t

LEMMA OneMoreAtTheEnd ==
  ASSUME NEW s \in Seq(Int), NEW k \in Nat, NEW f \in Int, EndsWith(s, k, f)
  PROVE  /\ Append(s, f) \in Seq(Int) /\ Append(s, f) # <<>>
         /\ EndsWith(Append(s, f), k + 1, f)
<1> DEFINE t == Append(s, f)
<1>1. /\ t \in Seq(Int) /\ Len(t) = Len(s) + 1 /\ Len(s) \in Nat
      /\ t[Len(s) + 1] = f /\ \A i \in 1..Len(s) : t[i] = s[i]
  OBVIOUS
<1>. HIDE DEF t
<1>2. t # <<>>
  BY <1>1
<1>3. ASSUME NEW i \in 1..Len(t), i > Len(t) - (k + 1) PROVE t[i] = f
  <2>1. CASE i = Len(s) + 1
    BY <1>1, <2>1
  <2>2. CASE i # Len(s) + 1
    <3>1. i \in 1..Len(s) /\ i > Len(s) - k
      BY <1>1, <1>3, <2>2
    <3>. QED
      BY <1>1, <3>1 DEF EndsWith
  <2>. QED
    BY <2>1, <2>2
<1>. QED
  BY <1>1, <1>2, <1>3 DEF t, EndsWith

-----------------------------------------------------------------------------
(* The tracker.                                                             *)

TunerType ==
  /\ window \subseteq Pitches /\ latest \in Pitches \cup {Tuner!NoPitch} /\ settings \in Presets
  /\ recent \in Seq(Int) /\ smoothed \in Int /\ locked \in Int
  /\ pending \in [pitch : Int, frames : 0..(Tuner!ConfirmationFrames - 1)]
  /\ silentFrames \in Nat
  /\ same \in [pitch : Pitches \cup {Tuner!NoPitch}, frames : 0..Settling]

\* After k readings of silence: the note is forgotten, or they have been counted.
SilenceCounted(k) ==
  \/ locked = Tuner!NoPitch
  \/ silentFrames >= k /\ (k >= 2 => silentFrames < settings.dropout)

\* After k readings of f that are taken over: they are what is averaged, and once nothing
\* else is, the distance closes. (The sliders may have moved after the first of them.)
Followed(f, k) ==
  /\ recent # <<>> /\ EndsWith(recent, k, f)
  /\ k >= Tuner!Filling(settings) =>
       Tuner!Distance(smoothed, f) <= Tuner!Closing(settings)[k - Tuner!Filling(settings) + 1]
  /\ k >= 2 => Tuner!Distance(locked, smoothed) <= settings.noteSwitch \/ locked = Tuner!Nearest(smoothed)

\* After k readings of f that are suspected: all but those the average was filled with count.
Suspecting(f, k) ==
  /\ ~Tuner!Near(f)
  /\ pending.frames >= 1 /\ k - pending.frames < Tuner!Filling(settings)
  /\ Tuner!Distance(f, pending.pitch) <= Tuner!MatchingTolerance

Standing(f, k) ==
  k >= 1 => IF f = Tuner!NoPitch THEN SilenceCounted(k) ELSE Followed(f, k) \/ Suspecting(f, k)

TunerInv == TunerType /\ Standing(same.pitch, same.frames)

\* The count of equal readings after one more, up to the bound.
Counted(k, j) == j \in 1..Settling /\ (j = k + 1 \/ j = k)

LEMMA SettlingIsEnough ==
  ASSUME Tuner!TunerAssumption, NEW preset \in Presets
  PROVE  /\ Tuner!Filling(preset) \in Nat /\ Tuner!Filling(preset) >= 2
         /\ preset.averaging \in Nat \ {0} /\ preset.averaging <= Tuner!Filling(preset)
         /\ Settling \in Nat /\ Settling >= Tuner!Filling(preset) + 3
         /\ Settling >= preset.dropout /\ preset.dropout \in Nat /\ preset.noteSwitch \in Nat
         /\ Tuner!Jump \in Nat /\ Tuner!MatchingTolerance \in Nat /\ AverageWindow \in Nat \ {0}
BY DEF Tuner!TunerAssumption, Tuner!Filling, Tuner!ConfirmationFrames, Tuner!Jump, Tuner!MatchingTolerance

LEMMA DistanceOf ==
  ASSUME NEW p \in Int, NEW q \in Int
  PROVE  /\ Tuner!Distance(p, q) \in Nat /\ Tuner!Distance(p, q) = Tuner!Distance(q, p)
         /\ Tuner!Distance(p, q) = 0 => p = q
         /\ Tuner!Distance(p, p) = 0
BY DEF Tuner!Distance

LEMMA MissingKeeps ==
  ASSUME Tuner!TunerAssumption, TunerType, UNCHANGED settings, Tuner!Missing,
         NEW k \in Nat, NEW j, Counted(k, j), Standing(Tuner!NoPitch, k)
  PROVE  SilenceCounted(j)'
<1>1. CASE silentFrames + 1 >= settings.dropout /\ Tuner!Forget
  BY <1>1 DEF Tuner!Forget, SilenceCounted
<1>2. CASE /\ silentFrames + 1 < settings.dropout
           /\ silentFrames' = silentFrames + 1 /\ pending' = Tuner!NothingPending
           /\ UNCHANGED <<recent, smoothed, locked>>
  <2>1. silentFrames \in Nat /\ j \in Nat /\ settings.dropout \in Nat
    BY SettlingIsEnough DEF TunerType, Counted
  <2>2. CASE locked = Tuner!NoPitch
    BY <1>2, <2>2 DEF SilenceCounted
  <2>3. CASE locked # Tuner!NoPitch
    <3>1. silentFrames >= k
      BY <2>1, <2>3 DEF Standing, SilenceCounted
    <3>. QED
      BY <1>2, <2>1, <3>1 DEF SilenceCounted, Counted
  <2>. QED
    BY <2>2, <2>3
<1>. QED
  BY <1>1, <1>2 DEF Tuner!Missing

\* A reading that is drawn into the mean of a suspected jump is no farther from it.
LEMMA DrawnNearer ==
  ASSUME Tuner!TunerAssumption, pending \in [pitch : Int, frames : 0..(Tuner!ConfirmationFrames - 1)],
         NEW f \in Int
  PROVE  /\ Tuner!Suspected(f) \in [pitch : Int, frames : 1..Tuner!ConfirmationFrames]
         /\ ~Tuner!Confirmed(f) => Tuner!Distance(f, Tuner!Suspected(f).pitch) <= Tuner!MatchingTolerance
         /\ pending.frames >= 1 /\ Tuner!Distance(f, pending.pitch) <= Tuner!MatchingTolerance =>
              Tuner!Suspected(f).frames = pending.frames + 1
<1> DEFINE p == pending.pitch
           n == pending.frames + 1
           x == f - p
           q == (2 * (f - p) + n) \div (2 * n)
<1>1. p \in Int /\ n \in 1..4 /\ pending.frames = n - 1 /\ x \in Int
  BY DEF Tuner!ConfirmationFrames
<1>2. Tuner!MatchingTolerance \in Nat
  BY DEF Tuner!TunerAssumption, Tuner!MatchingTolerance
<1>3. CASE pending.frames = 0 \/ Tuner!Distance(f, p) > Tuner!MatchingTolerance
  <2>1. Tuner!Suspected(f) = [pitch |-> f, frames |-> 1]
    BY <1>3 DEF Tuner!Suspected
  <2>2. Tuner!Distance(f, f) = 0
    BY DistanceOf
  <2>3. Tuner!Distance(f, p) \in Nat
    BY <1>1, DistanceOf
  <2>. QED
    BY <1>2, <1>3, <2>1, <2>2, <2>3 DEF Tuner!ConfirmationFrames
<1>4. CASE ~(pending.frames = 0 \/ Tuner!Distance(f, p) > Tuner!MatchingTolerance)
  <2>1. Tuner!Suspected(f) = [pitch |-> p + q, frames |-> n]
    BY <1>4 DEF Tuner!Suspected, Tuner!Drawn
  <2>2. n \in 2..4
    BY <1>1, <1>4
  <2>3. q \in Int
    BY <1>1, <2>2
  <2>4. ~Tuner!Confirmed(f) => n \in {2, 3}
    BY <2>1, <2>2 DEF Tuner!Confirmed, Tuner!ConfirmationFrames
  <2>5. n \in {2, 3} => IF x >= 0 THEN q \in 0..x ELSE q \in x..0
    <3>1. n = 2 => q = (2 * x + 2) \div 4
      OBVIOUS
    <3>2. n = 3 => q = (2 * x + 3) \div 6
      OBVIOUS
    <3>. HIDE DEF n, x, q
    <3>. QED
      BY <1>1, <3>1, <3>2
  <2>6. Tuner!Distance(f, p) <= Tuner!MatchingTolerance
    BY <1>1, <1>2, <1>4, DistanceOf
  <2>7. f = p + x
    BY <1>1
  <2>8. Tuner!Suspected(f).pitch = p + q /\ Tuner!Suspected(f).frames = n
    BY <2>1
  <2>9. Tuner!Suspected(f) \in [pitch : Int, frames : 1..Tuner!ConfirmationFrames]
    BY <1>1, <2>1, <2>2, <2>3 DEF Tuner!ConfirmationFrames
  <2>. HIDE DEF q, x, p, n
  <2>10. n \in {2, 3} => Tuner!Distance(f, p + q) <= Tuner!Distance(f, p)
    BY <1>1, <2>3, <2>5, <2>7 DEF Tuner!Distance
  <2>11. n \in {2, 3} => Tuner!Distance(f, p + q) <= Tuner!MatchingTolerance
    <3>0. p + q \in Int
      BY <1>1, <2>3
    <3>1. Tuner!Distance(f, p + q) \in Nat /\ Tuner!Distance(f, p) \in Nat
      BY <1>1, <3>0, DistanceOf
    <3>. QED
      BY <1>2, <2>6, <2>10, <3>1
  <2>. QED
    BY <1>1, <2>4, <2>8, <2>9, <2>11
<1>. QED
  BY <1>3, <1>4

LEMMA SuspectKeeps ==
  ASSUME Tuner!TunerAssumption, TunerType, UNCHANGED settings, NEW f \in Pitches,
         ~Tuner!Near(f), ~Tuner!Confirmed(f), Tuner!Suspect(f),
         NEW k \in 0..Settling, NEW j, Counted(k, j), Standing(f, k)
  PROVE  Suspecting(f, j)' /\ pending' \in [pitch : Int, frames : 0..(Tuner!ConfirmationFrames - 1)]
<1>1. f \in Int /\ f # Tuner!NoPitch
  BY DEF Tuner!TunerAssumption, Tuner!NoPitch
<1>2. settings \in Presets /\ j \in Nat /\ j <= k + 1 /\ k \in Nat
  BY SettlingIsEnough DEF TunerType, Counted
<1>3. Tuner!Filling(settings) \in Nat /\ Tuner!Filling(settings) >= 2 /\ Settling \in Nat /\ Tuner!Jump \in Nat
  BY <1>2, SettlingIsEnough
<1>4. /\ Tuner!Suspected(f) \in [pitch : Int, frames : 1..Tuner!ConfirmationFrames]
      /\ Tuner!Distance(f, Tuner!Suspected(f).pitch) <= Tuner!MatchingTolerance
      /\ pending.frames >= 1 /\ Tuner!Distance(f, pending.pitch) <= Tuner!MatchingTolerance =>
           Tuner!Suspected(f).frames = pending.frames + 1
  BY <1>1, DrawnNearer DEF TunerType
<1>5. Tuner!Suspected(f).frames \in 1..(Tuner!ConfirmationFrames - 1)
  BY <1>4 DEF Tuner!Confirmed, Tuner!ConfirmationFrames
<1>6. pending' = Tuner!Suspected(f) /\ UNCHANGED <<smoothed, settings>>
  BY DEF Tuner!Suspect
<1>7. j - Tuner!Suspected(f).frames < Tuner!Filling(settings)
  <2>0. Tuner!Suspected(f).frames \in Int /\ Tuner!Suspected(f).frames >= 1
    BY <1>5
  <2>1. CASE k = 0
    BY <1>2, <1>3, <2>0, <2>1
  <2>2. CASE k # 0 /\ Followed(f, k)
    <3>1. k < Tuner!Filling(settings)
      <4>1. SUFFICES ASSUME k >= Tuner!Filling(settings) PROVE FALSE
        BY <1>2, <1>3
      <4>2. k - Tuner!Filling(settings) + 1 \in 0..Settling
        BY <1>2, <1>3, <4>1
      <4>3. Tuner!Closing(settings)[k - Tuner!Filling(settings) + 1] \in 0..Tuner!Jump
        BY <1>2, <4>2, ClosingNarrows
      <4>4. Tuner!Distance(smoothed, f) <= Tuner!Closing(settings)[k - Tuner!Filling(settings) + 1]
        BY <2>2, <4>1 DEF Followed
      <4>5. Tuner!Distance(f, smoothed) \in Nat /\ Tuner!Distance(f, smoothed) = Tuner!Distance(smoothed, f)
        BY <1>1, DistanceOf DEF TunerType
      <4>6. Tuner!Distance(f, smoothed) <= Tuner!Jump
        BY <1>3, <4>3, <4>4, <4>5
      <4>. QED
        BY <4>6 DEF Tuner!Near
    <3>. QED
      BY <1>2, <1>3, <2>0, <3>1
  <2>3. CASE k # 0 /\ Suspecting(f, k)
    <3>1. Tuner!Suspected(f).frames = pending.frames + 1 /\ k - pending.frames < Tuner!Filling(settings)
      BY <1>4, <2>3 DEF Suspecting
    <3>2. pending.frames \in Int
      BY DEF TunerType
    <3>. QED
      BY <1>2, <1>3, <3>1, <3>2
  <2>. QED
    BY <1>1, <1>2, <2>1, <2>2, <2>3 DEF Standing
<1>8. ~Tuner!Near(f)'
  BY <1>6 DEF Tuner!Near
<1>9. pending'.frames >= 1 /\ pending' \in [pitch : Int, frames : 0..(Tuner!ConfirmationFrames - 1)]
  BY <1>4, <1>5, <1>6 DEF Tuner!ConfirmationFrames
<1>10. Tuner!Filling(settings)' = Tuner!Filling(settings)
  BY <1>6 DEF Tuner!Filling
<1>. QED
  BY <1>4, <1>6, <1>7, <1>8, <1>9, <1>10 DEF Suspecting

LEMMA LabelOf ==
  ASSUME Tuner!TunerAssumption, settings \in Presets, locked \in Int, NEW p \in Int
  PROVE  /\ Tuner!Label(p) \in Int
         /\ Tuner!Distance(Tuner!Label(p), p) <= settings.noteSwitch \/ Tuner!Label(p) = Tuner!Nearest(p)
<1>1. Tuner!Nearest(p) \in Int
  <2>1. Semitone \in Nat \ {0}
    BY DEF Tuner!TunerAssumption
  <2>2. (2 * p + Semitone) \div (2 * Semitone) \in Int
    BY <2>1
  <2>. QED
    BY <2>1, <2>2 DEF Tuner!Nearest
<1>2. Tuner!Distance(p, locked) = Tuner!Distance(locked, p)
  BY DistanceOf
<1>. QED
  BY <1>1, <1>2 DEF Tuner!Label

\* A reading near the smoothed pitch is averaged with those before it.
LEMMA AcceptingNear ==
  ASSUME Tuner!TunerAssumption, TunerType, UNCHANGED settings, NEW f \in Pitches,
         Tuner!Near(f), Tuner!Accept(f),
         NEW k \in 0..Settling, NEW j, Counted(k, j), Standing(f, k)
  PROVE  /\ Followed(f, j)'
         /\ recent' \in Seq(Int) /\ smoothed' \in Int /\ locked' \in Int
<1> DEFINE F == Tuner!Filling(settings)
           c == Tuner!Closing(settings)
           full == Append(recent, f)
           heard == Tuner!Newest(full, AverageWindow)
           averaged == Tuner!Newest(heard, settings.averaging)
           average == Tuner!Mean(averaged)
<1>1. f \in Int /\ f # Tuner!NoPitch
  BY DEF Tuner!TunerAssumption, Tuner!NoPitch
<1>2. settings \in Presets /\ j \in Nat /\ j <= k + 1 /\ k \in Nat /\ j <= Settling /\ j >= 1
  BY SettlingIsEnough DEF TunerType, Counted
<1>3. /\ F \in Nat /\ F >= 2 /\ Settling \in Nat /\ Tuner!Jump \in Nat /\ Settling >= F + 3
      /\ settings.averaging \in Nat \ {0} /\ settings.averaging <= F
      /\ AverageWindow \in Nat \ {0}
  BY <1>2, SettlingIsEnough
<1>4. k = 0 \/ Followed(f, k)
  BY <1>1, <1>2 DEF Standing, Suspecting
<1>5. EndsWith(recent, k, f)
  BY <1>2, <1>4 DEF Followed, EndsWith, TunerType
<1>6. full \in Seq(Int) /\ full # <<>> /\ EndsWith(full, k + 1, f)
  BY <1>1, <1>2, <1>5, OneMoreAtTheEnd DEF TunerType
<1>. HIDE DEF full
<1>7. heard \in Seq(Int) /\ heard # <<>> /\ EndsWith(heard, k + 1, f)
  BY <1>1, <1>2, <1>3, <1>6, NewestOf
<1>. HIDE DEF heard
<1>8. /\ averaged \in Seq(Int) /\ averaged # <<>>
      /\ F <= k + 1 => \A i \in 1..Len(averaged) : averaged[i] = f
  <2>1. F <= k + 1 => settings.averaging <= k + 1
    BY <1>2, <1>3
  <2>2. k + 1 \in Nat
    BY <1>2
  <2>. QED
    BY <1>1, <1>3, <1>7, <2>1, <2>2, NewestOf
<1>. HIDE DEF averaged
<1>9. average \in Int /\ (F <= k + 1 => average = f)
  BY <1>1, <1>8, MeanOf
<1>. HIDE DEF average
<1>10. recent' = heard /\ smoothed' = Tuner!Eased(smoothed, average) /\ locked' = Tuner!Label(smoothed')
  BY DEF Tuner!Accept, Tuner!Segment, heard, full, average, averaged
<1>11. smoothed' \in Int
  BY <1>2, <1>9, <1>10, EasedDistance DEF TunerType
<1>12. /\ locked' \in Int
       /\ Tuner!Distance(locked', smoothed') <= settings.noteSwitch \/ locked' = Tuner!Nearest(smoothed')
  BY <1>2, <1>10, <1>11, LabelOf DEF TunerType
<1>13. EndsWith(recent', j, f)
  <2>1. Len(heard) \in Nat
    BY <1>7
  <2>. QED
    BY <1>2, <1>7, <1>10, <2>1 DEF EndsWith
<1>14. ASSUME j >= F PROVE Tuner!Distance(smoothed', f) <= c[j - F + 1]
  <2>1. average = f /\ j - F + 1 \in 1..Settling
    BY <1>2, <1>3, <1>9, <1>14
  <2>2. /\ c[j - F + 1] \in 0..Tuner!Jump
        /\ c[j - F + 1] = LeftOf(c[(j - F + 1) - 1], settings.easing)
        /\ c[(j - F + 1) - 1] \in 0..Tuner!Jump
        /\ c[j - F + 1] <= c[(j - F + 1) - 1]
        /\ c[0] = Tuner!Jump
    <3>1. j - F + 1 \in 0..Settling /\ (j - F + 1) - 1 \in 0..Settling
      BY <1>3, <2>1
    <3>. QED
      BY <1>2, <2>1, <3>1, ClosingNarrows
  <2>. HIDE DEF c
  <2>3. CASE smoothed = Tuner!NoPitch
    <3>1. Tuner!Distance(smoothed', f) = 0
      BY <1>1, <1>2, <1>10, <2>1, <2>3, EasedDistance, DistanceOf DEF TunerType
    <3>. QED
      BY <1>3, <2>2, <3>1
  <2>4. CASE smoothed # Tuner!NoPitch
    <3>1. Tuner!Distance(smoothed', f) = LeftOf(Tuner!Distance(smoothed, f), settings.easing)
      BY <1>1, <1>2, <1>10, <2>1, <2>4, EasedDistance DEF TunerType
    <3>2. Tuner!Distance(smoothed, f) \in Nat /\ Tuner!Distance(smoothed, f) <= Tuner!Jump
      BY <1>1, <2>4, DistanceOf DEF TunerType, Tuner!Near
    <3>3. settings.easing \in 1..100
      BY <1>2 DEF Tuner!TunerAssumption
    <3>4. k >= F => Tuner!Distance(smoothed, f) <= c[k - F + 1]
      BY <1>2, <1>3, <1>4 DEF Followed, c
    <3>5. CASE j = k + 1
      <4>1. (j - F + 1) - 1 = j - F /\ j - F \in Nat /\ (k >= F => k - F + 1 = j - F)
        BY <1>2, <1>3, <1>14, <3>5
      <4>2. Tuner!Distance(smoothed, f) <= c[j - F]
        BY <1>2, <1>3, <1>14, <2>2, <3>2, <3>4, <3>5, <4>1
      <4>3. c[j - F] \in Nat /\ Tuner!Distance(smoothed, f) \in 0..c[j - F]
        BY <1>3, <2>2, <3>2, <4>1, <4>2
      <4>. QED
        BY <2>2, <3>1, <3>3, <4>1, <4>3, EasingKeepsOrder
    <3>6. CASE j = k
      <4>1. Tuner!Distance(smoothed, f) <= c[j - F + 1]
        BY <1>14, <3>4, <3>6
      <4>2. LeftOf(Tuner!Distance(smoothed, f), settings.easing) \in 0..Tuner!Distance(smoothed, f)
        BY <3>2, <3>3, EasingCloses
      <4>. QED
        BY <1>3, <2>2, <3>1, <3>2, <4>1, <4>2
    <3>. QED
      BY <3>5, <3>6 DEF Counted
  <2>. QED
    BY <2>3, <2>4
<1>15. Followed(f, j)'
  <2>1. UNCHANGED <<F, c>>
    BY DEF Tuner!Filling, Tuner!Closing
  <2>. QED
    BY <1>7, <1>10, <1>12, <1>13, <1>14, <2>1 DEF Followed
<1>. QED
  BY <1>7, <1>10, <1>11, <1>12, <1>15

\* A confirmed jump is all there is to average.
LEMMA AcceptingAJump ==
  ASSUME Tuner!TunerAssumption, TunerType, UNCHANGED settings, NEW f \in Pitches,
         ~Tuner!Near(f), Tuner!Accept(f), NEW j \in 1..Settling
  PROVE  /\ Followed(f, j)'
         /\ recent' \in Seq(Int) /\ smoothed' \in Int /\ locked' \in Int
<1> DEFINE F == Tuner!Filling(settings)
           c == Tuner!Closing(settings)
           heard == Tuner!Newest(<<f>>, AverageWindow)
           averaged == Tuner!Newest(heard, settings.averaging)
<1>1. f \in Int
  BY DEF Tuner!TunerAssumption
<1>2. /\ settings \in Presets /\ AverageWindow \in Nat \ {0} /\ settings.averaging \in Nat \ {0}
      /\ F \in Nat /\ F >= 2 /\ Settling \in Nat /\ Tuner!Jump \in Nat
  BY SettlingIsEnough DEF TunerType
<1>3. /\ <<f>> \in Seq(Int) /\ <<f>> # <<>>
      /\ \A k \in Nat : EndsWith(<<f>>, k, f)
  BY <1>1 DEF EndsWith
<1>4. heard \in Seq(Int) /\ heard # <<>> /\ \A k \in Nat : EndsWith(heard, k, f)
  BY <1>1, <1>2, <1>3, NewestOf
<1>5. recent' = heard /\ smoothed' = Tuner!Eased(f, Tuner!Mean(averaged)) /\ locked' = Tuner!Label(smoothed')
  <2>1. Append(<<>>, f) = <<f>>
    OBVIOUS
  <2>. QED
    BY <2>1 DEF Tuner!Accept, Tuner!Segment
<1>. HIDE DEF heard
<1>6. /\ averaged \in Seq(Int) /\ averaged # <<>>
      /\ \A i \in 1..Len(averaged) : averaged[i] = f
  BY <1>1, <1>2, <1>4, NewestOf
<1>. HIDE DEF averaged
<1>7. smoothed' = f
  BY <1>1, <1>2, <1>5, <1>6, MeanOf, EasedDistance
<1>8. /\ locked' \in Int
      /\ Tuner!Distance(locked', smoothed') <= settings.noteSwitch \/ locked' = Tuner!Nearest(smoothed')
  BY <1>1, <1>2, <1>5, <1>7, LabelOf DEF TunerType
<1>9. j >= F => Tuner!Distance(smoothed', f) <= c[j - F + 1]
  <2>1. Tuner!Distance(smoothed', f) = 0
    BY <1>1, <1>7, DistanceOf
  <2>2. ASSUME j >= F PROVE c[j - F + 1] \in 0..Tuner!Jump
    <3>1. j - F + 1 \in 0..Settling
      BY <1>2, <2>2
    <3>. QED
      BY <1>2, <3>1, ClosingNarrows
  <2>. HIDE DEF c
  <2>. QED
    BY <1>2, <2>1, <2>2
<1>10. EndsWith(recent', j, f)
  BY <1>4, <1>5
<1>11. Followed(f, j)'
  <2>1. UNCHANGED <<F, c>>
    BY DEF Tuner!Filling, Tuner!Closing
  <2>. QED
    BY <1>4, <1>5, <1>8, <1>9, <1>10, <2>1 DEF Followed
<1>. QED
  BY <1>1, <1>4, <1>5, <1>7, <1>8, <1>11

-----------------------------------------------------------------------------
(* Every step.                                                              *)

LEMMA FrameKeeps ==
  ASSUME Tuner!TunerAssumption, TunerInv, Tuner!Frame
  PROVE  TunerInv'
<1>0. TunerType /\ Standing(same.pitch, same.frames)
  BY DEF TunerInv
<1>1. /\ settings \in Presets /\ Settling \in Nat /\ Settling >= 5
      /\ same.frames \in 0..Settling /\ UNCHANGED <<window, latest, settings>>
  <2>1. settings \in Presets /\ same.frames \in 0..Settling
    BY <1>0 DEF TunerType
  <2>2. Settling \in Nat /\ Settling >= Tuner!Filling(settings) + 3 /\ Tuner!Filling(settings) \in Nat
        /\ Tuner!Filling(settings) >= 2
    BY <2>1, SettlingIsEnough
  <2>. QED
    BY <2>1, <2>2 DEF Tuner!Frame, Tuner!analysis
<1>2. PICK f \in Pitches \cup {Tuner!NoPitch} : f = latest
  BY <1>0 DEF TunerType
<1>3. PICK k \in 0..Settling : k = IF f = same.pitch THEN same.frames ELSE 0
  BY <1>1
<1>4. PICK j : j = same'.frames
  OBVIOUS
<1>5. Standing(f, k)
  <2>1. CASE f = same.pitch
    BY <1>0, <1>3, <2>1
  <2>2. CASE f # same.pitch
    BY <1>3, <2>2 DEF Standing
  <2>. QED
    BY <2>1, <2>2
<1>6. same' = [pitch |-> f, frames |-> j] /\ Counted(k, j)
  BY <1>0, <1>1, <1>2, <1>3, <1>4 DEF Tuner!Frame, Counted, TunerType
<1>7. j \in 1..Settling /\ j >= 1
  BY <1>1, <1>6 DEF Counted
<1>8. SUFFICES /\ recent' \in Seq(Int) /\ smoothed' \in Int /\ locked' \in Int
               /\ pending' \in [pitch : Int, frames : 0..(Tuner!ConfirmationFrames - 1)]
               /\ silentFrames' \in Nat
               /\ IF f = Tuner!NoPitch THEN SilenceCounted(j)'
                  ELSE Followed(f, j)' \/ Suspecting(f, j)'
  <2>1. TunerType'
    <3>1. same' \in [pitch : Pitches \cup {Tuner!NoPitch}, frames : 0..Settling]
      BY <1>1, <1>6, <1>7
    <3>. QED
      BY <1>0, <1>1, <1>8, <3>1 DEF TunerType
  <2>2. Standing(f, j)'
    BY <1>8 DEF Standing
  <2>3. same'.pitch = f /\ same'.frames = j
    BY <1>6
  <2>4. Standing(same.pitch, same.frames)'
    BY <1>7, <1>8, <2>3 DEF Standing, SilenceCounted, Followed, Suspecting, Tuner!Near
  <2>. QED
    BY <2>1, <2>4 DEF TunerInv
<1>9. Tuner!NothingPending \in [pitch : Int, frames : 0..(Tuner!ConfirmationFrames - 1)]
  BY DEF Tuner!NothingPending, Tuner!NoPitch, Tuner!ConfirmationFrames
<1>10. CASE f = Tuner!NoPitch /\ Tuner!Missing
  <2>1. Standing(Tuner!NoPitch, k)
    BY <1>5, <1>10
  <2>2. SilenceCounted(j)'
    BY <1>0, <1>1, <1>6, <1>10, <2>1, MissingKeeps
  <2>3. /\ recent' \in Seq(Int) /\ smoothed' \in Int /\ locked' \in Int
        /\ silentFrames' \in Nat
    <3>1. <<>> \in Seq(Int) /\ Tuner!NoPitch \in Int
      BY DEF Tuner!NoPitch
    <3>2. CASE Tuner!Forget
      BY <3>1, <3>2 DEF Tuner!Forget
    <3>3. CASE silentFrames' = silentFrames + 1 /\ UNCHANGED <<recent, smoothed, locked>>
      BY <1>0, <3>3 DEF TunerType
    <3>. QED
      BY <1>10, <3>2, <3>3 DEF Tuner!Missing
  <2>4. pending' = Tuner!NothingPending
    BY <1>10 DEF Tuner!Missing, Tuner!Forget
  <2>. QED
    BY <1>9, <1>10, <2>2, <2>3, <2>4
<1>11. CASE f # Tuner!NoPitch /\ (Tuner!Near(f) \/ Tuner!Confirmed(f)) /\ Tuner!Accept(f)
  <2>1. f \in Pitches
    BY <1>11
  <2>2. pending' = Tuner!NothingPending /\ silentFrames' = 0
    BY <1>11 DEF Tuner!Accept
  <2>3. Followed(f, j)' /\ recent' \in Seq(Int) /\ smoothed' \in Int /\ locked' \in Int
    <3>1. CASE Tuner!Near(f)
      BY <1>0, <1>1, <1>5, <1>6, <1>11, <2>1, <3>1, AcceptingNear
    <3>2. CASE ~Tuner!Near(f)
      BY <1>0, <1>1, <1>7, <1>11, <2>1, <3>2, AcceptingAJump
    <3>. QED
      BY <3>1, <3>2
  <2>. QED
    BY <1>9, <1>11, <2>2, <2>3
<1>12. CASE f # Tuner!NoPitch /\ ~Tuner!Near(f) /\ ~Tuner!Confirmed(f) /\ Tuner!Suspect(f)
  <2>1. f \in Pitches
    BY <1>12
  <2>2. /\ Suspecting(f, j)'
        /\ pending' \in [pitch : Int, frames : 0..(Tuner!ConfirmationFrames - 1)]
    BY <1>0, <1>1, <1>5, <1>6, <1>12, <2>1, SuspectKeeps
  <2>3. UNCHANGED <<recent, smoothed, silentFrames, locked>>
    BY <1>12 DEF Tuner!Suspect
  <2>. QED
    BY <1>0, <1>12, <2>2, <2>3 DEF TunerType
<1>. QED
  BY <1>2, <1>10, <1>11, <1>12 DEF Tuner!Frame

\* Sliders that move leave the last reading, and nothing is said of one reading that
\* depends on where they are.
LEMMA MovingSliders ==
  ASSUME Tuner!TunerAssumption, TunerInv, Tuner!MoveSliders
  PROVE  TunerInv'
<1> DEFINE f == same.pitch
           k == same.frames
<1>1. /\ settings' \in Presets /\ UNCHANGED <<Tuner!analysis, Tuner!tracker>>
      /\ same' = [same EXCEPT !.frames = IF @ = 0 THEN 0 ELSE 1]
  BY DEF Tuner!MoveSliders
<1>2. /\ same \in [pitch : Pitches \cup {Tuner!NoPitch}, frames : 0..Settling] /\ Settling \in Nat
      /\ Settling >= 5
  BY <1>1, SettlingIsEnough DEF TunerInv, TunerType
<1>3. same' = [pitch |-> f, frames |-> IF k = 0 THEN 0 ELSE 1]
  BY <1>1, <1>2
<1>4. TunerType'
  <2>1. same' \in [pitch : Pitches \cup {Tuner!NoPitch}, frames : 0..Settling]
    BY <1>2, <1>3
  <2>2. TunerType
    BY DEF TunerInv
  <2>. QED
    BY <1>1, <2>1, <2>2 DEF TunerType, Tuner!analysis, Tuner!tracker
<1>5. Tuner!Filling(settings)' \in Nat /\ Tuner!Filling(settings)' >= 2
  <2>1. Tuner!Filling(settings') \in Nat /\ Tuner!Filling(settings') >= 2
    BY <1>1, SettlingIsEnough
  <2>. QED
    BY <2>1 DEF Tuner!Filling
<1>6. ASSUME k >= 1 PROVE Standing(f, 1)'
  <2>1. k \in Nat
    BY <1>2
  <2>2. CASE f = Tuner!NoPitch
    <3>1. SilenceCounted(k)
      BY <1>6, <2>2 DEF TunerInv, Standing
    <3>2. SilenceCounted(1)'
      BY <1>1, <1>6, <2>1, <3>1 DEF SilenceCounted, Tuner!tracker, TunerInv, TunerType
    <3>. QED
      BY <1>3, <1>6, <2>2, <3>2 DEF Standing
  <2>3. CASE f # Tuner!NoPitch /\ Followed(f, k)
    <3>1. recent' # <<>> /\ EndsWith(recent', 1, f)
      BY <1>1, <1>6, <2>1, <2>3 DEF Followed, EndsWith, Tuner!tracker, TunerInv, TunerType
    <3>2. Followed(f, 1)'
      BY <1>3, <1>5, <3>1 DEF Followed
    <3>. QED
      BY <1>3, <2>3, <3>2 DEF Standing
  <2>4. CASE f # Tuner!NoPitch /\ Suspecting(f, k)
    <3>1. pending.frames >= 1 /\ pending.frames \in Int
      BY <2>4 DEF Suspecting, TunerInv, TunerType
    <3>2. Suspecting(f, 1)'
      BY <1>1, <1>3, <1>5, <2>4, <3>1 DEF Suspecting, Tuner!tracker, Tuner!Near
    <3>. QED
      BY <1>3, <2>4, <3>2 DEF Standing
  <2>. QED
    BY <1>6, <2>2, <2>3, <2>4 DEF TunerInv, Standing
<1>. QED
  BY <1>2, <1>3, <1>4, <1>6 DEF TunerInv, Standing

LEMMA TunerInit == Tuner!TunerAssumption /\ Tuner!Init => TunerInv
<1>. SUFFICES ASSUME Tuner!TunerAssumption, Tuner!Init PROVE TunerInv
  OBVIOUS
<1>1. settings \in Presets /\ <<>> \in Seq(Int)
  BY DEF Tuner!Init
<1>2. Settling \in Nat
  BY DEF Tuner!TunerAssumption
<1>. QED
  BY <1>1, <1>2 DEF Tuner!Init, TunerInv, TunerType, Standing, Tuner!NothingPending, Tuner!NoPitch,
                    Tuner!ConfirmationFrames

\* Where nothing was read since both forgot, nothing is said.
LEMMA ForgettingKeeps ==
  ASSUME Tuner!TunerAssumption, TunerInv, Tuner!Forget, Tuner!Unread, settings' \in Presets,
         window' \subseteq Pitches, latest' \in Pitches \cup {Tuner!NoPitch}
  PROVE  TunerInv'
<1>1. Settling \in Nat /\ <<>> \in Seq(Int)
  BY DEF Tuner!TunerAssumption
<1>. QED
  BY <1>1 DEF Tuner!Forget, Tuner!Unread, TunerInv, TunerType, Standing, Tuner!NothingPending, Tuner!NoPitch,
              Tuner!ConfirmationFrames

LEMMA TunerNext ==
  ASSUME Tuner!TunerAssumption
  PROVE  TunerInv /\ [Tuner!Next]_(Tuner!vars) => TunerInv'
<1>. SUFFICES ASSUME TunerInv, [Tuner!Next]_(Tuner!vars) PROVE TunerInv'
  OBVIOUS
<1>1. ASSUME UNCHANGED <<settings, Tuner!tracker, same>>, window' \subseteq Pitches,
             latest' \in Pitches \cup {Tuner!NoPitch}
      PROVE  TunerInv'
  <2>1. TunerType'
    BY <1>1 DEF TunerInv, TunerType, Tuner!tracker
  <2>2. Standing(same.pitch, same.frames)'
    BY <1>1, Zenon DEF TunerInv, Standing, SilenceCounted, Followed, Suspecting, Tuner!tracker, Tuner!Near
  <2>. QED
    BY <2>1, <2>2 DEF TunerInv
<1>2. CASE Tuner!Analyse
  <2>1. window' \subseteq Pitches
    BY <1>2 DEF Tuner!Analyse, TunerInv, TunerType
  <2>2. latest' \in Pitches \cup {Tuner!NoPitch}
    BY <1>2, <2>1 DEF Tuner!Analyse
  <2>. QED
    BY <1>1, <1>2, <2>1, <2>2 DEF Tuner!Analyse
<1>3. CASE Tuner!Frame
  BY <1>3, FrameKeeps
<1>4. CASE Tuner!AboutToStart
  BY <1>1, <1>4 DEF Tuner!AboutToStart, TunerInv, TunerType
<1>5. CASE Tuner!StateChanged \/ Tuner!Mute \/ Tuner!Unmute
  <2>1. Tuner!StateForgotten
    BY <1>5 DEF Tuner!StateChanged, Tuner!Mute, Tuner!Unmute
  <2>. QED
    BY <2>1, ForgettingKeeps DEF Tuner!StateForgotten, Tuner!ResultForgotten, TunerInv, TunerType
<1>6. CASE Tuner!ApplySettings
  BY <1>6, ForgettingKeeps DEF Tuner!ApplySettings, Tuner!analysis, TunerInv, TunerType
<1>7. CASE Tuner!MoveSliders
  BY <1>7, MovingSliders
<1>8. CASE Tuner!ClearGraph \/ UNCHANGED Tuner!vars
  BY <1>1, <1>8 DEF Tuner!ClearGraph, Tuner!vars, Tuner!analysis, TunerInv, TunerType
<1>. QED
  BY <1>2, <1>3, <1>4, <1>5, <1>6, <1>7, <1>8 DEF Tuner!Next

LEMMA SettledPitch ==
  ASSUME Tuner!TunerAssumption, TunerInv
  PROVE  Tuner!SustainedPitchIsShown
<1> DEFINE f == same.pitch
           F == Tuner!Filling(settings)
<1>. SUFFICES ASSUME same.frames = Settling
              PROVE  IF f = Tuner!NoPitch THEN locked = Tuner!NoPitch
                     ELSE /\ smoothed = f
                          /\ \/ Tuner!Distance(locked, smoothed) <= settings.noteSwitch
                             \/ locked = Tuner!Nearest(smoothed)
  BY DEF Tuner!SustainedPitchIsShown
<1>1. /\ settings \in Presets
      /\ F \in Nat /\ F >= 2 /\ Settling \in Nat /\ Settling >= F + 3
      /\ Settling >= settings.dropout /\ settings.dropout \in Nat
  BY SettlingIsEnough DEF TunerInv, TunerType
<1>2. Standing(f, Settling) /\ Settling >= 2
  BY <1>1 DEF TunerInv
<1>3. CASE f = Tuner!NoPitch
  <2>1. SilenceCounted(Settling)
    BY <1>2, <1>3, <1>1 DEF Standing
  <2>. QED
    BY <1>1, <1>3, <2>1 DEF SilenceCounted, TunerInv, TunerType
<1>4. CASE f # Tuner!NoPitch /\ Followed(f, Settling)
  <2>1. Tuner!Closing(settings)[Settling - F + 1] = 0
    BY <1>1 DEF Tuner!TunerAssumption
  <2>2. Tuner!Distance(smoothed, f) <= Tuner!Closing(settings)[Settling - F + 1]
    BY <1>1, <1>4 DEF Followed
  <2>3. TunerType
    BY DEF TunerInv
  <2>4. f \in Pitches /\ smoothed \in Int
    BY <1>4, <2>3 DEF TunerType
  <2>. HIDE DEF f
  <2>5. f \in Int
    BY <2>4 DEF Tuner!TunerAssumption
  <2>6. Tuner!Distance(smoothed, f) \in Nat /\ Tuner!Distance(smoothed, f) <= 0
    BY <2>1, <2>2, <2>4, <2>5, DistanceOf
  <2>7. Tuner!Distance(smoothed, f) = 0
    BY <2>6
  <2>8. smoothed = f
    BY <2>4, <2>5, <2>7, DistanceOf
  <2>. QED
    BY <1>1, <1>4, <2>8 DEF Followed, f
<1>5. CASE f # Tuner!NoPitch /\ Suspecting(f, Settling)
  <2>1. pending.frames \in 0..3
    BY DEF TunerInv, TunerType, Tuner!ConfirmationFrames
  <2>2. Settling - pending.frames < F
    BY <1>5 DEF Suspecting
  <2>. QED
    BY <1>1, <2>1, <2>2
<1>. QED
  BY <1>1, <1>2, <1>3, <1>4, <1>5 DEF Standing

\* A pitch read often enough in a row is the note shown, wherever the tracker had been, and
\* silence read that often has cleared it: for every preset and any pitches, with sliders
\* that move in the middle of a note and results that are read twice or missed.
THEOREM SustainedPitchShows == MCSpec => []SustainedPitchIsShown
<1>1. Tuner!TunerAssumption
  BY InputPathAssumption
<1>2. MCInit => TunerInv
  BY <1>1, TunerInit DEF MCInit
<1>3. TunerInv /\ [MCNext]_<<part, vars, queue, input, keyboard, notes, tuner>> => TunerInv'
  <2>1. [MCNext]_<<part, vars, queue, input, keyboard, notes, tuner>> => [Tuner!Next]_(Tuner!vars)
    BY DEF MCNext, tuner, Tuner!vars, Tuner!input, Tuner!analysis, Tuner!tracker
  <2>. QED
    BY <1>1, <2>1, TunerNext
<1>4. TunerInv => SustainedPitchIsShown
  BY <1>1, SettledPitch DEF SustainedPitchIsShown
<1>. QED
  BY <1>2, <1>3, <1>4, PTL DEF MCSpec
=============================================================================
