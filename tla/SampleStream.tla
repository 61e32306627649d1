---------------------------- MODULE SampleStream ----------------------------
(***************************************************************************)
(* What an analysis tool may rely on of its audio queue, with no ring,     *)
(* position or thread in it: samples come out at most once and in the      *)
(* order they were captured, a block is taken whole or dropped whole, and  *)
(* what the consumer has not fetched yet is bounded.                       *)
(***************************************************************************)
EXTENDS Integers, Sequences

CONSTANTS Capacity, MaxBlock

VARIABLES
  offered,    (* samples captured so far; a sample is its serial number *)
  buffered,   (* accepted and not yet fetched, oldest first             *)
  delivered   (* fetched by the consumer, oldest first                  *)

vars == <<offered, buffered, delivered>>

Block(n) == [i \in 1..n |-> offered + i]

Accept(n) ==
  /\ Len(buffered) + n <= Capacity
  /\ buffered' = buffered \o Block(n)
  /\ offered' = offered + n
  /\ UNCHANGED delivered

DropNewest(n) ==
  /\ offered' = offered + n
  /\ UNCHANGED <<buffered, delivered>>

Deliver(n) ==
  /\ delivered' = delivered \o SubSeq(buffered, 1, n)
  /\ buffered' = SubSeq(buffered, n + 1, Len(buffered))
  /\ UNCHANGED offered

Discard(n) ==
  /\ buffered' = SubSeq(buffered, n + 1, Len(buffered))
  /\ UNCHANGED <<offered, delivered>>

Restart == offered' = 0 /\ buffered' = <<>> /\ delivered' = <<>>

Init == offered = 0 /\ buffered = <<>> /\ delivered = <<>>

Next ==
  \/ \E n \in 1..MaxBlock : Accept(n) \/ DropNewest(n)
  \/ \E n \in 0..Len(buffered) : Deliver(n) \/ Discard(n)
  \/ Restart

Spec == Init /\ [][Next]_vars
=============================================================================
