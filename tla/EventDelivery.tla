---------------------------- MODULE EventDelivery ----------------------------
(***************************************************************************)
(* What the relay and an instance's consumer promise together, without     *)
(* channels, replays or sockets.  Events are numbered in the order they    *)
(* are drawn.  Each is settled at some moment, that is, processed by the   *)
(* instance or excused for good.  The instance's position moves freely     *)
(* among the events, backwards after a redelivery, but only to a point     *)
(* with nothing unsettled behind it.                                       *)
(***************************************************************************)
EXTENDS Naturals

CONSTANT MaxSeq  \* bound: events ever published

VARIABLES
  published,  \* number of events drawn
  settled,    \* the events processed or excused
  position    \* the consumer's stored cursor

Init == published = 0 /\ settled = {} /\ position = 0

Publish ==
  /\ published < MaxSeq
  /\ published' = published + 1
  /\ UNCHANGED <<settled, position>>

Settle ==
  /\ \E S \in SUBSET (1..published) : settled' = settled \union S
  /\ UNCHANGED <<published, position>>

Move ==
  /\ \E n \in 0..published : 1..n \subseteq settled /\ position' = n
  /\ UNCHANGED <<published, settled>>

Next == Publish \/ Settle \/ Move

Spec == Init /\ [][Next]_<<published, settled, position>>

=============================================================================
