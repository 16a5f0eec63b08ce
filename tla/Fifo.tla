-------------------------------- MODULE Fifo --------------------------------
(***************************************************************************)
(* What the transmit queue of netfs promises: a packet put into it leaves  *)
(* it once, in the order of arrival, however many of them leave together   *)
(* and whoever sends them.                                                 *)
(***************************************************************************)
EXTENDS Naturals, Sequences

CONSTANT Packet

VARIABLES
  queue,    \* the packets waiting
  sent,     \* the packets that left, in order
  arrived   \* the packets accepted so far

Init == queue = <<>> /\ sent = <<>> /\ arrived = <<>>

Put(p) ==
  /\ queue' = Append(queue, p)
  /\ arrived' = Append(arrived, p)
  /\ UNCHANGED sent

\* The k oldest packets leave together.
Send(k) ==
  /\ sent' = sent \o SubSeq(queue, 1, k)
  /\ queue' = SubSeq(queue, k + 1, Len(queue))
  /\ UNCHANGED arrived

Next == (\E p \in Packet : Put(p)) \/ (\E k \in 1 .. Len(queue) : Send(k))

Spec == Init /\ [][Next]_<<queue, sent, arrived>>
=============================================================================
