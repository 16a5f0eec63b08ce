------------------------------- MODULE MCIsr --------------------------------
(* Movements for Isr: small ones, the largest a signed byte holds, and one *)
(* that it does not.  A timer interrupt finds the transmit queue empty, or *)
(* a packet in it.                                                         *)
EXTENDS Isr

MCFlushes == {<<>>, <<"net", "power">>}
MCMoves == {<<0, 1, -1>>, <<5, 127, -128>>, <<2, 200, 8>>}
=============================================================================
