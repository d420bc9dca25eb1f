------------------------------- MODULE MCPrdt -------------------------------
(***************************************************************************)
(* Prdt for TLC: DMA memory that is clear, or that holds a descriptor with *)
(* the mark of the last one set.                                           *)
(***************************************************************************)
EXTENDS Prdt

MCLeftovers ==
  {[address |-> 0, count |-> 0, reserved |-> {}],
   [address |-> 5, count |-> 2, reserved |-> {15}]}
=============================================================================
