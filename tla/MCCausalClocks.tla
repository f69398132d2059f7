---------------------------- MODULE MCCausalClocks ----------------------------
(* Model values of CausalClocks for TLC: three devices, client ids 1..4. *)
EXTENDS CausalClocks
MCFirstId == [d \in Device |-> d]
=============================================================================
