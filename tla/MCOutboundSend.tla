--------------------------- MODULE MCOutboundSend ---------------------------
(* Model checking module OutboundSend on small instances. *)
EXTENDS OutboundSend, TLC

Symmetric == Permutations(Recipients)
=============================================================================
