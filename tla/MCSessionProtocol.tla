------------------------- MODULE MCSessionProtocol -------------------------
(* SessionProtocol on small instances, for TLC. *)
EXTENDS SessionProtocol
=============================================================================
