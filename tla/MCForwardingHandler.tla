------------------------- MODULE MCForwardingHandler -------------------------
(* ForwardingHandler for TLC.                                              *)
EXTENDS ForwardingHandler
=============================================================================
