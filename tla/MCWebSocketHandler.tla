------------------------- MODULE MCWebSocketHandler -------------------------
(* Small instances of WebSocketHandler for TLC.                            *)
EXTENDS WebSocketHandler, TLC

Symmetry == Permutations(Workers)

=============================================================================
