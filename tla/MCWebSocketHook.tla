-------------------------- MODULE MCWebSocketHook --------------------------
(* Instances of WebSocketHook for TLC. *)
EXTENDS WebSocketHook, TLC

CONSTANTS k1, k2, k3

=============================================================================
