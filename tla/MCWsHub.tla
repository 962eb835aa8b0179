------------------------------ MODULE MCWsHub ------------------------------
(* Instances of WsHub for TLC. *)
EXTENDS WsHub, TLC

CONSTANTS c1, u1, u2

OneConn == (c1 :> u1)
=============================================================================
