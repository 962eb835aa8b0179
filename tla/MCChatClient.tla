---------------------------- MODULE MCChatClient ----------------------------
(* Instances of ChatClient for TLC. *)
EXTENDS ChatClient

CONSTANTS o1, o2, o3

Symmetric == Permutations(Ops)
=============================================================================
