----------------------------- MODULE MCSessions -----------------------------
(* Instances of Sessions for TLC. *)
EXTENDS Sessions, TLC

CONSTANTS t1, t2, p1, p2, p3

Symmetric == Permutations(Tabs) \cup Permutations(Calls)
=============================================================================
