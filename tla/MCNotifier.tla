----------------------------- MODULE MCNotifier -----------------------------
(* Instances of Notifier for TLC. *)
EXTENDS Notifier, TLC

CONSTANTS p1, p2, t1, t2
=============================================================================
