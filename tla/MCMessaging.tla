---------------------------- MODULE MCMessaging ----------------------------
(* Instances of Messaging for TLC. *)
EXTENDS Messaging, TLC

CONSTANTS a1, b1, r1, r2, k1

\* alice on instance i1, bob on i2.
MCUserOf     == (a1 :> "alice") @@ (b1 :> "bob")
MCInstanceOf == (a1 :> "i1") @@ (b1 :> "i2")
ConnUserOf     == [c \in Conns |-> MCUserOf[c]]
ConnInstanceOf == [c \in Conns |-> MCInstanceOf[c]]
\* Alice is the sender of one pair and a bystander of the other.
ToBob == {<<"alice", "bob">>, <<"carol", "bob">>}
\* Requests are interchangeable: r1 comes first, and alice sends it.
InOrder ==
    /\ req[r1].st = "idle" => req[r2].st = "idle"
    /\ req[r1].st # "idle" => req[r1].user = "alice"
=============================================================================
