----------------------------- MODULE MCAccounts -----------------------------
(* Instances of Accounts for TLC. *)
EXTENDS Accounts, TLC

CONSTANTS d1, d2, w1, w2, i1, i2

\* The first deletion and connection are on one instance, the others on another.
OnTwoInstances == (d1 :> i1) @@ (d2 :> i2) @@ (w1 :> i1) @@ (w2 :> i2)

\* The requests differ in nothing but their names.
RequestSymmetry == Permutations(Requests)
=============================================================================
