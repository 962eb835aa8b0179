---------------------------- MODULE MCKeyExchange ----------------------------
(* Instances of KeyExchange for TLC. *)
EXTENDS KeyExchange, TLC

CONSTANTS a1, a2, b1

\* alice has two tabs of one browser, bob has one tab.
MCUserOf    == (a1 :> "alice") @@ (a2 :> "alice") @@ (b1 :> "bob")
MCBrowserOf == (a1 :> "A") @@ (a2 :> "A") @@ (b1 :> "B")
MCPeerOf    == [u \in {"alice", "bob"} |-> IF u = "alice" THEN "bob" ELSE "alice"]
Symmetric   == Permutations({a1, a2})
=============================================================================
