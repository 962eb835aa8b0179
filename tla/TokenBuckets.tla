---------------------------- MODULE TokenBuckets ----------------------------
(***************************************************************************)
(* What a rate limiter promises, without its bookkeeping: every key has a   *)
(* bucket of Burst tokens for ever, which gains one token per tick; a       *)
(* request takes a token and is allowed, and is refused only when the       *)
(* bucket of its key is empty.  Nothing is created, evicted or stamped.     *)
(***************************************************************************)
EXTENDS Integers

CONSTANTS Keys, Reqs, Burst

VARIABLES
    level,   \* per key: tokens in the bucket
    answer   \* per request: "none", "allowed" or "refused"

vars == <<level, answer>>

Init ==
    /\ level = [k \in Keys |-> Burst]
    /\ answer = [r \in Reqs |-> "none"]

Ask(r) ==
    /\ answer' = [answer EXCEPT ![r] = "none"]
    /\ UNCHANGED level

Allow(r, k) ==
    /\ answer[r] = "none" /\ level[k] > 0
    /\ level' = [level EXCEPT ![k] = @ - 1]
    /\ answer' = [answer EXCEPT ![r] = "allowed"]

Refuse(r, k) ==
    /\ answer[r] = "none" /\ level[k] = 0
    /\ answer' = [answer EXCEPT ![r] = "refused"]
    /\ UNCHANGED level

Tick ==
    /\ level' = [k \in Keys |-> IF level[k] < Burst THEN level[k] + 1 ELSE Burst]
    /\ UNCHANGED answer

Next ==
    \/ \E r \in Reqs : Ask(r) \/ \E k \in Keys : Allow(r, k) \/ Refuse(r, k)
    \/ Tick

Spec == Init /\ [][Next]_vars
=============================================================================
