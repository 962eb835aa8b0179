------------------------------- MODULE Limiter -------------------------------
(***************************************************************************)
(* KeyedLimiter (http/ratelimit.go) and the middlewares in front of the      *)
(* handlers that ask it: one rate.Limiter per key, created at the key's       *)
(* first request and evicted once the key has not asked for Ttl.             *)
(*                                                                         *)
(* A tick of the clock is the time in which a bucket gains one token.  Allow  *)
(* reads the clock for its bookkeeping BEFORE it takes the mutex, so `now`     *)
(* may be old, and older than the `last` another request left, when it is     *)
(* used; rate.Limiter reads the clock again, under the mutex.  Buckets are     *)
(* filled lazily, when they are used.  Refused requests leave a bucket as it  *)
(* is.  The limiters of one process are independent, so is each process.      *)
(***************************************************************************)
EXTENDS Integers

CONSTANTS
    Keys,      \* client addresses, lower-cased usernames or user ids
    Reqs,      \* requests in flight
    Burst,     \* burst of the limiter
    Ttl,       \* age, in ticks, at which an entry is evicted
    MaxWait,   \* longest wait, in ticks, for the mutex
    MaxClock,  \* bound: the clock
    NoEntry    \* model value: no entry in byKey

Clock   == 0 .. MaxClock
Buckets == [tokens : 0 .. Burst, stamp : Clock, last : Clock]

(* router.go sets 10 minutes beside bursts that refill in 2 seconds. *)
ASSUME LimiterAssumption ==
    /\ Burst \in Nat \ {0} /\ Ttl \in Nat /\ MaxWait \in Nat /\ MaxClock \in Nat
    /\ Burst + MaxWait <= Ttl
    /\ NoEntry \notin Buckets

VARIABLES
    clock,
    byKey,     \* per key: its limiterEntry (last, and the bucket: tokens at time stamp) or NoEntry
    pc,        \* per request: "idle", "wait" (for the mutex), "allowed", "refused"
    key, now,  \* per request: its key and the time it read
    granted    \* history, per key: requests allowed

vars == <<clock, byKey, pc, key, now, granted>>

Init ==
    /\ clock = 0 /\ byKey = [k \in Keys |-> NoEntry] /\ pc = [r \in Reqs |-> "idle"]
    /\ key \in [Reqs -> Keys] /\ now = [r \in Reqs |-> 0] /\ granted = [k \in Keys |-> 0]

MutantOverfull(t, since) == t + (clock - since)

(* rate.Limiter.advance: tokens of a bucket that held t at time since. *)
Refill(t, since) ==
    IF t + (clock - since) > Burst THEN Burst ELSE t + (clock - since)

Tokens(e) == Refill(e.tokens, e.stamp)

MutantTtlTooShort(e, t) == t - e.last > 0

Expired(e, t) == t - e.last > Ttl

NewEntry(t) == [tokens |-> Burst, stamp |-> clock, last |-> t]

(* byKey once the request r has evicted what is old. *)
Evicted(r) ==
    [k \in Keys |-> IF byKey[k] # NoEntry /\ Expired(byKey[k], now[r]) THEN NoEntry ELSE byKey[k]]

EntryFor(r) ==
    IF Evicted(r)[key[r]] = NoEntry THEN NewEntry(now[r])
                                    ELSE [Evicted(r)[key[r]] EXCEPT !.last = now[r]]

(* The middleware (or LoginHandler) calls Allow, which reads the clock. *)
Arrive(r, k) ==
    /\ pc[r] # "wait"
    /\ pc' = [pc EXCEPT ![r] = "wait"]
    /\ key' = [key EXCEPT ![r] = k]
    /\ now' = [now EXCEPT ![r] = clock]
    /\ UNCHANGED <<clock, byKey, granted>>

(* Under the mutex, with a token: next.ServeHTTP. *)
Allow(r) ==
    /\ pc[r] = "wait"
    /\ Tokens(EntryFor(r)) > 0
    /\ byKey' = [Evicted(r) EXCEPT ![key[r]] =
                    [tokens |-> Tokens(EntryFor(r)) - 1, stamp |-> clock, last |-> now[r]]]
    /\ pc' = [pc EXCEPT ![r] = "allowed"]
    /\ granted' = [granted EXCEPT ![key[r]] = @ + 1]
    /\ UNCHANGED <<clock, key, now>>

(* Under the mutex, without one: 429. *)
Refuse(r) ==
    /\ pc[r] = "wait"
    /\ Tokens(EntryFor(r)) = 0
    /\ byKey' = [Evicted(r) EXCEPT ![key[r]] = EntryFor(r)]
    /\ pc' = [pc EXCEPT ![r] = "refused"]
    /\ UNCHANGED <<clock, key, now, granted>>

Tick ==
    /\ clock < MaxClock
    /\ \A r \in Reqs : pc[r] = "wait" => clock < now[r] + MaxWait
    /\ clock' = clock + 1
    /\ UNCHANGED <<byKey, pc, key, now, granted>>

Next ==
    \/ \E r \in Reqs : (\E k \in Keys : Arrive(r, k)) \/ Allow(r) \/ Refuse(r)
    \/ Tick

Spec == Init /\ [][Next]_vars

-----------------------------------------------------------------------------
Level(k) == IF byKey[k] = NoEntry THEN Burst ELSE Tokens(byKey[k])

(* Types, and the bookkeeping lag that makes eviction safe: a bucket was    *)
(* last used at most MaxWait after the time that stands in its entry.       *)
TypeOK ==
    /\ clock \in Clock /\ byKey \in [Keys -> Buckets \cup {NoEntry}]
    /\ pc \in [Reqs -> {"idle", "wait", "allowed", "refused"}] /\ key \in [Reqs -> Keys]
    /\ now \in [Reqs -> Clock] /\ granted \in [Keys -> Nat]
    /\ \A r \in Reqs : now[r] <= clock /\ (pc[r] = "wait" => clock <= now[r] + MaxWait)
    /\ \A k \in Keys : byKey[k] # NoEntry =>
          /\ byKey[k].stamp <= clock /\ byKey[k].last <= clock
          /\ byKey[k].stamp <= byKey[k].last + MaxWait

(* Evicting and re-creating limiters (ratelimit.go:38-48) gives nobody more  *)
(* than the configured budget: by any time at most one burst and one request *)
(* per tick of a key have been let through, whatever was left is in the      *)
(* bucket.                                                                   *)
WithinBudget == \A k \in Keys : granted[k] + Level(k) <= Burst + clock

(* KeyedLimiter behaves like one bucket per key that is never evicted: a     *)
(* request is refused only with an empty bucket, stale clock readings and    *)
(* evictions by other keys' requests cannot be noticed.                      *)
Bucket == INSTANCE TokenBuckets WITH
    level  <- [k \in Keys |-> Level(k)],
    answer <- [r \in Reqs |-> IF pc[r] \in {"allowed", "refused"} THEN pc[r] ELSE "none"]

ActsAsTokenBuckets == Bucket!Spec
=============================================================================
