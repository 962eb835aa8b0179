---------------------------- MODULE LimiterProofs ----------------------------
(***************************************************************************)
(* Limiter keeps every key within its budget and implements TokenBuckets,    *)
(* for any keys, requests, burst, ttl and wait that satisfy                  *)
(* LimiterAssumption.  The argument: an entry is evicted only when its      *)
(* bucket has filled up again, so a fresh one is what it would be anyway.    *)
(***************************************************************************)
EXTENDS Limiter, TLAPS

USE LimiterAssumption DEF Clock, Buckets

-----------------------------------------------------------------------------
(* What Allow finds.                                                        *)

(* A bucket holds between 0 and Burst tokens, whenever it is looked at. *)
LEMMA TokensType ==
    ASSUME TypeOK, NEW k \in Keys, byKey[k] # NoEntry
    PROVE  /\ byKey[k] \in Buckets
           /\ Tokens(byKey[k]) \in 0 .. Burst
<1>1. byKey[k] \in Buckets
  BY DEF TypeOK
<1>2. byKey[k].tokens \in 0 .. Burst /\ byKey[k].stamp \in Nat /\ clock \in Nat /\ byKey[k].stamp <= clock
  BY <1>1 DEF TypeOK
<1>3. Tokens(byKey[k]) \in 0 .. Burst
  BY <1>2 DEF Tokens, Refill
<1> QED BY <1>1, <1>3

(* An entry that a waiting request evicts is full by then (ratelimit.go:33). *)
LEMMA EvictedIsFull ==
    ASSUME TypeOK, NEW r \in Reqs, NEW k \in Keys, byKey[k] # NoEntry,
           Expired(byKey[k], now[r])
    PROVE  Tokens(byKey[k]) = Burst
<1>1. byKey[k] \in Buckets
  BY DEF TypeOK
<1>2. byKey[k].tokens \in 0 .. Burst /\ byKey[k].stamp \in Nat /\ byKey[k].last \in Nat
  BY <1>1
<1>3. clock \in Nat /\ now[r] \in Nat /\ now[r] <= clock /\ byKey[k].stamp <= byKey[k].last + MaxWait
  BY DEF TypeOK
<1>4. now[r] - byKey[k].last > Ttl
  BY DEF Expired
<1>5. clock - byKey[k].stamp >= Burst
  BY <1>2, <1>3, <1>4
<1> QED BY <1>2, <1>3, <1>5 DEF Tokens, Refill

(* The bucket Allow decides on has exactly the level that it stands for. *)
LEMMA EntryLevel ==
    ASSUME TypeOK, NEW r \in Reqs
    PROVE  /\ EntryFor(r) \in Buckets
           /\ Tokens(EntryFor(r)) = Level(key[r])
           /\ Level(key[r]) \in 0 .. Burst
           /\ EntryFor(r).stamp <= clock
           /\ EntryFor(r).last = now[r]
<1> DEFINE k == key[r]
<1>1. k \in Keys /\ clock \in Nat /\ clock <= MaxClock /\ now[r] \in Clock
  BY DEF TypeOK
<1>2. CASE byKey[k] # NoEntry /\ ~Expired(byKey[k], now[r])
  <2>1. EntryFor(r) = [byKey[k] EXCEPT !.last = now[r]]
    BY <1>1, <1>2 DEF EntryFor, Evicted
  <2>2. byKey[k] \in Buckets /\ byKey[k].stamp <= clock
    BY <1>1, <1>2 DEF TypeOK
  <2>3. Tokens(EntryFor(r)) = Tokens(byKey[k])
    BY <2>1, <2>2 DEF Tokens
  <2> QED BY <1>1, <1>2, <2>1, <2>2, <2>3, TokensType DEF Level
<1>3. CASE byKey[k] = NoEntry \/ Expired(byKey[k], now[r])
  <2>1. EntryFor(r) = NewEntry(now[r])
    BY <1>1, <1>3 DEF EntryFor, Evicted
  <2>2. Tokens(EntryFor(r)) = Burst
    BY <1>1, <2>1 DEF NewEntry, Tokens, Refill
  <2>3. Level(k) = Burst
    BY <1>1, <1>3, EvictedIsFull DEF Level
  <2> QED BY <1>1, <2>1, <2>2, <2>3 DEF NewEntry
<1> QED BY <1>2, <1>3

(* Evicting entries changes no level (the other keys' included). *)
LEMMA EvictionUnnoticed ==
    ASSUME TypeOK, NEW r \in Reqs, NEW k \in Keys
    PROVE  /\ Evicted(r)[k] \in {byKey[k], NoEntry}
           /\ (IF Evicted(r)[k] = NoEntry THEN Burst ELSE Tokens(Evicted(r)[k])) = Level(k)
BY EvictedIsFull DEF Evicted, Level

-----------------------------------------------------------------------------
LEMMA InitTypeOK == Init => TypeOK
BY DEF Init, TypeOK

LEMMA NextTypeOK == TypeOK /\ [Next]_vars => TypeOK'
<1> SUFFICES ASSUME TypeOK, [Next]_vars PROVE TypeOK'
  OBVIOUS
<1>1. ASSUME NEW r \in Reqs, NEW k \in Keys, Arrive(r, k) PROVE TypeOK'
  BY <1>1 DEF TypeOK, Arrive
<1>2. ASSUME NEW r \in Reqs, Allow(r) PROVE TypeOK'
  <2> DEFINE e == [tokens |-> Tokens(EntryFor(r)) - 1, stamp |-> clock, last |-> now[r]]
  <2>1. e \in Buckets /\ e.stamp <= clock /\ e.last <= clock /\ e.stamp <= e.last + MaxWait
    BY <1>2, EntryLevel DEF TypeOK, Allow
  <2>2. e # NoEntry /\ key[r] \in Keys
    BY <2>1 DEF TypeOK
  <2>3. \A k \in Keys : byKey'[k] \in {byKey[k], NoEntry, e}
    BY <1>2, EvictionUnnoticed DEF Allow, Evicted
  <2>4. byKey' \in [Keys -> Buckets \cup {NoEntry}]
    BY <1>2, <2>1, <2>3 DEF Allow, Evicted, TypeOK
  <2>5. \A k \in Keys : byKey'[k] # NoEntry =>
          /\ byKey'[k].stamp <= clock /\ byKey'[k].last <= clock
          /\ byKey'[k].stamp <= byKey'[k].last + MaxWait
    <3> TAKE k \in Keys
    <3> HIDE DEF e
    <3> QED BY <2>1, <2>3 DEF TypeOK
  <2> HIDE DEF e
  <2> QED BY <1>2, <2>4, <2>5 DEF TypeOK, Allow
<1>3. ASSUME NEW r \in Reqs, Refuse(r) PROVE TypeOK'
  <2> DEFINE e == EntryFor(r)
  <2>0. clock \in Nat /\ now[r] \in Nat /\ now[r] <= clock /\ clock <= now[r] + MaxWait
    BY <1>3 DEF TypeOK, Refuse
  <2>1. e \in Buckets /\ e.stamp <= clock /\ e.last <= clock /\ e.stamp <= e.last + MaxWait
    BY <1>3, <2>0, EntryLevel
  <2>2. e # NoEntry /\ key[r] \in Keys
    BY <2>1 DEF TypeOK
  <2>3. \A k \in Keys : byKey'[k] \in {byKey[k], NoEntry, e}
    BY <1>3, EvictionUnnoticed DEF Refuse, Evicted
  <2>4. byKey' \in [Keys -> Buckets \cup {NoEntry}]
    BY <1>3, <2>1, <2>3 DEF Refuse, Evicted, TypeOK
  <2>5. \A k \in Keys : byKey'[k] # NoEntry =>
          /\ byKey'[k].stamp <= clock /\ byKey'[k].last <= clock
          /\ byKey'[k].stamp <= byKey'[k].last + MaxWait
    <3> TAKE k \in Keys
    <3> HIDE DEF e
    <3> QED BY <2>1, <2>3 DEF TypeOK
  <2> HIDE DEF e
  <2> QED BY <1>3, <2>4, <2>5 DEF TypeOK, Refuse
<1>4. CASE Tick
  BY <1>4 DEF TypeOK, Tick
<1>5. CASE UNCHANGED vars
  BY <1>5 DEF TypeOK, vars
<1> QED BY <1>1, <1>2, <1>3, <1>4, <1>5 DEF Next

-----------------------------------------------------------------------------
(* How each step changes the levels.                                        *)

(* Allow takes one token of the request's key and no other. *)
LEMMA AllowLevels ==
    ASSUME TypeOK, NEW r \in Reqs, Allow(r)
    PROVE  /\ Level(key[r]) \in 1 .. Burst
           /\ \A k \in Keys : Level(k)' = IF k = key[r] THEN Level(k) - 1 ELSE Level(k)
<1>1. key[r] \in Keys /\ Level(key[r]) \in 1 .. Burst
  BY EntryLevel DEF Allow, TypeOK
<1>2. ASSUME NEW k \in Keys PROVE Level(k)' = IF k = key[r] THEN Level(k) - 1 ELSE Level(k)
  <2>1. CASE k = key[r]
    <3> DEFINE e == [tokens |-> Tokens(EntryFor(r)) - 1, stamp |-> clock, last |-> now[r]]
    <3>1. byKey'[k] = e /\ clock' = clock
      BY <2>1, <1>2 DEF Allow, Evicted
    <3>2. clock \in Clock /\ now[r] \in Clock
      BY DEF TypeOK
    <3>3. e \in Buckets
      BY <3>2, <1>1, EntryLevel
    <3>4. e # NoEntry
      BY <3>3
    <3>5. Level(k)' = Refill(e.tokens, e.stamp)
      BY <3>1, <3>4 DEF Level, Tokens, Refill
    <3>6. Refill(e.tokens, e.stamp) = Level(k) - 1
      BY <3>2, <1>1, <2>1, EntryLevel DEF Refill
    <3> QED BY <3>5, <3>6, <2>1
  <2>2. CASE k # key[r]
    <3>1. byKey'[k] = Evicted(r)[k] /\ clock' = clock
      BY <2>2, <1>2 DEF Allow, Evicted
    <3> QED BY <3>1, <2>2, EvictionUnnoticed DEF Level, Tokens, Refill
  <2> QED BY <2>1, <2>2
<1> QED BY <1>1, <1>2

(* A refusal changes no level, and its key has no token. *)
LEMMA RefuseLevels ==
    ASSUME TypeOK, NEW r \in Reqs, Refuse(r)
    PROVE  /\ Level(key[r]) = 0
           /\ \A k \in Keys : Level(k)' = Level(k)
<1>1. key[r] \in Keys /\ Level(key[r]) = 0
  BY EntryLevel DEF Refuse, TypeOK
<1>2. ASSUME NEW k \in Keys PROVE Level(k)' = Level(k)
  <2>1. CASE k = key[r]
    <3>1. byKey'[k] = EntryFor(r) /\ clock' = clock
      BY <2>1, <1>2 DEF Refuse, Evicted
    <3>2. EntryFor(r) # NoEntry
      BY EntryLevel
    <3> QED BY <3>1, <3>2, <2>1, EntryLevel DEF Level, Tokens, Refill
  <2>2. CASE k # key[r]
    <3>1. byKey'[k] = Evicted(r)[k] /\ clock' = clock
      BY <2>2, <1>2 DEF Refuse, Evicted
    <3> QED BY <3>1, <2>2, EvictionUnnoticed DEF Level, Tokens, Refill
  <2> QED BY <2>1, <2>2
<1> QED BY <1>1, <1>2

(* A tick adds one token to every bucket that is not full. *)
LEMMA TickLevels ==
    ASSUME TypeOK, Tick, NEW k \in Keys
    PROVE  Level(k)' = IF Level(k) < Burst THEN Level(k) + 1 ELSE Burst
<1>1. CASE byKey[k] = NoEntry
  BY <1>1 DEF Level, Tick
<1>2. CASE byKey[k] # NoEntry
  <2>1. byKey[k] \in Buckets /\ byKey[k].stamp <= clock /\ clock \in Nat
    BY <1>2 DEF TypeOK
  <2>2. byKey[k].tokens \in 0 .. Burst /\ byKey[k].stamp \in Nat
    BY <2>1
  <2> QED BY <1>2, <2>1, <2>2 DEF Level, Tokens, Refill, Tick
<1> QED BY <1>1, <1>2

LEMMA LevelType == ASSUME TypeOK, NEW k \in Keys PROVE Level(k) \in 0 .. Burst
BY TokensType DEF Level

(* The other steps touch no level. *)
LEMMA SameLevels ==
    ASSUME UNCHANGED <<clock, byKey>>, NEW k \in Keys PROVE Level(k)' = Level(k)
BY DEF Level, Tokens, Refill

-----------------------------------------------------------------------------
(* The model of KeyedLimiter is type correct, and an entry's `last` lags its *)
(* bucket by at most the longest wait for the mutex.                         *)
THEOREM TypeCorrect == Spec => []TypeOK
BY InitTypeOK, NextTypeOK, PTL DEF Spec

LEMMA InitBudget == Init => WithinBudget
<1> SUFFICES ASSUME Init, NEW k \in Keys PROVE granted[k] + Level(k) <= Burst + clock
  BY DEF WithinBudget
<1>1. granted[k] = 0 /\ clock = 0 /\ byKey[k] = NoEntry
  BY DEF Init
<1>2. Level(k) = Burst
  BY <1>1 DEF Level
<1> QED BY <1>1, <1>2

LEMMA NextBudget == TypeOK /\ WithinBudget /\ [Next]_vars => WithinBudget'
<1> SUFFICES ASSUME TypeOK, WithinBudget, [Next]_vars, NEW k \in Keys
             PROVE  (granted[k] + Level(k) <= Burst + clock)'
  BY DEF WithinBudget
<1>0. granted \in [Keys -> Nat] /\ clock \in Nat /\ Level(k) \in 0 .. Burst
      /\ granted[k] + Level(k) <= Burst + clock
  BY LevelType DEF TypeOK, WithinBudget
<1>1. ASSUME NEW r \in Reqs, NEW kk \in Keys, Arrive(r, kk)
      PROVE  (granted[k] + Level(k) <= Burst + clock)'
  BY <1>0, <1>1, SameLevels DEF Arrive
<1>2. ASSUME NEW r \in Reqs, Allow(r) PROVE (granted[k] + Level(k) <= Burst + clock)'
  <2>1. Level(k)' = IF k = key[r] THEN Level(k) - 1 ELSE Level(k)
    BY <1>2, AllowLevels
  <2>2. granted'[k] = (IF k = key[r] THEN granted[k] + 1 ELSE granted[k]) /\ clock' = clock
    BY <1>0, <1>2 DEF Allow
  <2> QED BY <1>0, <2>1, <2>2
<1>3. ASSUME NEW r \in Reqs, Refuse(r) PROVE (granted[k] + Level(k) <= Burst + clock)'
  BY <1>0, <1>3, RefuseLevels DEF Refuse
<1>4. CASE Tick
  <2>1. Level(k)' <= Level(k) + 1 /\ Level(k)' \in Nat
    BY <1>0, <1>4, TickLevels
  <2> QED BY <1>0, <1>4, <2>1 DEF Tick
<1>5. CASE UNCHANGED vars
  BY <1>0, <1>5, SameLevels DEF vars
<1> QED BY <1>1, <1>2, <1>3, <1>4, <1>5 DEF Next

(* However requests race, wait for the mutex and evict each other's entries, *)
(* no key is ever given more than one burst and its rate.                    *)
THEOREM BudgetKept == Spec => []WithinBudget
<1>1. Spec => []TypeOK
  BY TypeCorrect
<1>2. Init => WithinBudget
  BY InitBudget
<1>3. TypeOK /\ WithinBudget /\ [Next]_vars => WithinBudget'
  BY NextBudget
<1> QED BY <1>1, <1>2, <1>3, PTL DEF Spec

-----------------------------------------------------------------------------
AnswerOf(r) == IF pc[r] \in {"allowed", "refused"} THEN pc[r] ELSE "none"

LEMMA InitRefines == Init => Bucket!Init
BY DEF Init, Bucket!Init, Level

LEMMA NextRefines == TypeOK /\ [Next]_vars => [Bucket!Next]_(Bucket!vars)
<1> DEFINE level  == [k \in Keys |-> Level(k)]
           answer == [r \in Reqs |-> AnswerOf(r)]
<1> SUFFICES ASSUME TypeOK, [Next]_vars PROVE [Bucket!Next]_(Bucket!vars)
  OBVIOUS
<1>0. pc \in [Reqs -> {"idle", "wait", "allowed", "refused"}] /\ key \in [Reqs -> Keys]
  BY DEF TypeOK
<1>1. ASSUME NEW r \in Reqs, NEW k \in Keys, Arrive(r, k) PROVE Bucket!Ask(r)
  <2>1. level' = level
    BY <1>1, SameLevels DEF Arrive
  <2>2. answer' = [answer EXCEPT ![r] = "none"]
    BY <1>0, <1>1 DEF Arrive, AnswerOf
  <2> QED BY <2>1, <2>2 DEF Bucket!Ask, AnswerOf
<1>2. ASSUME NEW r \in Reqs, Allow(r) PROVE Bucket!Next
  <2> PICK k \in Keys : k = key[r]
    BY <1>0
  <2>0. Level(k) > 0 /\ \A x \in Keys : Level(x)' = IF x = k THEN Level(x) - 1 ELSE Level(x)
    BY <1>2, AllowLevels
  <2>1. level' = [level EXCEPT ![k] = @ - 1] /\ level[k] > 0
    BY <2>0
  <2>2. answer' = [answer EXCEPT ![r] = "allowed"] /\ answer[r] = "none"
    BY <1>0, <1>2 DEF Allow, AnswerOf
  <2>3. Bucket!Allow(r, k)
    BY <2>1, <2>2 DEF Bucket!Allow, AnswerOf
  <2> QED BY <2>3 DEF Bucket!Next
<1>3. ASSUME NEW r \in Reqs, Refuse(r) PROVE Bucket!Next
  <2> PICK k \in Keys : k = key[r]
    BY <1>0
  <2>1. level' = level /\ level[k] = 0
    BY <1>0, <1>3, RefuseLevels
  <2>2. answer' = [answer EXCEPT ![r] = "refused"] /\ answer[r] = "none"
    BY <1>0, <1>3 DEF Refuse, AnswerOf
  <2>3. Bucket!Refuse(r, k)
    BY <2>1, <2>2 DEF Bucket!Refuse, AnswerOf
  <2> QED BY <2>3 DEF Bucket!Next
<1>4. CASE Tick
  <2>1. level' = [k \in Keys |-> IF level[k] < Burst THEN level[k] + 1 ELSE Burst]
    BY <1>4, TickLevels
  <2>2. answer' = answer
    BY <1>4 DEF Tick, AnswerOf
  <2>3. Bucket!Tick
    BY <2>1, <2>2 DEF Bucket!Tick, AnswerOf
  <2> QED BY <2>3 DEF Bucket!Next
<1>5. CASE UNCHANGED vars
  <2>1. level' = level /\ answer' = answer
    BY <1>5, SameLevels DEF vars, AnswerOf
  <2> QED BY <2>1 DEF Bucket!vars, AnswerOf
<1>6. ASSUME NEW r \in Reqs, NEW k \in Keys, Arrive(r, k) PROVE Bucket!Next
  BY <1>1, <1>6 DEF Bucket!Next
<1> QED BY <1>2, <1>3, <1>4, <1>5, <1>6 DEF Next

(* KeyedLimiter implements TokenBuckets: neither eviction nor the time read  *)
(* before the mutex can be told from buckets that are kept for ever.         *)
THEOREM Implements == Spec => ActsAsTokenBuckets
<1>1. Spec => []TypeOK
  BY TypeCorrect
<1>2. Init => Bucket!Init
  BY InitRefines
<1>3. TypeOK /\ [Next]_vars => [Bucket!Next]_(Bucket!vars)
  BY NextRefines
<1> QED BY <1>1, <1>2, <1>3, PTL DEF Spec, ActsAsTokenBuckets, Bucket!Spec
=============================================================================
