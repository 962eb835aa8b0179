--------------------------- MODULE PresenceProofs ---------------------------
(***************************************************************************)
(* Proofs about Presence for any finite set of connections, any placement   *)
(* on instances and any set of faults, and about Notifier, which reads the   *)
(* presence counter, for any finite set of events.                          *)
(*                                                                         *)
(* The argument: the counter never exceeds the number of connections that   *)
(* have issued (or skipped, on error) INCR and not yet issued DECR.  Hence  *)
(* the DECR that leaves no such connection replies with at most 0, and its  *)
(* Disconnect goes on to HDEL and to publish "offline" after every HSET and *)
(* every "online".                                                         *)
(***************************************************************************)
EXTENDS Presence, Notifier, FiniteSetTheorems, TLAPS

\* Between INCR and DECR.
ActiveSteps == {"expirefirst", "expire", "hset", "pubonline", "live"}
Active == {c \in Conns : pc[c] \in ActiveSteps}

CountBound ==
    faults \cap {"crash", "decr"} = {} => count <= Cardinality(Active)

NamedIsOwned ==
    (named /\ faults \cap {"crash", "decr", "hdel"} = {})
        => \E c \in Conns : pc[c] \in ActiveSteps \cup {"del", "hdel"}

OnlineIsOwned ==
    (published = "online" /\ faults \cap {"crash", "decr", "publish"} = {})
        => \E c \in Conns : pc[c] \in ActiveSteps \cup {"del", "hdel", "puboffline"}

IInv == TypeOK /\ CountBound /\ NamedIsOwned /\ OnlineIsOwned

-----------------------------------------------------------------------------
\* Active is finite, so its cardinality is a natural number.
LEMMA ActiveFinite == IsFiniteSet(Active) /\ Cardinality(Active) \in Nat
<1>1. Active \subseteq Conns
  BY DEF Active
<1>2. IsFiniteSet(Active)
  BY <1>1, ConnsFinite, FS_Subset
<1>3. QED
  BY <1>2, FS_CardinalityType

\* A connection that starts to be active raises the number of active ones by one.
LEMMA ActiveGrows ==
  ASSUME TypeOK, NEW c \in Conns, NEW s \in ActiveSteps,
         pc[c] \notin ActiveSteps, pc' = [pc EXCEPT ![c] = s]
  PROVE  Cardinality(Active') = Cardinality(Active) + 1
<1>1. Active' = Active \cup {c} /\ c \notin Active
  BY DEF Active, TypeOK
<1>2. QED
  BY <1>1, ActiveFinite, FS_AddElement

\* A connection that stops being active lowers it by one.
LEMMA ActiveShrinks ==
  ASSUME TypeOK, NEW c \in Conns, NEW s \in Steps \ ActiveSteps,
         pc[c] \in ActiveSteps, pc' = [pc EXCEPT ![c] = s]
  PROVE  /\ Active' = Active \ {c}
         /\ Cardinality(Active') = Cardinality(Active) - 1
<1>1. Active' = Active \ {c} /\ c \in Active
  BY DEF Active, TypeOK, Steps, ActiveSteps
<1>2. QED
  BY <1>1, ActiveFinite, FS_RemoveElement

\* Any other change of one connection's step leaves the set alone.
LEMMA ActiveSame ==
  ASSUME TypeOK, NEW c \in Conns, NEW s \in Steps,
         pc[c] \in ActiveSteps <=> s \in ActiveSteps, pc' = [pc EXCEPT ![c] = s]
  PROVE  Active' = Active
BY DEF Active, TypeOK

-----------------------------------------------------------------------------
\* Moving one connection to its next command keeps pc's type.
LEMMA GoesType ==
  ASSUME TypeOK, NEW c \in Conns, NEW s \in Steps, Goes(c, s)
  PROVE  pc' \in [Conns -> Steps]
BY DEF TypeOK, Goes

\* Whether a command works or fails, only lasting kinds of fault are recorded.
LEMMA FaultsType ==
  ASSUME TypeOK, NEW k, Works \/ Fails(k)
  PROVE  faults' \subseteq Lasting
BY DEF TypeOK, Works, Fails

\* Publishing keeps the types of the channel and of the last status.
LEMMA PublishType ==
  ASSUME TypeOK, NEW s \in {"online", "offline"}, Publish(s)
  PROVE  /\ channel' \in Seq({"online", "offline"}) /\ published' \in Statuses
         /\ faults' \subseteq Lasting
<1>1. CASE Works /\ channel' = Append(channel, s) /\ published' = s
  <2>1. channel \in Seq({"online", "offline"})
    BY DEF TypeOK
  <2>2. channel' \in Seq({"online", "offline"})
    BY <1>1, <2>1
  <2>3. published' \in Statuses
    BY <1>1 DEF Statuses
  <2>4. QED
    BY <1>1, <2>2, <2>3, FaultsType
<1>2. CASE Fails("publish") /\ UNCHANGED events
  BY <1>2, FaultsType DEF events, TypeOK
<1>3. QED
  BY <1>1, <1>2 DEF Publish

\* TypeOK is inductive.
LEMMA TypeStep == TypeOK /\ [Next]_vars => TypeOK'
<1> SUFFICES ASSUME TypeOK, [Next]_vars PROVE TypeOK'
  OBVIOUS
<1> USE DEF redis, events, follower
<1>1. ASSUME NEW c \in Conns, ConnectStep(c) PROVE TypeOK'
  <2>1. CASE Incr(c)
    <3>1. PICK s \in Steps : Goes(c, s)
      BY <2>1 DEF Incr, Steps
    <3>2. pc' \in [Conns -> Steps] /\ faults' \subseteq Lasting
      BY <2>1, <3>1, GoesType, FaultsType DEF Incr
    <3>3. exists' \in BOOLEAN /\ hasTTL' \in BOOLEAN /\ named' \in BOOLEAN
      BY <2>1, Zenon DEF Incr, TypeOK
    <3>4. count' \in Int
      BY <2>1 DEF Incr, TypeOK
    <3>5. QED
      BY <2>1, <3>2, <3>3, <3>4 DEF Incr, TypeOK
  <2>2. CASE Expire(c)
    <3>1. PICK s \in Steps : Goes(c, s)
      BY <2>2 DEF Expire, Steps
    <3>2. pc' \in [Conns -> Steps] /\ faults' \subseteq Lasting
      BY <2>2, <3>1, GoesType, FaultsType DEF Expire
    <3>3. QED
      BY <2>2, <3>2 DEF Expire, SetTTL, TypeOK
  <2>3. CASE HSet(c)
    <3>1. pc' \in [Conns -> Steps] /\ faults' \subseteq Lasting
      BY <2>3, GoesType, FaultsType DEF HSet, Steps
    <3>2. QED
      BY <2>3, <3>1 DEF HSet, TypeOK
  <2>4. CASE PublishOnline(c)
    <3>1. pc' \in [Conns -> Steps]
      BY <2>4, GoesType DEF PublishOnline, Steps
    <3>2. QED
      BY <2>4, <3>1, PublishType DEF PublishOnline, TypeOK
  <2>5. QED BY <1>1, <2>1, <2>2, <2>3, <2>4 DEF ConnectStep
<1>2. ASSUME NEW c \in Conns, Refresh(c) PROVE TypeOK'
  BY <1>2, FaultsType DEF Refresh, SetTTL, TypeOK
<1>3. ASSUME NEW c \in Conns, DisconnectStep(c) PROVE TypeOK'
  <2>1. CASE Decr(c)
    <3>1. PICK s \in Steps : Goes(c, s)
      BY <2>1 DEF Decr, Steps
    <3>2. pc' \in [Conns -> Steps] /\ faults' \subseteq Lasting
      BY <2>1, <3>1, GoesType, FaultsType DEF Decr
    <3>3. exists' \in BOOLEAN /\ hasTTL' \in BOOLEAN /\ named' \in BOOLEAN
      BY <2>1, Zenon DEF Decr, TypeOK
    <3>4. count' \in Int
      BY <2>1 DEF Decr, TypeOK
    <3>5. QED
      BY <2>1, <3>2, <3>3, <3>4 DEF Decr, TypeOK
  <2>2. CASE Del(c)
    <3>1. pc' \in [Conns -> Steps] /\ faults' \subseteq Lasting
      BY <2>2, GoesType, FaultsType DEF Del, Steps
    <3>2. exists' \in BOOLEAN /\ hasTTL' \in BOOLEAN /\ named' \in BOOLEAN
      BY <2>2, Zenon DEF Del, KeyGone, TypeOK
    <3>3. count' \in Int
      BY <2>2 DEF Del, KeyGone, TypeOK
    <3>4. QED
      BY <2>2, <3>1, <3>2, <3>3 DEF Del, TypeOK
  <2>3. CASE HDel(c)
    <3>1. pc' \in [Conns -> Steps] /\ faults' \subseteq Lasting
      BY <2>3, GoesType, FaultsType DEF HDel, Steps
    <3>2. QED
      BY <2>3, <3>1 DEF HDel, TypeOK
  <2>4. CASE PublishOffline(c)
    <3>1. pc' \in [Conns -> Steps]
      BY <2>4, GoesType DEF PublishOffline, Steps
    <3>2. QED
      BY <2>4, <3>1, PublishType DEF PublishOffline, TypeOK
  <2>5. QED BY <1>3, <2>1, <2>2, <2>3, <2>4 DEF DisconnectStep
<1>4. ASSUME NEW i \in Instances, Crash(i) PROVE TypeOK'
  <2>1. pc' \in [Conns -> Steps]
    BY <1>4 DEF Crash, TypeOK, Steps
  <2>2. QED
    BY <1>4, <2>1, FaultsType DEF Crash, TypeOK
<1>5. CASE ExpireKey
  <2>1. exists' \in BOOLEAN /\ hasTTL' \in BOOLEAN /\ named' \in BOOLEAN
    BY <1>5, Zenon DEF ExpireKey, KeyGone, TypeOK
  <2>2. count' \in Int
    BY <1>5 DEF ExpireKey, KeyGone, TypeOK
  <2>3. QED
    BY <1>5, <2>1, <2>2, FaultsType DEF ExpireKey, TypeOK
<1>6. CASE FollowerStep
  <2>1. CASE FollowerAdded
    BY <2>1 DEF FollowerAdded, TypeOK
  <2>2. CASE GetSnapshot
    BY <2>2 DEF GetSnapshot, TypeOK
  <2>3. CASE SendSnapshot
    BY <2>3 DEF SendSnapshot, TypeOK, Statuses
  <2>4. CASE Deliver
    <3>1. /\ channel' \in Seq({"online", "offline"})
          /\ Head(channel) \in {"online", "offline"}
      BY <2>4 DEF Deliver, TypeOK
    <3>2. view' \in Statuses
      BY <2>4, <3>1 DEF Deliver, TypeOK, Statuses
    <3>3. raced' \in BOOLEAN
      BY <2>4 DEF Deliver, TypeOK
    <3>4. faults' \subseteq Lasting
      BY <2>4, FaultsType DEF Deliver
    <3>5. QED
      BY <2>4, <3>1, <3>2, <3>3, <3>4 DEF Deliver, TypeOK
  <2>5. QED BY <1>6, <2>1, <2>2, <2>3, <2>4 DEF FollowerStep
<1>7. CASE UNCHANGED vars BY <1>7 DEF vars, TypeOK
<1>8. QED
  BY <1>1, <1>2, <1>3, <1>4, <1>5, <1>6, <1>7 DEF Next

-----------------------------------------------------------------------------
\* The counter's bound is inductive: INCR and DECR move both sides together, a
\* failed INCR raises only the right side, DEL and expiry reset the left to 0.
LEMMA CountStep == IInv /\ [Next]_vars => CountBound'
<1> SUFFICES ASSUME IInv, [Next]_vars, (faults \cap {"crash", "decr"} = {})'
             PROVE  count' <= Cardinality(Active')
  BY DEF CountBound
<1> USE DEF redis, events, follower
<1>a. TypeOK /\ CountBound
  BY DEF IInv
<1>b. count \in Int /\ Cardinality(Active) \in Nat /\ pc \in [Conns -> Steps]
  BY <1>a, ActiveFinite DEF TypeOK
<1>c. /\ faults \subseteq faults'
      /\ "decr" \notin faults' /\ "crash" \notin faults'
  <2>1. faults' = faults \/ \E k : faults' = faults \cup ({k} \cap Lasting)
    BY Zenon DEF Next, ConnectStep, Incr, Expire, HSet, PublishOnline, Refresh, DisconnectStep,
       Decr, Del, HDel, PublishOffline, Crash, ExpireKey, FollowerStep, FollowerAdded,
       GetSnapshot, SendSnapshot, Deliver, Publish, Works, Fails, vars
  <2>2. QED
    BY <2>1
<1>d. count <= Cardinality(Active)
  BY <1>a, <1>c DEF CountBound
<1>1. ASSUME NEW c \in Conns, ConnectStep(c) PROVE count' <= Cardinality(Active')
  <2>1. CASE Incr(c)
    <3>1. PICK s \in ActiveSteps : Goes(c, s)
      BY <2>1 DEF Incr, ActiveSteps
    <3>2. Cardinality(Active') = Cardinality(Active) + 1
      BY <1>a, <2>1, <3>1, ActiveGrows DEF Incr, Goes, ActiveSteps
    <3>3. count' \in Int /\ count' <= count + 1
      BY <1>b, <2>1 DEF Incr
    <3>4. QED
      BY <1>b, <1>d, <3>2, <3>3
  <2>2. CASE Expire(c)
    <3>1. PICK s \in ActiveSteps : Goes(c, s)
      BY <2>2 DEF Expire, ActiveSteps
    <3>2. Active' = Active
      BY <1>a, <2>2, <3>1, ActiveSame DEF Expire, Goes, ActiveSteps, Steps
    <3>3. QED
      BY <1>d, <2>2, <3>2 DEF Expire
  <2>3. CASE HSet(c)
    <3>1. Active' = Active
      BY <1>a, <2>3, ActiveSame DEF HSet, Goes, ActiveSteps, Steps
    <3>2. QED
      BY <1>d, <2>3, <3>1 DEF HSet
  <2>4. CASE PublishOnline(c)
    <3>1. Active' = Active
      BY <1>a, <2>4, ActiveSame DEF PublishOnline, Goes, ActiveSteps, Steps
    <3>2. QED
      BY <1>d, <2>4, <3>1 DEF PublishOnline
  <2>5. QED BY <1>1, <2>1, <2>2, <2>3, <2>4 DEF ConnectStep
<1>2. ASSUME NEW c \in Conns, Refresh(c) PROVE count' <= Cardinality(Active')
  BY <1>2, <1>d DEF Refresh, Active
<1>3. ASSUME NEW c \in Conns, DisconnectStep(c) PROVE count' <= Cardinality(Active')
  <2>1. CASE Decr(c)
    <3>1. Works /\ count' = count - 1
      BY <2>1, <1>c DEF Decr, Fails, Lasting
    <3>2. PICK s \in Steps \ ActiveSteps : Goes(c, s)
      BY <2>1 DEF Decr, Steps, ActiveSteps
    <3>3. Cardinality(Active') = Cardinality(Active) - 1
      BY <1>a, <2>1, <3>2, ActiveShrinks DEF Decr, Goes, ActiveSteps
    <3>4. QED
      BY <1>b, <1>d, <3>1, <3>3
  <2>2. CASE Del(c)
    <3>1. Active' = Active
      BY <1>a, <2>2, ActiveSame DEF Del, Goes, ActiveSteps, Steps
    <3>2. count' = 0 \/ count' = count
      BY <2>2 DEF Del, KeyGone
    <3>3. QED
      BY <1>b, <1>d, <3>1, <3>2
  <2>3. CASE HDel(c)
    <3>1. Active' = Active
      BY <1>a, <2>3, ActiveSame DEF HDel, Goes, ActiveSteps, Steps
    <3>2. QED
      BY <1>d, <2>3, <3>1 DEF HDel
  <2>4. CASE PublishOffline(c)
    <3>1. Active' = Active
      BY <1>a, <2>4, ActiveSame DEF PublishOffline, Goes, ActiveSteps, Steps
    <3>2. QED
      BY <1>d, <2>4, <3>1 DEF PublishOffline
  <2>5. QED BY <1>3, <2>1, <2>2, <2>3, <2>4 DEF DisconnectStep
<1>4. ASSUME NEW i \in Instances, Crash(i) PROVE count' <= Cardinality(Active')
  BY <1>4, <1>c DEF Crash, Fails, Lasting
<1>5. CASE ExpireKey
  BY <1>5, <1>b DEF ExpireKey, KeyGone, Active
<1>6. CASE FollowerStep
  BY <1>6, <1>d DEF FollowerStep, FollowerAdded, GetSnapshot, SendSnapshot, Deliver, Active
<1>7. CASE UNCHANGED vars
  BY <1>7, <1>d DEF vars, Active
<1>8. QED
  BY <1>1, <1>2, <1>3, <1>4, <1>5, <1>6, <1>7 DEF Next

-----------------------------------------------------------------------------
\* The Disconnect of the last active connection sees a reply of at most 0, so it
\* goes on to DEL, HDEL and the "offline" event.
LEMMA LastDecr ==
  ASSUME IInv, NEW c \in Conns, Decr(c),
         "decr" \notin faults', "crash" \notin faults
  PROVE  pc'[c] = "del" \/ \E d \in Conns : d # c /\ pc'[d] \in ActiveSteps
<1>1. /\ TypeOK /\ pc \in [Conns -> Steps] /\ count \in Int
      /\ pc[c] = "live" /\ Works
      /\ Goes(c, IF NoneLeft(count - 1) THEN "del" ELSE "done")
  BY DEF IInv, TypeOK, Decr, Fails, Lasting
<1>2. count <= Cardinality(Active)
  BY <1>1 DEF IInv, CountBound, Works
<1>3. CASE \E d \in Conns : d # c /\ pc[d] \in ActiveSteps
  BY <1>1, <1>3 DEF Goes
<1>4. CASE ~ \E d \in Conns : d # c /\ pc[d] \in ActiveSteps
  <2>1. Active = {c}
    BY <1>1, <1>4 DEF Active, ActiveSteps
  <2>2. Cardinality(Active) = 1
    BY <2>1, FS_Singleton
  <2>3. NoneLeft(count - 1)
    BY <1>1, <1>2, <2>2 DEF NoneLeft
  <2>4. QED
    BY <1>1, <2>3 DEF Goes
<1>5. QED
  BY <1>3, <1>4

\* A step that is neither DECR nor the end of a Disconnect keeps a connection
\* among those that still answer for the user's entry.
LEMMA NamedStep == IInv /\ [Next]_vars => NamedIsOwned'
<1> DEFINE Owners == ActiveSteps \cup {"del", "hdel"}
<1> SUFFICES ASSUME IInv, [Next]_vars, named',
                    (faults \cap {"crash", "decr", "hdel"} = {})'
             PROVE  \E c \in Conns : pc'[c] \in Owners
  BY DEF NamedIsOwned
<1> USE DEF redis, events, follower
<1>a. TypeOK /\ pc \in [Conns -> Steps]
  BY DEF IInv, TypeOK
<1>b. faults \subseteq faults'
  BY Zenon DEF Next, ConnectStep, Incr, Expire, HSet, PublishOnline, Refresh, DisconnectStep,
     Decr, Del, HDel, PublishOffline, Crash, ExpireKey, FollowerStep, FollowerAdded,
     GetSnapshot, SendSnapshot, Deliver, Publish, Works, Fails, vars
<1>c. /\ "crash" \notin faults' /\ "decr" \notin faults' /\ "hdel" \notin faults'
      /\ faults \cap {"crash", "decr", "hdel"} = {}
  BY <1>b
<1>d. named => \E c \in Conns : pc[c] \in Owners
  BY <1>c DEF IInv, NamedIsOwned
<1>1. ASSUME NEW c \in Conns, ConnectStep(c) PROVE \E d \in Conns : pc'[d] \in Owners
  <2>1. pc'[c] \in ActiveSteps
    BY <1>1, <1>a DEF ConnectStep, Incr, Expire, HSet, PublishOnline, Goes, ActiveSteps
  <2>2. QED
    BY <2>1
<1>2. ASSUME NEW c \in Conns, Refresh(c) PROVE \E d \in Conns : pc'[d] \in Owners
  BY <1>2, <1>d DEF Refresh
<1>3. ASSUME NEW c \in Conns, DisconnectStep(c) PROVE \E d \in Conns : pc'[d] \in Owners
  <2>1. CASE Decr(c)
    BY <2>1, <1>c, LastDecr
  <2>2. CASE Del(c)
    BY <2>2, <1>a DEF Del, Goes
  <2>3. CASE HDel(c)
    BY <2>3, <1>c DEF HDel, Fails, Lasting
  <2>4. CASE PublishOffline(c)
    <3>1. PICK d \in Conns : pc[d] \in Owners
      BY <2>4, <1>d DEF PublishOffline
    <3>2. d # c
      BY <2>4, <3>1 DEF PublishOffline, ActiveSteps
    <3>3. QED
      BY <2>4, <1>a, <3>1, <3>2 DEF PublishOffline, Goes
  <2>5. QED BY <1>3, <2>1, <2>2, <2>3, <2>4 DEF DisconnectStep
<1>4. ASSUME NEW i \in Instances, Crash(i) PROVE \E d \in Conns : pc'[d] \in Owners
  BY <1>4, <1>c DEF Crash, Fails, Lasting
<1>5. CASE ExpireKey
  BY <1>5, <1>d DEF ExpireKey
<1>6. CASE FollowerStep
  BY <1>6, <1>d DEF FollowerStep, FollowerAdded, GetSnapshot, SendSnapshot, Deliver
<1>7. CASE UNCHANGED vars
  BY <1>7, <1>d DEF vars
<1>8. QED
  BY <1>1, <1>2, <1>3, <1>4, <1>5, <1>6, <1>7 DEF Next

\* The same for the last event published.
LEMMA OnlineStep == IInv /\ [Next]_vars => OnlineIsOwned'
<1> DEFINE Owners == ActiveSteps \cup {"del", "hdel", "puboffline"}
<1> SUFFICES ASSUME IInv, [Next]_vars, published' = "online",
                    (faults \cap {"crash", "decr", "publish"} = {})'
             PROVE  \E c \in Conns : pc'[c] \in Owners
  BY DEF OnlineIsOwned
<1> USE DEF redis, events, follower
<1>a. TypeOK /\ pc \in [Conns -> Steps]
  BY DEF IInv, TypeOK
<1>b. faults \subseteq faults'
  BY Zenon DEF Next, ConnectStep, Incr, Expire, HSet, PublishOnline, Refresh, DisconnectStep,
     Decr, Del, HDel, PublishOffline, Crash, ExpireKey, FollowerStep, FollowerAdded,
     GetSnapshot, SendSnapshot, Deliver, Publish, Works, Fails, vars
<1>c. /\ "crash" \notin faults' /\ "decr" \notin faults' /\ "publish" \notin faults'
      /\ faults \cap {"crash", "decr", "publish"} = {}
  BY <1>b
<1>d. published = "online" => \E c \in Conns : pc[c] \in Owners
  BY <1>c DEF IInv, OnlineIsOwned
<1>1. ASSUME NEW c \in Conns, ConnectStep(c) PROVE \E d \in Conns : pc'[d] \in Owners
  <2>1. pc'[c] \in ActiveSteps
    BY <1>1, <1>a DEF ConnectStep, Incr, Expire, HSet, PublishOnline, Goes, ActiveSteps
  <2>2. QED
    BY <2>1
<1>2. ASSUME NEW c \in Conns, Refresh(c) PROVE \E d \in Conns : pc'[d] \in Owners
  BY <1>2, <1>d DEF Refresh
<1>3. ASSUME NEW c \in Conns, DisconnectStep(c) PROVE \E d \in Conns : pc'[d] \in Owners
  <2>1. CASE Decr(c)
    BY <2>1, <1>c, LastDecr
  <2>2. CASE Del(c)
    BY <2>2, <1>a DEF Del, Goes
  <2>3. CASE HDel(c)
    BY <2>3, <1>a DEF HDel, Goes
  <2>4. CASE PublishOffline(c)
    BY <2>4, <1>c DEF PublishOffline, Publish, Fails, Lasting
  <2>5. QED BY <1>3, <2>1, <2>2, <2>3, <2>4 DEF DisconnectStep
<1>4. ASSUME NEW i \in Instances, Crash(i) PROVE \E d \in Conns : pc'[d] \in Owners
  BY <1>4, <1>c DEF Crash, Fails, Lasting
<1>5. CASE ExpireKey
  BY <1>5, <1>d DEF ExpireKey
<1>6. CASE FollowerStep
  BY <1>6, <1>d DEF FollowerStep, FollowerAdded, GetSnapshot, SendSnapshot, Deliver
<1>7. CASE UNCHANGED vars
  BY <1>7, <1>d DEF vars
<1>8. QED
  BY <1>1, <1>2, <1>3, <1>4, <1>5, <1>6, <1>7 DEF Next

-----------------------------------------------------------------------------
\* The inductive invariant holds in every reachable state.
THEOREM Invariance == Spec => []IInv
<1>1. Init => IInv
  <2>1. ASSUME Init PROVE TypeOK
    <3>1. exists \in BOOLEAN /\ hasTTL \in BOOLEAN /\ named \in BOOLEAN
      BY <2>1, Zenon DEF Init
    <3>2. pc \in [Conns -> Steps]
      BY <2>1 DEF Init, Steps
    <3>3. snap \in BOOLEAN /\ raced \in BOOLEAN
      BY <2>1, Zenon DEF Init
    <3>4. count \in Int /\ channel \in Seq({"online", "offline"}) /\ faults \subseteq Lasting
      BY <2>1 DEF Init
    <3>5. published \in Statuses /\ view \in Statuses /\ fpc \in {"off", "added", "snapshot", "live"}
      BY <2>1 DEF Init, Statuses
    <3>6. QED
      BY <3>1, <3>2, <3>3, <3>4, <3>5 DEF TypeOK
  <2>2. Init => CountBound
    BY ActiveFinite DEF Init, CountBound
  <2>3. Init => NamedIsOwned /\ OnlineIsOwned
    BY DEF Init, NamedIsOwned, OnlineIsOwned
  <2>4. QED
    BY <2>1, <2>2, <2>3 DEF IInv
<1>2. IInv /\ [Next]_vars => IInv'
  BY TypeStep, CountStep, NamedStep, OnlineStep DEF IInv
<1>3. QED
  BY <1>1, <1>2, PTL DEF Spec

\* The presence state is well typed in every reachable state (Connect, Disconnect,
\* Refresh, GetSnapshot and StartPresenceSubscriber keep its types).
THEOREM TypeCorrect == Spec => []TypeOK
<1>1. IInv => TypeOK
  BY DEF IInv
<1>2. QED
  BY <1>1, Invariance, PTL

\* A user none of whose connections is open is never left in presence:names,
\* unless an instance crashed or a DECR or HDEL failed.
THEOREM GhostFree == Spec => []NoGhostOnline
<1>1. IInv => NoGhostOnline
  BY DEF IInv, NamedIsOwned, NoGhostOnline, Quiescent, ActiveSteps
<1>2. QED
  BY <1>1, Invariance, PTL

\* ... and the last presence event published about it is not "online", unless an
\* instance crashed or a DECR or PUBLISH failed.
THEOREM OfflineAnnounced == Spec => []LastEventIsOffline
<1>1. IInv => LastEventIsOffline
  BY DEF IInv, OnlineIsOwned, LastEventIsOffline, Quiescent, ActiveSteps
<1>2. QED
  BY <1>1, Invariance, PTL

-----------------------------------------------------------------------------
(* The follower.  That it shows "online" with nothing left to deliver is      *)
(* wrong only once nobody answers for the user any more; the step that ends   *)
(* this is PublishOffline, which leaves its event in the channel.             *)

Answering == \E c \in Conns : pc[c] \in ActiveSteps \cup {"del", "hdel", "puboffline"}

\* PUBLISH keeps the order: the newest event not yet delivered is the last one.
LastIsPublished == channel # <<>> => channel[Len(channel)] = published

\* What makes, or is about to make, the follower show "online" is backed by a
\* connection or will be corrected by an event.
FollowerIsCorrected ==
    (/\ faults = {} /\ ~raced
     /\ view = "online" \/ (fpc = "snapshot" /\ snap)) => (Answering \/ channel # <<>>)

\* Before addClient nothing reaches the follower.
OffShowsNothing == fpc = "off" => view = "none"

FInv == IInv /\ LastIsPublished /\ OffShowsNothing /\ FollowerIsCorrected

\* The fault history only grows.
LEMMA FaultsGrow == [Next]_vars => faults \subseteq faults'
BY Zenon DEF Next, ConnectStep, Incr, Expire, HSet, PublishOnline, Refresh, DisconnectStep,
   Decr, Del, HDel, PublishOffline, Crash, ExpireKey, FollowerStep, FollowerAdded,
   GetSnapshot, SendSnapshot, Deliver, Publish, Works, Fails, vars, redis, events, follower

\* The channel after a publication and after a delivery.
LEMMA ChannelEntries ==
  ASSUME NEW q \in Seq({"online", "offline"}), NEW e \in {"online", "offline"}
  PROVE  /\ Append(q, e) # <<>> /\ Append(q, e)[Len(Append(q, e))] = e
         /\ q # <<>> => /\ Head(q) \in {"online", "offline"}
                        /\ Tail(q) # <<>> => Tail(q)[Len(Tail(q))] = q[Len(q)]
                        /\ Tail(q) = <<>> => Head(q) = q[Len(q)]
<1>1. Append(q, e) # <<>> /\ Append(q, e)[Len(Append(q, e))] = e
  OBVIOUS
<1>2. ASSUME q # <<>> PROVE Head(q) \in {"online", "offline"}
  BY <1>2
<1>3. ASSUME q # <<>>
      PROVE  /\ Tail(q) \in Seq({"online", "offline"}) /\ Len(q) \in Nat \ {0} /\ Head(q) = q[1]
             /\ Len(Tail(q)) = Len(q) - 1
             /\ \A j \in 1 .. Len(q) - 1 : Tail(q)[j] = q[j + 1]
  BY <1>3
<1>4. \A t \in Seq({"online", "offline"}) : t = <<>> <=> Len(t) = 0
  OBVIOUS
<1>5. ASSUME q # <<>>, Tail(q) # <<>> PROVE Tail(q)[Len(Tail(q))] = q[Len(q)]
  <2>1. Len(q) - 1 \in 1 .. Len(q) - 1 /\ (Len(q) - 1) + 1 = Len(q)
    BY <1>3, <1>4, <1>5
  <2>2. QED BY <1>3, <1>5, <2>1
<1>6. ASSUME q # <<>>, Tail(q) = <<>> PROVE Head(q) = q[Len(q)]
  <2>1. Len(Tail(q)) = 0
    BY <1>3, <1>4, <1>6, Zenon
  <2>2. Len(q) = 1
    BY <1>3, <1>6, <2>1
  <2>3. QED BY <1>3, <1>6, <2>2
<1>7. QED BY <1>1, <1>2, <1>5, <1>6

\* Only PUBLISH and delivery touch the channel.
LEMMA ChannelStep ==
  ASSUME [Next]_vars
  PROVE  \/ UNCHANGED events
         \/ \E s \in {"online", "offline"} : channel' = Append(channel, s) /\ published' = s
         \/ Deliver
BY Zenon DEF Next, ConnectStep, Incr, Expire, HSet, PublishOnline, Refresh, DisconnectStep,
   Decr, Del, HDel, PublishOffline, Crash, ExpireKey, FollowerStep, FollowerAdded,
   GetSnapshot, SendSnapshot, Publish, vars

\* Only the follower's steps touch its state.
LEMMA FollowerCases ==
  ASSUME [Next]_vars
  PROVE  FollowerStep \/ UNCHANGED follower
BY Zenon DEF Next, ConnectStep, Incr, Expire, HSet, PublishOnline, Refresh, DisconnectStep,
   Decr, Del, HDel, PublishOffline, Crash, ExpireKey, vars

\* Every step preserves LastIsPublished.
LEMMA LastStep == TypeOK /\ LastIsPublished /\ [Next]_vars => LastIsPublished'
<1> SUFFICES ASSUME TypeOK, LastIsPublished, [Next]_vars PROVE LastIsPublished'
  OBVIOUS
<1>0. channel \in Seq({"online", "offline"})
  BY DEF TypeOK
<1>1. CASE UNCHANGED events
  BY <1>1 DEF events, LastIsPublished
<1>2. ASSUME NEW s \in {"online", "offline"}, channel' = Append(channel, s), published' = s
      PROVE  LastIsPublished'
  BY <1>0, <1>2, ChannelEntries DEF LastIsPublished
<1>3. CASE Deliver
  <2>1. channel # <<>> /\ channel' = Tail(channel) /\ published' = published
    BY <1>3 DEF Deliver
  <2>2. QED BY <1>0, <2>1, ChannelEntries DEF LastIsPublished
<1>4. QED BY <1>1, <1>2, <1>3, ChannelStep

\* Without a lasting fault, the step that leaves nobody to answer for the user
\* puts an event into the channel.
LEMMA AnsweringStep ==
  ASSUME IInv, [Next]_vars, faults' = {}, Answering
  PROVE  Answering' \/ channel' # <<>>
<1> DEFINE Owners == ActiveSteps \cup {"del", "hdel", "puboffline"}
<1> USE DEF redis, events, follower
<1>1. TypeOK /\ pc \in [Conns -> Steps] /\ faults = {}
  BY FaultsGrow DEF IInv, TypeOK
<1>2. CASE UNCHANGED pc
  BY <1>2 DEF Answering
<1>3. ASSUME NEW c \in Conns, ConnectStep(c) PROVE Answering'
  <2>1. pc'[c] \in ActiveSteps
    BY <1>1, <1>3 DEF ConnectStep, Incr, Expire, HSet, PublishOnline, Goes, ActiveSteps
  <2>2. QED BY <2>1 DEF Answering
<1>4. ASSUME NEW c \in Conns, DisconnectStep(c) PROVE Answering' \/ channel' # <<>>
  <2>1. CASE Decr(c)
    BY <1>1, <2>1, LastDecr DEF Answering
  <2>2. CASE Del(c) \/ HDel(c)
    <3>1. pc'[c] \in {"hdel", "puboffline"}
      BY <1>1, <2>2 DEF Del, HDel, Goes
    <3>2. QED BY <3>1 DEF Answering
  <2>3. CASE PublishOffline(c)
    <3>1. channel' = Append(channel, "offline")
      BY <2>3 DEF PublishOffline, Publish, Fails, Lasting
    <3>2. QED BY <1>1, <3>1, ChannelEntries DEF TypeOK
  <2>4. QED BY <1>4, <2>1, <2>2, <2>3 DEF DisconnectStep
<1>5. ASSUME NEW i \in Instances, Crash(i) PROVE FALSE
  BY <1>5 DEF Crash, Fails, Lasting
<1>6. \/ UNCHANGED pc
      \/ \E c \in Conns : ConnectStep(c) \/ DisconnectStep(c)
      \/ \E i \in Instances : Crash(i)
  BY Zenon DEF Next, Refresh, ExpireKey, FollowerStep, FollowerAdded, GetSnapshot, SendSnapshot,
     Deliver, vars
<1>7. QED BY <1>2, <1>3, <1>4, <1>5, <1>6

\* Every step preserves FollowerIsCorrected.
LEMMA CorrectedStep == FInv /\ [Next]_vars => FollowerIsCorrected'
<1> SUFFICES ASSUME FInv, [Next]_vars, faults' = {}, ~raced',
                    view' = "online" \/ (fpc' = "snapshot" /\ snap'),
                    ~Answering'
             PROVE  channel' # <<>>
  BY DEF FollowerIsCorrected
<1>0. /\ IInv /\ TypeOK /\ channel \in Seq({"online", "offline"}) /\ faults = {}
  BY FaultsGrow DEF FInv, IInv, TypeOK
<1>1. CASE Answering
  BY <1>0, <1>1, AnsweringStep
<1>2. CASE ~Answering
  <2>1. published # "online" /\ ~named
    BY <1>0, <1>2 DEF IInv, OnlineIsOwned, NamedIsOwned, Answering
  <2>2. CASE UNCHANGED follower /\ ~Deliver
    <3>1. channel # <<>>
      BY <1>0, <1>2, <2>2 DEF follower, FInv, FollowerIsCorrected
    <3>2. CASE UNCHANGED events BY <3>1, <3>2 DEF events
    <3>3. ASSUME NEW s \in {"online", "offline"}, channel' = Append(channel, s)
          PROVE  channel' # <<>>
      BY <1>0, <3>3, ChannelEntries
    <3>4. QED BY <2>2, <3>2, <3>3, ChannelStep
  <2>3. CASE FollowerAdded
    BY <1>0, <1>2, <2>3 DEF FollowerAdded, events, FInv, FollowerIsCorrected
  <2>4. CASE GetSnapshot
    BY <1>0, <1>2, <2>1, <2>4 DEF GetSnapshot, events, FInv, FollowerIsCorrected
  <2>5. CASE SendSnapshot
    BY <1>0, <1>2, <2>5 DEF SendSnapshot, events, FInv, FollowerIsCorrected
  <2>6. CASE Deliver
    <3> SUFFICES ASSUME channel' = <<>> PROVE FALSE
      OBVIOUS
    <3>1. Head(channel) = published /\ Head(channel) = "offline"
      BY <1>0, <2>1, <2>6, ChannelEntries DEF Deliver, FInv, LastIsPublished
    <3>2. /\ view' = IF InHub THEN Head(channel) ELSE view
          /\ raced' = (raced \/ (fpc = "snapshot" /\ Head(channel) = "offline"))
          /\ UNCHANGED <<fpc, snap>>
      BY <2>6 DEF Deliver, Fails, Lasting
    <3>3. CASE InHub
      BY <3>1, <3>2, <3>3
    <3>4. CASE ~InHub
      BY <3>2, <3>4 DEF InHub, FInv, OffShowsNothing
    <3>5. QED BY <3>3, <3>4
  <2>7. QED BY <2>2, <2>3, <2>4, <2>5, <2>6, FollowerCases DEF FollowerStep
<1>3. QED BY <1>1, <1>2

\* A follower with nothing left to deliver does not show a user online who has no
\* connection, unless an instance crashed, a DECR, HDEL or PUBLISH failed, or an
\* "offline" event overtook the follower's own snapshot.
THEOREM FollowerCorrected == Spec => []FollowerSeesOffline
<1>1. Init => LastIsPublished /\ OffShowsNothing /\ FollowerIsCorrected
  BY DEF Init, LastIsPublished, OffShowsNothing, FollowerIsCorrected
<1>2. FInv /\ [Next]_vars => OffShowsNothing'
  <2> SUFFICES ASSUME FInv, [Next]_vars PROVE OffShowsNothing'
    OBVIOUS
  <2>1. CASE UNCHANGED follower
    BY <2>1 DEF follower, FInv, OffShowsNothing
  <2>2. CASE FollowerStep
    BY <2>2 DEF FollowerStep, FollowerAdded, GetSnapshot, SendSnapshot, Deliver, InHub, FInv,
       OffShowsNothing
  <2>3. QED BY <2>1, <2>2, FollowerCases
<1>3. IInv /\ IInv' /\ LastIsPublished /\ OffShowsNothing /\ FollowerIsCorrected /\ [Next]_vars
        => (LastIsPublished /\ OffShowsNothing /\ FollowerIsCorrected)'
  BY <1>2, LastStep, CorrectedStep DEF FInv, IInv
<1>4. IInv /\ FollowerIsCorrected => FollowerSeesOffline
  <2> SUFFICES ASSUME IInv, FollowerIsCorrected, Quiescent, channel = <<>>, ~raced,
                      faults \cap {"crash", "decr", "hdel", "publish"} = {}
               PROVE  view # "online"
    BY DEF FollowerSeesOffline
  <2>1. faults = {}
    BY DEF IInv, TypeOK, Lasting
  <2>2. ~Answering
    BY DEF Quiescent, Answering, ActiveSteps
  <2>3. QED BY <2>1, <2>2 DEF FollowerIsCorrected
<1>5. QED
  BY <1>1, <1>3, <1>4, Invariance, PTL DEF Spec

-----------------------------------------------------------------------------
(* The notification service, which reads presence:conns, for any number of    *)
(* events, attempts and changes of its surroundings.  An event in the channel  *)
(* is there once and has not begun, and an outcome is set only where handle    *)
(* returns; so each return is counted once, and no count is left out.                   *)

\* What is queued is queued once, and its goroutine has not begun.
QueuedOnce ==
    /\ \A i \in 1 .. Len(received) : step[received[i]] = "queued"
    /\ \A i, j \in 1 .. Len(received) : i # j => received[i] # received[j]

\* A goroutine waits only when it has an attempt left.
AttemptLeft == \A p \in Pubs : step[p] = "backoff" => attempt[p] < MaxAttempts

\* An event has an outcome only once handle returned.
OutcomeAtReturn == \A p \in Pubs : step[p] \notin {"done", "past"} => outcome[p] = None

NInv == NotifierTypeOK /\ QueuedOnce /\ AttemptLeft /\ OutcomeAtReturn /\ EveryEventCounted

\* The steps of an event.
EventSteps == {"none", "queued", "lost", "presence", "token", "deliver", "backoff", "done", "past"}

\* The bounds are numbers.
LEMMA Bounds ==
    MaxAttempts \in Nat /\ MaxAttempts > 0 /\ MaxChanges \in Nat
  BY NotifierAssumption

\* A power of two, which the provers know only as the number of subsets.
LEMMA PowerDoubles ==
    ASSUME NEW n \in Nat
    PROVE  2 ^ n \in Nat /\ 2 ^ (n + 1) = 2 * 2 ^ n
<1> DEFINE A == 1 .. n
           S == SUBSET A
           T == {s \cup {n + 1} : s \in S}
<1>1. IsFiniteSet(A) /\ Cardinality(A) = n
  BY FS_Interval
<1>2. IsFiniteSet(A \cup {n + 1}) /\ Cardinality(A \cup {n + 1}) = n + 1
  BY <1>1, FS_AddElement
<1>3. IsFiniteSet(S) /\ Cardinality(S) = 2 ^ n
  BY <1>1, FS_SUBSET
<1>4. Cardinality(SUBSET (A \cup {n + 1})) = 2 ^ (n + 1)
  BY <1>2, FS_SUBSET
<1>5. S \cup T = SUBSET (A \cup {n + 1})
  <2>1. ASSUME NEW x \in SUBSET (A \cup {n + 1}) PROVE x \in S \cup T
    <3>1. CASE n + 1 \in x
      <4>1. x = (x \ {n + 1}) \cup {n + 1} /\ x \ {n + 1} \in S
        BY <3>1
      <4> QED BY <4>1
    <3>2. CASE n + 1 \notin x
      BY <3>2
    <3> QED BY <3>1, <3>2
  <2> QED BY <2>1
<1>6. S \cap T = {}
  <2>1. n + 1 \notin A
    OBVIOUS
  <2> QED BY <2>1
<1>7. IsFiniteSet(T) /\ Cardinality(T) = Cardinality(S)
  <2> DEFINE f == [s \in S |-> s \cup {n + 1}]
  <2>1. n + 1 \notin A
    OBVIOUS
  <2>2. f \in Bijection(S, T)
    <3>1. f \in [S -> T]
      OBVIOUS
    <3>2. ASSUME NEW a \in S, NEW b \in S, f[a] = f[b] PROVE a = b
      <4>1. a = f[a] \ {n + 1} /\ b = f[b] \ {n + 1}
        BY <2>1
      <4> QED BY <4>1, <3>2
    <3>3. \A t \in T : \E s \in S : f[s] = t
      OBVIOUS
    <3> QED BY <3>1, <3>2, <3>3 DEF Bijection, Injection, Surjection, IsInjective
  <2> QED BY <2>2, <1>3, FS_Bijection DEF ExistsBijection
<1> HIDE DEF S, T
<1>8. Cardinality(S \cup T) = Cardinality(S) + Cardinality(T) - Cardinality({})
  BY <1>3, <1>6, <1>7, FS_Union
<1>9. Cardinality(S) \in Nat /\ Cardinality({}) = 0
  BY <1>3, FS_CardinalityType, FS_EmptySet
<1>10. 2 ^ (n + 1) = Cardinality(S) + Cardinality(S)
  <2>1. Cardinality(S \cup T) = 2 ^ (n + 1)
    BY <1>4, <1>5
  <2> QED BY <2>1, <1>7, <1>8, <1>9
<1> QED BY <1>3, <1>9, <1>10

-----------------------------------------------------------------------------
Ended == {p \in Pubs : step[p] = "done"}

\* The events that have ended are finitely many.
LEMMA EndedFinite ==
    IsFiniteSet(Ended) /\ Cardinality(Ended) \in Nat
<1>1. Ended \in SUBSET Pubs
  BY DEF Ended
<1>2. IsFiniteSet(Ended)
  BY <1>1, FS_Subset, NotifierAssumption
<1> QED BY <1>2, FS_CardinalityType

\* One more event ends when handle returns.
LEMMA ReturnEndsOne ==
    ASSUME NotifierTypeOK, NEW p \in Pubs, NEW how, step[p] # "done",
           Return(p, how)
    PROVE  Cardinality(Ended') = Cardinality(Ended) + 1
<1>1. Ended' = Ended \cup {p}
  BY DEF NotifierTypeOK, Return, Ended
<1>2. p \notin Ended
  BY DEF Ended
<1> HIDE DEF Ended
<1> QED BY <1>1, <1>2, EndedFinite, FS_AddElement

\* The entries of the channel after go s.handle(ev), and after a publication.
LEMMA TailEntries ==
    ASSUME NEW S, NEW s \in Seq(S), s # <<>>
    PROVE  /\ Tail(s) \in Seq(S) /\ Head(s) \in S /\ Len(s) > 0 /\ Head(s) = s[1]
           /\ Len(Tail(s)) = Len(s) - 1
           /\ \A i \in 1 .. Len(Tail(s)) : Tail(s)[i] = s[i + 1]
  OBVIOUS

LEMMA AppendEntries ==
    ASSUME NEW S, NEW s \in Seq(S), NEW x \in S
    PROVE  /\ Append(s, x) \in Seq(S) /\ Len(Append(s, x)) = Len(s) + 1
           /\ Append(s, x)[Len(s) + 1] = x
           /\ \A i \in 1 .. Len(s) : Append(s, x)[i] = s[i]
  OBVIOUS

\* Before the first event.
LEMMA NotifierStart ==
    ASSUME NotifierInit
    PROVE  NInv
<1> USE NotifierAssumption
<1>0. received = <<>> /\ Len(received) = 0 /\ received \in Seq(Pubs)
  BY DEF NotifierInit
<1>1. NotifierTypeOK
  BY <1>0 DEF NotifierInit, NotifierTypeOK
<1>4. QueuedOnce /\ AttemptLeft /\ OutcomeAtReturn
  BY <1>0 DEF NotifierInit, QueuedOnce, AttemptLeft, OutcomeAtReturn
<1>2. {p \in Pubs : step[p] = "done"} = {}
  BY DEF NotifierInit
<1>3. EveryEventCounted
  <2>1. sent + skipped + errors = 0
    BY DEF NotifierInit
  <2>2. \A p \in Pubs : pushed[p] = 0 /\ outcome[p] # "sent"
    BY DEF NotifierInit
  <2> QED BY <1>2, <2>1, <2>2, FS_EmptySet DEF EveryEventCounted
<1> QED BY <1>1, <1>3, <1>4 DEF NInv

\* A change of the recipient or a subscription leaves the events alone.
LEMMA AroundStep ==
    ASSUME NInv, UNCHANGED handlers, UNCHANGED received,
           up' \in BOOLEAN, subscribed' \in BOOLEAN,
           online' \in BOOLEAN, pushToken' \in Tokens \cup {None}, changes' \in 0 .. MaxChanges
    PROVE  NInv'
<1>1. NotifierTypeOK' /\ QueuedOnce' /\ AttemptLeft' /\ OutcomeAtReturn'
  BY DEF NInv, NotifierTypeOK, QueuedOnce, AttemptLeft, OutcomeAtReturn, handlers
<1>2. EveryEventCounted'
  BY DEF NInv, EveryEventCounted, handlers
<1> QED BY <1>1, <1>2 DEF NInv

\* PublishMessageCreated queues an event that was not queued.
LEMMA PublishStep ==
    ASSUME NInv, NEW p \in Pubs, PublishMessageCreated(p)
    PROVE  NInv'
<1> USE NotifierAssumption
<1>0. received \in Seq(Pubs) /\ step \in [Pubs -> EventSteps] /\ step[p] = "none"
  BY DEF NInv, NotifierTypeOK, PublishMessageCreated, EventSteps
<1>1. received' \in Seq(Pubs)
  BY <1>0, AppendEntries DEF PublishMessageCreated
<1>2. NotifierTypeOK'
  BY <1>1 DEF NInv, NotifierTypeOK, PublishMessageCreated, user
<1>3. QueuedOnce'
  <2>1. CASE subscribed
    <3>1. received \in Seq(Pubs) /\ \A i \in 1 .. Len(received) : received[i] \in Pubs
      BY <1>0
    <3>2. received' = Append(received, p)
      BY <2>1 DEF PublishMessageCreated
    <3>3. /\ Len(received') = Len(received) + 1 /\ received'[Len(received) + 1] = p
          /\ Len(received) \in Nat
          /\ \A i \in 1 .. Len(received) : received'[i] = received[i] /\ received[i] \in Pubs
      BY <3>1, <3>2, AppendEntries
    <3>4. \A i \in 1 .. Len(received) : step[received[i]] = "queued" /\ received[i] # p
      BY <1>0 DEF NInv, QueuedOnce
    <3>5. step' = [step EXCEPT ![p] = "queued"]
      BY <2>1 DEF PublishMessageCreated
    <3>6. \A i \in 1 .. Len(received') : step'[received'[i]] = "queued"
      BY <1>0, <3>3, <3>4, <3>5
    <3>7. \A i, j \in 1 .. Len(received') : i # j => received'[i] # received'[j]
      BY <3>3, <3>4 DEF NInv, QueuedOnce
    <3> QED BY <3>6, <3>7 DEF QueuedOnce
  <2>2. CASE ~subscribed
    <3>1. \A i \in 1 .. Len(received) : step[received[i]] = "queued" /\ received[i] # p /\ received[i] \in Pubs
      BY <1>0 DEF NInv, QueuedOnce
    <3>2. received' = received /\ step' = [step EXCEPT ![p] = "lost"]
      BY <2>2 DEF PublishMessageCreated
    <3> QED BY <1>0, <3>1, <3>2 DEF QueuedOnce, NInv
  <2> QED BY <2>1, <2>2
<1>4. AttemptLeft' /\ OutcomeAtReturn'
  BY DEF NInv, NotifierTypeOK, AttemptLeft, OutcomeAtReturn, PublishMessageCreated
<1>5. Ended' = Ended
  BY DEF NInv, NotifierTypeOK, PublishMessageCreated, Ended
<1>6. EveryEventCounted'
  BY <1>5 DEF NInv, EveryEventCounted, PublishMessageCreated, Ended
<1> QED BY <1>2, <1>3, <1>4, <1>6 DEF NInv

\* Run takes an event off the channel: the others stay queued.
LEMMA ReceiveStep ==
    ASSUME NInv, Receive
    PROVE  NInv'
<1>1. received \in Seq(Pubs) /\ received # <<>> /\ received' = Tail(received)
  BY DEF NInv, NotifierTypeOK, Receive
<1> DEFINE p == Head(received)
<1>2. /\ received' \in Seq(Pubs) /\ p \in Pubs /\ p = received[1] /\ Len(received) \in Nat
      /\ Len(received') = Len(received) - 1 /\ Len(received) > 0
      /\ \A i \in 1 .. Len(received') : received'[i] = received[i + 1]
  BY <1>1, TailEntries
<1>3. step' = [step EXCEPT ![p] = "presence"] /\ step \in [Pubs -> EventSteps] /\ step[p] = "queued"
  <2>1. step \in [Pubs -> EventSteps]
    BY DEF NInv, NotifierTypeOK, EventSteps
  <2>2. 1 \in 1 .. Len(received)
    BY <1>2
  <2>3. step[received[1]] = "queued"
    BY <2>2 DEF NInv, QueuedOnce
  <2> QED BY <2>1, <2>3, <1>2 DEF Receive
<1> HIDE DEF p
<1>4. NotifierTypeOK'
  BY <1>2, <1>3 DEF NInv, NotifierTypeOK, Receive, user
<1>5. QueuedOnce'
  <2>1. \A i \in 1 .. Len(received') : i + 1 \in 1 .. Len(received) /\ received[i + 1] # p
    BY <1>2 DEF NInv, QueuedOnce
  <2>2. \A i \in 1 .. Len(received') : step'[received'[i]] = "queued"
    BY <2>1, <1>2, <1>3 DEF NInv, QueuedOnce
  <2>3. \A i, j \in 1 .. Len(received') : i # j => received'[i] # received'[j]
    BY <2>1, <1>2 DEF NInv, QueuedOnce
  <2> QED BY <2>2, <2>3 DEF QueuedOnce
<1>6. AttemptLeft' /\ OutcomeAtReturn'
  BY <1>2, <1>3 DEF NInv, NotifierTypeOK, AttemptLeft, OutcomeAtReturn, Receive
<1>7. Ended' = Ended
  BY <1>2, <1>3 DEF NInv, NotifierTypeOK, Ended
<1>8. EveryEventCounted'
  BY <1>7 DEF NInv, EveryEventCounted, Receive, Ended
<1> QED BY <1>4, <1>5, <1>6, <1>8 DEF NInv

\* The subscription closes, or the process ends: the channel is empty, the events
\* that go on keep their step, and those of an ended process count no more.
LEMMA LosesEvents ==
    ASSUME NInv, SubscriptionCloses \/ Shutdown
    PROVE  NInv'
<1>a. received' = <<>> /\ UNCHANGED <<token, attempt, backoff, pushed, outcome, online, pushToken>>
  BY Zenon DEF SubscriptionCloses, Shutdown
<1>0. Len(received') = 0 /\ received' \in Seq(Pubs)
  BY <1>a
<1>1. step \in [Pubs -> EventSteps] /\ step' \in [Pubs -> EventSteps]
  BY DEF NInv, NotifierTypeOK, SubscriptionCloses, Shutdown, EventSteps
<1>2. \A p \in Pubs : /\ step'[p] \in {step[p], "lost", "past"}
                      /\ step[p] \in {"done", "past"} => step'[p] \in {"done", "past"}
  BY DEF SubscriptionCloses, Shutdown, Running
<1>3. NotifierTypeOK'
  <2>1. \A p \in Pubs : step'[p] \in {"deliver", "backoff"} =>
            token'[p] # None /\ attempt'[p] > 0 /\ backoff'[p] = 2 ^ (attempt'[p] - 1)
    BY <1>a, <1>2 DEF NInv, NotifierTypeOK
  <2>2. changes' \in 0 .. MaxChanges /\ sent' \in Nat /\ skipped' \in Nat /\ errors' \in Nat
    <3>1. sent \in Nat /\ skipped \in Nat /\ errors \in Nat /\ changes \in 0 .. MaxChanges
      BY DEF NInv, NotifierTypeOK
    <3>2. changes < MaxChanges /\ changes' = changes + 1
      BY DEF SubscriptionCloses, Shutdown, Change
    <3>3. \/ sent' = sent /\ skipped' = skipped /\ errors' = errors
          \/ sent' = 0 /\ skipped' = 0 /\ errors' = 0
      BY DEF SubscriptionCloses, Shutdown
    <3> QED BY <3>1, <3>2, <3>3, Bounds
  <2>3. up' \in BOOLEAN /\ subscribed' \in BOOLEAN /\ online' \in BOOLEAN
    BY Zenon DEF NInv, NotifierTypeOK, SubscriptionCloses, Shutdown
  <2> QED BY <1>a, <1>0, <1>1, <2>1, <2>2, <2>3 DEF NInv, NotifierTypeOK, EventSteps
<1>4. QueuedOnce' /\ AttemptLeft' /\ OutcomeAtReturn'
  <2>1. QueuedOnce'
    BY <1>0 DEF QueuedOnce
  <2>2. AttemptLeft'
    BY <1>a, <1>2 DEF NInv, AttemptLeft
  <2>3. OutcomeAtReturn'
    BY <1>a, <1>2 DEF NInv, OutcomeAtReturn
  <2> QED BY <2>1, <2>2, <2>3
<1>5. sent' + skipped' + errors' = Cardinality(Ended')
  <2>1. CASE SubscriptionCloses
    <3>1. Ended' = Ended
      BY <2>1 DEF SubscriptionCloses, Ended
    <3> QED BY <2>1, <3>1 DEF SubscriptionCloses, NInv, EveryEventCounted,
               Ended
  <2>2. CASE Shutdown
    <3>1. Ended' = {}
      BY <2>2 DEF Shutdown, Running, Ended
    <3>2. sent' + skipped' + errors' = 0
      BY <2>2 DEF Shutdown
    <3> QED BY <3>1, <3>2, FS_EmptySet
  <2> QED BY <2>1, <2>2
<1>6. EveryEventCounted'
  BY <1>a, <1>5 DEF NInv, EveryEventCounted, Ended
<1> QED BY <1>3, <1>4, <1>6 DEF NInv

\* What a step of p's goroutine does to the others: they keep what they have.
LEMMA OthersQueued ==
    ASSUME NInv, NEW p \in Pubs, step[p] # "queued", NEW s \in EventSteps,
           step' = [step EXCEPT ![p] = s], UNCHANGED received
    PROVE  QueuedOnce'
<1>1. received \in Seq(Pubs) /\ step \in [Pubs -> EventSteps]
  BY DEF NInv, NotifierTypeOK, EventSteps
<1>2. \A i \in 1 .. Len(received) : received[i] \in Pubs /\ step[received[i]] = "queued" /\ received[i] # p
  BY <1>1 DEF NInv, QueuedOnce
<1> QED BY <1>1, <1>2 DEF NInv, QueuedOnce

\* handle returns: one of the three counters counts the event, and the backend
\* has accepted it exactly when it counts as sent.
LEMMA ReturnStep ==
    ASSUME NInv, NEW p \in Pubs, Running(p),
           NEW how \in {"online", "no_token", "sent", "failed"},
           Return(p, how), UNCHANGED <<token, attempt, backoff, service, user>>,
           sent' \in Nat, skipped' \in Nat, errors' \in Nat,
           sent' + skipped' + errors' = sent + skipped + errors + 1,
           \/ how = "sent" /\ pushed' = [pushed EXCEPT ![p] = @ + 1]
           \/ how # "sent" /\ pushed' = pushed
    PROVE  NInv'
<1>0. step \in [Pubs -> EventSteps] /\ step[p] # "done" /\ step[p] # "queued" /\ outcome[p] = None /\ pushed[p] = 0
  BY NotifierAssumption DEF NInv, NotifierTypeOK, Running, OutcomeAtReturn, EveryEventCounted,
     EventSteps
<1>1. step' = [step EXCEPT ![p] = "done"] /\ outcome' = [outcome EXCEPT ![p] = how]
  BY DEF Return
<1>2. NotifierTypeOK'
  <2>1. pushed' \in [Pubs -> Nat]
    <3>1. pushed \in [Pubs -> Nat]
      BY DEF NInv, NotifierTypeOK
    <3>2. CASE how = "sent"
      BY <3>1, <3>2
    <3>3. CASE how # "sent"
      BY <3>1, <3>3
    <3> QED BY <3>2, <3>3
  <2>2. outcome' \in [Pubs -> {None, "online", "no_token", "sent", "failed"}]
    BY <1>1 DEF NInv, NotifierTypeOK
  <2>3. step' \in [Pubs -> EventSteps]
    BY <1>0, <1>1 DEF EventSteps
  <2>4. \A q \in Pubs : step'[q] \in {"deliver", "backoff"} => step[q] \in {"deliver", "backoff"}
    BY <1>0, <1>1
  <2> QED BY <2>1, <2>2, <2>3, <2>4 DEF NInv, NotifierTypeOK, service, user, EventSteps
<1>3. QueuedOnce'
  BY <1>0, <1>1, OthersQueued DEF service, EventSteps
<1>4. AttemptLeft' /\ OutcomeAtReturn'
  BY <1>0, <1>1 DEF NInv, NotifierTypeOK, AttemptLeft, OutcomeAtReturn
<1>5. Cardinality(Ended') = Cardinality(Ended) + 1
  BY <1>0, ReturnEndsOne DEF NInv
<1>6. sent' + skipped' + errors' = Cardinality(Ended')
  BY <1>5 DEF NInv, EveryEventCounted, Ended
<1>7. \A q \in Pubs : pushed'[q] = IF outcome'[q] = "sent" THEN 1 ELSE 0
  <2> SUFFICES ASSUME NEW q \in Pubs PROVE pushed'[q] = IF outcome'[q] = "sent" THEN 1 ELSE 0
    OBVIOUS
  <2>1. CASE q = p
    <3>1. outcome'[p] = how
      BY <1>1 DEF NInv, NotifierTypeOK
    <3>2. pushed \in [Pubs -> Nat]
      BY DEF NInv, NotifierTypeOK
    <3>3. CASE how = "sent"
      BY <1>0, <2>1, <3>1, <3>2, <3>3
    <3>4. CASE how # "sent"
      BY <1>0, <2>1, <3>1, <3>2, <3>4
    <3> QED BY <3>3, <3>4
  <2>2. CASE q # p
    <3>1. pushed'[q] = pushed[q] /\ outcome'[q] = outcome[q]
      BY <2>2, <1>1 DEF NInv, NotifierTypeOK
    <3> QED BY <3>1 DEF NInv, EveryEventCounted
  <2> QED BY <2>1, <2>2
<1>8. EveryEventCounted'
  BY <1>6, <1>7 DEF EveryEventCounted, Ended
<1> QED BY <1>2, <1>3, <1>4, <1>8 DEF NInv

\* A goroutine goes on to another step.
LEMMA GoesOnStep ==
    ASSUME NInv, NEW p \in Pubs, Running(p),
           NEW s \in {"token", "deliver", "backoff"},
           step' = [step EXCEPT ![p] = s],
           UNCHANGED <<pushed, outcome, sent, skipped, errors, service, user>>,
           token' \in [Pubs -> Tokens \cup {None}], attempt' \in [Pubs -> 0 .. MaxAttempts],
           backoff' \in [Pubs -> Nat],
           \A q \in Pubs \ {p} : token'[q] = token[q] /\ attempt'[q] = attempt[q] /\ backoff'[q] = backoff[q],
           s # "token" => token'[p] # None /\ attempt'[p] > 0 /\ backoff'[p] = 2 ^ (attempt'[p] - 1),
           s = "backoff" => attempt'[p] < MaxAttempts
    PROVE  NInv'
<1>0. step \in [Pubs -> EventSteps] /\ step[p] \in {"presence", "token", "deliver", "backoff"}
  BY DEF NInv, NotifierTypeOK, Running, EventSteps
<1>1. NotifierTypeOK'
  <2>1. step' \in [Pubs -> EventSteps]
    BY <1>0 DEF EventSteps
  <2>2. \A q \in Pubs : step'[q] \in {"deliver", "backoff"} =>
            token'[q] # None /\ attempt'[q] > 0 /\ backoff'[q] = 2 ^ (attempt'[q] - 1)
    <3> SUFFICES ASSUME NEW q \in Pubs, step'[q] \in {"deliver", "backoff"}
                 PROVE  token'[q] # None /\ attempt'[q] > 0 /\ backoff'[q] = 2 ^ (attempt'[q] - 1)
      OBVIOUS
    <3>1. CASE q = p
      BY <3>1, <1>0
    <3>2. CASE q # p
      BY <3>2, <1>0 DEF NInv, NotifierTypeOK
    <3> QED BY <3>1, <3>2
  <2> QED BY <2>1, <2>2 DEF NInv, NotifierTypeOK, service, user, EventSteps
<1>2. QueuedOnce'
  BY <1>0, OthersQueued DEF service, EventSteps
<1>3. AttemptLeft' /\ OutcomeAtReturn'
  BY <1>0 DEF NInv, NotifierTypeOK, AttemptLeft, OutcomeAtReturn
<1>4. Ended' = Ended
  BY <1>0 DEF Ended
<1>5. EveryEventCounted'
  BY <1>4 DEF NInv, EveryEventCounted, Ended
<1> QED BY <1>1, <1>2, <1>3, <1>5 DEF NInv

\* The steps of handle.
LEMMA HandleStep ==
    ASSUME NInv, NEW p \in Pubs, Handle(p)
    PROVE  NInv'
<1>0. /\ sent \in Nat /\ skipped \in Nat /\ errors \in Nat
      /\ token \in [Pubs -> Tokens \cup {None}] /\ attempt \in [Pubs -> 0 .. MaxAttempts]
      /\ backoff \in [Pubs -> Nat] /\ pushed \in [Pubs -> Nat] /\ pushToken \in Tokens \cup {None}
  BY DEF NInv, NotifierTypeOK
<1>1. CASE CheckPresence(p)
  <2>1. Running(p)
    BY <1>1 DEF CheckPresence, Running
  <2>2. CASE Skip(p, "online")
    <3>1. Return(p, "online") /\ skipped' = skipped + 1
      BY <2>2 DEF Skip
    <3>2. UNCHANGED <<token, attempt, backoff, pushed, sent, errors, service, user>>
      BY <1>1 DEF CheckPresence
    <3>3. sent' + skipped' + errors' = sent + skipped + errors + 1 /\ skipped' \in Nat
      BY <1>0, <3>1, <3>2
    <3> QED BY <1>0, <2>1, <3>1, <3>2, <3>3, ReturnStep
  <2>3. CASE step' = [step EXCEPT ![p] = "token"] /\ UNCHANGED <<outcome, skipped>>
    BY <1>0, <1>1, <2>1, <2>3, GoesOnStep DEF CheckPresence
  <2> QED BY <1>1, <2>2, <2>3 DEF CheckPresence
<1>2. CASE FetchToken(p)
  <2>1. Running(p)
    BY <1>2 DEF FetchToken, Running
  <2>2. CASE Skip(p, "no_token") /\ UNCHANGED <<token, attempt, backoff>>
    <3>1. Return(p, "no_token") /\ skipped' = skipped + 1
      BY <2>2 DEF Skip
    <3>2. UNCHANGED <<token, attempt, backoff, pushed, sent, errors, service, user>>
      BY <1>2, <2>2 DEF FetchToken
    <3>3. sent' + skipped' + errors' = sent + skipped + errors + 1 /\ skipped' \in Nat
      <4>1. sent \in Nat /\ skipped \in Nat /\ errors \in Nat /\ sent' = sent /\ errors' = errors
        BY <1>0, <3>2
      <4> QED BY <3>1, <4>1
    <3> QED BY <1>0, <2>1, <3>1, <3>2, <3>3, ReturnStep
  <2>3. CASE ~ (Skip(p, "no_token") /\ UNCHANGED <<token, attempt, backoff>>)
    <3>1. /\ pushToken # None /\ token' = [token EXCEPT ![p] = pushToken]
          /\ step' = [step EXCEPT ![p] = "deliver"]
          /\ attempt' = [attempt EXCEPT ![p] = 1] /\ backoff' = [backoff EXCEPT ![p] = 1]
          /\ UNCHANGED <<pushed, outcome, sent, skipped, errors, service, user>>
      BY <1>2, <2>3 DEF FetchToken
    <3>2. 2 ^ (1 - 1) = 1
      OBVIOUS
    <3>3. /\ token' \in [Pubs -> Tokens \cup {None}] /\ attempt' \in [Pubs -> 0 .. MaxAttempts]
          /\ backoff' \in [Pubs -> Nat]
      BY <1>0, <3>1, Bounds
    <3>4. \A q \in Pubs \ {p} : token'[q] = token[q] /\ attempt'[q] = attempt[q] /\ backoff'[q] = backoff[q]
      BY <1>0, <3>1
    <3>5. token'[p] # None /\ attempt'[p] > 0 /\ backoff'[p] = 2 ^ (attempt'[p] - 1)
      BY <1>0, <3>1, <3>2
    <3> QED BY <2>1, <3>1, <3>3, <3>4, <3>5, GoesOnStep
  <2> QED BY <2>2, <2>3
<1>3. CASE DeliverWithRetry(p)
  <2>1. Running(p) /\ step[p] = "deliver"
    BY <1>3 DEF DeliverWithRetry, Running
  <2>2. CASE pushed' = [pushed EXCEPT ![p] = @ + 1] /\ Delivered(p) /\ UNCHANGED errors
    <3>1. Return(p, "sent") /\ sent' = sent + 1
      BY <2>2 DEF Delivered
    <3>2. UNCHANGED <<token, attempt, backoff, skipped, errors, service, user>>
      BY <1>3, <2>2 DEF DeliverWithRetry
    <3>3. sent' + skipped' + errors' = sent + skipped + errors + 1 /\ sent' \in Nat
      BY <1>0, <3>1, <3>2
    <3> QED BY <1>0, <2>1, <2>2, <3>1, <3>2, <3>3, ReturnStep
  <2>3. CASE Return(p, "failed") /\ errors' = errors + 1 /\ UNCHANGED <<pushed, sent>>
    <3>1. UNCHANGED <<token, attempt, backoff, skipped, service, user>>
      BY <1>3 DEF DeliverWithRetry
    <3>2. sent' + skipped' + errors' = sent + skipped + errors + 1 /\ errors' \in Nat
      BY <1>0, <2>3, <3>1
    <3> QED BY <1>0, <2>1, <2>3, <3>1, <3>2, ReturnStep
  <2>4. CASE /\ ~LastAttempt(p) /\ step' = [step EXCEPT ![p] = "backoff"]
             /\ UNCHANGED <<pushed, outcome, sent, errors>>
    <3>1. attempt[p] < MaxAttempts
      BY <1>0, <2>4, Bounds DEF LastAttempt
    <3>2. token[p] # None /\ attempt[p] > 0 /\ backoff[p] = 2 ^ (attempt[p] - 1)
      BY <2>1 DEF NInv, NotifierTypeOK
    <3> QED BY <1>0, <1>3, <2>1, <2>4, <3>1, <3>2, GoesOnStep DEF DeliverWithRetry
  <2> QED BY <1>3, <2>2, <2>3, <2>4 DEF DeliverWithRetry
<1>4. CASE WaitEnds(p)
  <2>1. Running(p) /\ step[p] = "backoff"
    BY <1>4 DEF WaitEnds, Running
  <2>2. /\ token[p] # None /\ attempt[p] > 0 /\ backoff[p] = 2 ^ (attempt[p] - 1)
        /\ attempt[p] < MaxAttempts
    BY <2>1 DEF NInv, NotifierTypeOK, AttemptLeft
  <2>3. attempt'[p] = attempt[p] + 1 /\ backoff'[p] = 2 * backoff[p]
    BY <1>0, <1>4 DEF WaitEnds, NextAttempt
  <2>4. attempt' \in [Pubs -> 0 .. MaxAttempts] /\ backoff' \in [Pubs -> Nat]
    BY <1>0, <1>4, <2>2, Bounds DEF WaitEnds, NextAttempt
  <2>5. backoff'[p] = 2 ^ (attempt'[p] - 1)
    <3> DEFINE n == attempt[p] - 1
    <3>1. n \in Nat /\ n + 1 = attempt[p] /\ attempt'[p] - 1 = n + 1
      BY <1>0, <2>2, <2>3
    <3>2. 2 ^ (n + 1) = 2 * 2 ^ n
      BY <3>1, PowerDoubles
    <3> HIDE DEF n
    <3>3. backoff[p] = 2 ^ n
      BY <2>2 DEF n
    <3> QED BY <2>3, <3>1, <3>2, <3>3
  <2>6. \A q \in Pubs \ {p} : token'[q] = token[q] /\ attempt'[q] = attempt[q] /\ backoff'[q] = backoff[q]
    BY <1>0, <1>4 DEF WaitEnds, NextAttempt
  <2>7. token'[p] # None /\ attempt'[p] > 0 /\ token' = token
    BY <1>0, <1>4, <2>2, <2>3 DEF WaitEnds
  <2> QED BY <1>0, <1>4, <2>1, <2>4, <2>5, <2>6, <2>7, GoesOnStep DEF WaitEnds
<1> QED BY <1>1, <1>2, <1>3, <1>4 DEF Handle

\* NInv is inductive.
LEMMA NotifierStep ==
    ASSUME NInv, [NotifierNext]_notifierVars
    PROVE  NInv'
<1>0. /\ up \in BOOLEAN /\ subscribed \in BOOLEAN /\ online \in BOOLEAN
      /\ pushToken \in Tokens \cup {None} /\ changes \in 0 .. MaxChanges
  BY DEF NInv, NotifierTypeOK
<1>1. CASE ToggleOnline \/ (\E t \in Tokens : RegisterPushToken(t)) \/ Resubscribe \/ Restart \/ UNCHANGED notifierVars
  <2>1. UNCHANGED handlers /\ UNCHANGED received
    BY <1>1 DEF ToggleOnline, RegisterPushToken, Resubscribe, Restart, notifierVars, service
  <2>2. up' \in BOOLEAN /\ subscribed' \in BOOLEAN /\ online' \in BOOLEAN
    BY <1>0, <1>1, Zenon DEF ToggleOnline, RegisterPushToken, Resubscribe, Restart,
       notifierVars, service, user
  <2>3. pushToken' \in Tokens \cup {None} /\ changes' \in 0 .. MaxChanges
    BY <1>0, <1>1, NotifierAssumption DEF ToggleOnline, RegisterPushToken, Resubscribe,
       Restart, notifierVars, user, Change
  <2> QED BY <2>1, <2>2, <2>3, AroundStep
<1>2. CASE \E p \in Pubs : PublishMessageCreated(p) \/ Handle(p)
  BY <1>2, PublishStep, HandleStep
<1>3. CASE Receive \/ SubscriptionCloses \/ Shutdown
  BY <1>3, ReceiveStep, LosesEvents
<1> QED BY <1>1, <1>2, <1>3 DEF NotifierNext

(* The variables of the notification service have their types at any time, and  *)
(* a goroutine that delivers has a push token and is within its attempts, after *)
(* the backoff that attempt comes with (delivery.go).                          *)
THEOREM NotifierType == NotifierSpec => []NotifierTypeOK
<1>1. NotifierInit => NInv
  BY NotifierStart
<1>2. NInv /\ [NotifierNext]_notifierVars => NInv'
  BY NotifierStep
<1>3. NInv => NotifierTypeOK
  BY DEF NInv
<1> QED BY <1>1, <1>2, <1>3, PTL DEF NotifierSpec

(* The metrics of the notification service account for every event its          *)
(* goroutines are done with, once each, and an event was pushed to the backend  *)
(* once if it counts as sent and not at all otherwise, whatever fails.          *)
THEOREM NotifierCounts == NotifierSpec => []EveryEventCounted
<1>1. NotifierInit => NInv
  BY NotifierStart
<1>2. NInv /\ [NotifierNext]_notifierVars => NInv'
  BY NotifierStep
<1>3. NInv => EveryEventCounted
  BY DEF NInv
<1> QED BY <1>1, <1>2, <1>3, PTL DEF NotifierSpec
=============================================================================
