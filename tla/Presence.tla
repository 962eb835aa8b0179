------------------------------ MODULE Presence ------------------------------
(***************************************************************************)
(* The distributed presence of ONE user (internal/http/presence.go).  Every *)
(* connection of the user, on whatever server instance, runs Connect, then  *)
(* any number of Refreshes, then Disconnect; each Redis command they issue  *)
(* is one step, so the commands of different connections interleave.        *)
(* No command touches two users' entries, so one user is enough.           *)
(*                                                                         *)
(* Redis holds the connection counter presence:conns:<id> (with a TTL), the *)
(* user's field of the hash presence:names and the presence.events channel. *)
(* One follower of the user opens a WebSocket: it is registered in its hub, *)
(* reads a snapshot, receives the snapshot frame, and receives every        *)
(* presence event its instance's subscriber delivers from then on.          *)
(*                                                                         *)
(* Any command may fail.  The code logs most failures and goes on.  The     *)
(* constant Faults says which kinds the environment injects, the history    *)
(* variable `faults` which of the lasting kinds have happened.  The clock   *)
(* is abstracted: a counter key that has a TTL may expire at any step.      *)
(***************************************************************************)
EXTENDS Integers, Sequences, FiniteSets

CONSTANTS
    Conns,      \* the user's connections over time, on any instance
    InstanceOf, \* instance that serves each connection
    Faults      \* kinds of fault the environment may inject

Instances  == {InstanceOf[c] : c \in Conns}
FaultKinds == {"incr", "expire", "hset", "decr", "del", "hdel", "publish", "ttl", "crash"}

\* Kinds after which Redis, or a follower, may be left with a wrong entry for good.
Lasting == {"decr", "hdel", "publish", "crash"}

ASSUME ConnsFinite == IsFiniteSet(Conns)
ASSUME FaultsKnown == Faults \subseteq FaultKinds

VARIABLES
    exists, count, hasTTL,  \* presence:conns:<id>: present, value (0 if absent), has an expiry
    named,                  \* the user's id is a field of presence:names
    channel,                \* presence.events not yet handled by the follower's instance
    published,              \* status of the last event published
    pc,                     \* per connection: the Redis command it issues next
    fpc, snap, view,        \* follower: handler step, snapshot read, status shown
    raced,                  \* an "offline" was delivered between snapshot read and enqueue
    faults                  \* lasting kinds of fault that have happened

redis  == <<exists, count, hasTTL, named>>
events == <<channel, published>>
follower == <<fpc, snap, view, raced>>
vars == <<redis, events, pc, follower, faults>>

Init ==
    /\ exists = FALSE /\ count = 0 /\ hasTTL = FALSE /\ named = FALSE
    /\ channel = <<>> /\ published = "none" /\ pc = [c \in Conns |-> "idle"]
    /\ fpc = "off" /\ snap = FALSE /\ view = "none" /\ raced = FALSE /\ faults = {}

Goes(c, step) == pc' = [pc EXCEPT ![c] = step]

\* A fault of kind k happens.
Fails(k) == k \in Faults /\ faults' = faults \cup ({k} \cap Lasting)
Works    == UNCHANGED faults

-----------------------------------------------------------------------------
(* Connect *)

\* INCR.  On failure Connect returns; the handler only logs the error, so the
\* connection is served, and later disconnected, like any other.
Incr(c) ==
    /\ pc[c] = "idle"
    /\ \/ /\ Works
          /\ exists' = TRUE
          /\ count' = count + 1
          /\ Goes(c, IF count + 1 = 1 THEN "expirefirst" ELSE "expire")
       \/ /\ Fails("incr")
          /\ Goes(c, "live")
          /\ UNCHANGED <<exists, count>>
    /\ UNCHANGED <<hasTTL, named, events, follower>>

\* EXPIRE does nothing when the key is gone.
SetTTL == hasTTL' = exists

Expire(c) ==
    /\ pc[c] \in {"expirefirst", "expire"}
    /\ \/ Works /\ SetTTL
       \/ Fails("expire") /\ UNCHANGED hasTTL
    /\ Goes(c, IF pc[c] = "expirefirst" THEN "hset" ELSE "live")
    /\ UNCHANGED <<exists, count, named, events, follower>>

HSet(c) ==
    /\ pc[c] = "hset"
    /\ \/ Works /\ named' = TRUE
       \/ Fails("hset") /\ UNCHANGED named
    /\ Goes(c, "pubonline")
    /\ UNCHANGED <<exists, count, hasTTL, events, follower>>

\* PUBLISH; its error is ignored.
Publish(status) ==
    \/ /\ Works
       /\ channel' = Append(channel, status)
       /\ published' = status
    \/ /\ Fails("publish")
       /\ UNCHANGED events

PublishOnline(c) ==
    /\ pc[c] = "pubonline"
    /\ Publish("online")
    /\ Goes(c, "live")
    /\ UNCHANGED <<redis, follower>>

-----------------------------------------------------------------------------
(* Refresh: EXPIRE on the writePump's ping tick *)

Refresh(c) ==
    /\ pc[c] = "live"
    /\ \/ Works /\ SetTTL
       \/ Fails("expire") /\ UNCHANGED hasTTL
    /\ UNCHANGED <<exists, count, named, pc, events, follower>>

-----------------------------------------------------------------------------
(* Disconnect *)

\* What DECR's reply means: the user has no connection left.
MutantNoneLeft(reply) == reply < 0
NoneLeft(reply) == reply <= 0

\* DECR, creating the key if it is gone.  On failure Disconnect returns.
Decr(c) ==
    /\ pc[c] = "live"
    /\ \/ /\ Works
          /\ exists' = TRUE
          /\ count' = count - 1
          /\ Goes(c, IF NoneLeft(count - 1) THEN "del" ELSE "done")
       \/ /\ Fails("decr")
          /\ Goes(c, "done")
          /\ UNCHANGED <<exists, count>>
    /\ UNCHANGED <<hasTTL, named, events, follower>>

KeyGone == exists' = FALSE /\ count' = 0 /\ hasTTL' = FALSE

Del(c) ==
    /\ pc[c] = "del"
    /\ \/ Works /\ KeyGone
       \/ Fails("del") /\ UNCHANGED <<exists, count, hasTTL>>
    /\ Goes(c, "hdel")
    /\ UNCHANGED <<named, events, follower>>

HDel(c) ==
    /\ pc[c] = "hdel"
    /\ \/ Works /\ named' = FALSE
       \/ Fails("hdel") /\ UNCHANGED named
    /\ Goes(c, "puboffline")
    /\ UNCHANGED <<exists, count, hasTTL, events, follower>>

MutantNoOfflineEvent(c) ==
    /\ pc[c] = "puboffline"
    /\ Works
    /\ Goes(c, "done")
    /\ UNCHANGED <<redis, events, follower>>

PublishOffline(c) ==
    /\ pc[c] = "puboffline"
    /\ Publish("offline")
    /\ Goes(c, "done")
    /\ UNCHANGED <<redis, follower>>

-----------------------------------------------------------------------------
(* The environment: expiry of the counter key, end of an instance *)

ExpireKey ==
    /\ exists /\ hasTTL
    /\ Fails("ttl")
    /\ KeyGone
    /\ UNCHANGED <<named, pc, events, follower>>

\* An instance dies, or is stopped by a signal: main calls hub.CloseAll and then
\* srv.Shutdown, which does not wait for handlers whose connection was hijacked by the
\* upgrade, so it returns before or between the steps of their deferred Disconnects.
Crash(i) ==
    /\ Fails("crash")
    /\ \E c \in Conns : InstanceOf[c] = i /\ pc[c] \notin {"idle", "done", "lost"}
    /\ pc' = [c \in Conns |-> IF InstanceOf[c] = i /\ pc[c] # "idle" THEN "lost" ELSE pc[c]]
    /\ UNCHANGED <<redis, events, follower>>

-----------------------------------------------------------------------------
(* The follower's connection *)

\* hub.addClient of the follower's own handler
FollowerAdded ==
    /\ fpc = "off"
    /\ fpc' = "added"
    /\ UNCHANGED <<redis, pc, events, snap, view, raced, faults>>

\* GetSnapshot: HGETALL presence:names, restricted to the follower's contacts
GetSnapshot ==
    /\ fpc = "added"
    /\ fpc' = "snapshot"
    /\ snap' = named
    /\ UNCHANGED <<redis, pc, events, view, raced, faults>>

\* enqueueDropSlow of the snapshot frame: only online contacts have one
SendSnapshot ==
    /\ fpc = "snapshot"
    /\ fpc' = "live"
    /\ view' = IF snap THEN "online" ELSE view
    /\ UNCHANGED <<redis, pc, events, snap, raced, faults>>

\* The follower's client is in its hub from addClient on.
InHub == fpc # "off"

\* StartPresenceSubscriber: one event for every follower in the local hub; a
\* failed follower lookup or a restarting subscriber skips it.
Deliver ==
    /\ channel # <<>>
    /\ channel' = Tail(channel)
    /\ \/ /\ Works
          /\ view' = IF InHub THEN Head(channel) ELSE view
          /\ raced' = (raced \/ (fpc = "snapshot" /\ Head(channel) = "offline"))
       \/ /\ Fails("publish")
          /\ UNCHANGED <<view, raced>>
    /\ UNCHANGED <<redis, pc, published, fpc, snap>>

-----------------------------------------------------------------------------
ConnectStep(c)    == Incr(c) \/ Expire(c) \/ HSet(c) \/ PublishOnline(c)
DisconnectStep(c) == Decr(c) \/ Del(c) \/ HDel(c) \/ PublishOffline(c)
FollowerStep      == FollowerAdded \/ GetSnapshot \/ SendSnapshot \/ Deliver

Next ==
    \/ \E c \in Conns : ConnectStep(c) \/ Refresh(c) \/ DisconnectStep(c)
    \/ \E i \in Instances : Crash(i)
    \/ ExpireKey
    \/ FollowerStep

Spec == Init /\ [][Next]_vars

-----------------------------------------------------------------------------
(* Properties *)

Steps == {"idle", "expirefirst", "expire", "hset", "pubonline", "live", "del", "hdel", "puboffline",
          "done", "lost"}
Statuses == {"none", "online", "offline"}

\* Type correctness of the Redis keys, the connections and the follower.
TypeOK ==
    /\ exists \in BOOLEAN /\ count \in Int /\ hasTTL \in BOOLEAN /\ named \in BOOLEAN
    /\ channel \in Seq({"online", "offline"}) /\ published \in Statuses
    /\ pc \in [Conns -> Steps] /\ fpc \in {"off", "added", "snapshot", "live"}
    /\ snap \in BOOLEAN /\ view \in Statuses /\ raced \in BOOLEAN /\ faults \subseteq Lasting

\* No connection of the user is open or in the middle of Connect or Disconnect.
Quiescent == \A c \in Conns : pc[c] \in {"idle", "done"}

\* A user whose connections have all been disconnected is not listed in
\* presence:names ("only online users"), however Connects and Disconnects
\* interleaved, however often the counter expired, and whichever INCR, EXPIRE,
\* HSET, DEL or PUBLISH failed.  Only a crash, a failed DECR or a failed HDEL
\* leaves a stale entry.
NoGhostOnline ==
    (Quiescent /\ faults \cap {"crash", "decr", "hdel"} = {}) => ~named

\* ... and the last event published about the user is not "online".
LastEventIsOffline ==
    (Quiescent /\ faults \cap {"crash", "decr", "publish"} = {}) => published # "online"

\* A follower with no event pending does not show that user online, provided no
\* event overtook its snapshot.
FollowerSeesOffline ==
    (/\ Quiescent /\ faults \cap {"crash", "decr", "hdel", "publish"} = {}
     /\ fpc = "live" /\ channel = <<>> /\ ~raced) => view # "online"
=============================================================================
