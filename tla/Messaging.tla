------------------------------ MODULE Messaging ------------------------------
(***************************************************************************)
(* The life of a message across the server instances: the messages table    *)
(* (internal/store/message_store.go), the send, delete and mark-read         *)
(* handlers and the Redis subscriber of every instance                       *)
(* (internal/http/message_handlers.go), and the catch-up of a WebSocket that *)
(* connects (WebSocketHandler in ws.go).                                     *)
(*                                                                         *)
(* A request is one HTTP request.  Its SQL statement is one step; the        *)
(* goroutine that publishes the event afterwards is another, so publishes of *)
(* different requests come in any order.  Redis hands every published event  *)
(* to every subscribed instance in the same order.  A subscriber re-reads    *)
(* the message and then pushes it to the sender's and to the recipient's     *)
(* local connections.  Pushing a frame to a connection is one step here: the *)
(* send queue and its overflow are in module WsHub.                          *)
(* The text of a message is abstracted to whether a frame carries it.        *)
(***************************************************************************)
EXTENDS Integers, Sequences, FiniteSets

CONSTANTS
    Users, Instances,
    Conns, UserOf, InstanceOf,   \* WebSocket connections
    Reqs,                        \* HTTP requests
    Pairs,                       \* (sender, recipient) pairs that write to each other
    ClientIds,                   \* clientMessageId values
    SinceIds,                    \* sinceId values the clients pass
    MaxId,                       \* bound: ids the BIGSERIAL hands out
    None,                        \* model value: absent
    Faults,                      \* kinds of fault the environment injects
    MaxFaults                    \* bound: kinds of fault in one behaviour

Ids == 1 .. MaxId
FaultKinds == {"respond", "publish", "load", "replay", "subscriber"}

ASSUME MessagingAssumption ==
    /\ UserOf \in [Conns -> Users] /\ InstanceOf \in [Conns -> Instances]
    /\ Pairs \subseteq Users \X Users
    /\ MaxId \in Nat /\ SinceIds \subseteq Nat /\ MaxFaults \in Nat
    /\ Faults \subseteq FaultKinds

Rows   == [from : Users, to : Users, cmid : ClientIds]
Events == [kind : {"created", "deleted"}, id : Ids]
Frames == [type : {"message", "deleted", "read"}, id : Ids, body : BOOLEAN, replay : BOOLEAN]
Reqstates ==
    [st : {"idle", "publish", "receipt", "done", "lost"}, op : {"none", "send", "delete", "read"},
     ids : SUBSET Ids, user : Users \cup {None}, cmid : ClientIds \cup {None},
     at : Instances \cup {None}]
Hands == [type : {"message", "deleted"}, id : Ids, body : BOOLEAN, left : Seq(Users)]

ASSUME NoneAssumption ==
    None \notin Rows /\ None \notin Hands /\ None \notin Users \cup ClientIds \cup Instances

VARIABLES
    row,       \* messages table: id -> row, or None
    nextId,    \* next value of the id sequence
    deleted,   \* ids with deleted_at set
    read,      \* ids with read_at set
    req,       \* per request: its step, operation and the ids it touched
    up,        \* per instance: its subscriber is subscribed
    queue,     \* per instance: events Redis has handed to its subscription
    hand,      \* per instance: message being pushed, with the users still to serve
    cpc,       \* per connection: "off", "added", "replay", "live", "closed"
    since,     \* per connection: sinceId it passed
    todo,      \* per connection: ids its handler has read and not yet replayed
    frames,    \* per connection: frames pushed to it
    faults     \* kinds of fault that have happened

table == <<row, nextId, deleted, read>>
subs  == <<up, queue, hand>>
conns == <<cpc, since, todo>>
vars  == <<table, req, subs, conns, frames, faults>>

NewReq == [st |-> "idle", op |-> "none", ids |-> {}, user |-> None, cmid |-> None, at |-> None]

Init ==
    /\ row = [id \in Ids |-> None] /\ nextId = 1 /\ deleted = {} /\ read = {}
    /\ req = [r \in Reqs |-> NewReq] /\ up = [i \in Instances |-> TRUE]
    /\ queue = [i \in Instances |-> <<>>] /\ hand = [i \in Instances |-> None]
    /\ cpc = [c \in Conns |-> "off"] /\ since = [c \in Conns |-> 0]
    /\ todo = [c \in Conns |-> {}] /\ frames = [c \in Conns |-> <<>>] /\ faults = {}

\* A fault of kind k happens.
Fails(k) ==
    /\ k \in Faults
    /\ faults' = faults \cup {k}
    /\ Cardinality(faults') <= MaxFaults
Works    == UNCHANGED faults

Inserted == {id \in Ids : row[id] # None}

-----------------------------------------------------------------------------
(* Frames.  Hub.sendToUser on one instance reaches every registered           *)
(* connection of the user there.                                             *)

MutantRegisteredAfterReplay(c) == cpc[c] = "live"
Registered(c) == cpc[c] \in {"added", "replay", "live"}
Local(i, u)   == {c \in Conns : InstanceOf[c] = i /\ UserOf[c] = u /\ Registered(c)}

Push(i, u, f) ==
    frames' = [c \in Conns |-> IF c \in Local(i, u) THEN Append(frames[c], f) ELSE frames[c]]

MessageFrame(id, body, replay) ==
    [type |-> "message", id |-> id, body |-> body, replay |-> replay]

-----------------------------------------------------------------------------
(* SendMessageHandler *)

\* The row a sender's clientMessageId already has: the unique index on
\* (sender_id, client_message_id).
MutantNoUniqueIndex(s, k) == {}
Existing(s, k) == {id \in Inserted : row[id].from = s /\ row[id].cmid = k}

\* messages.id is BIGSERIAL: nextval never goes back.
NextVal == nextId + 1

\* CreateOrGetExisting: INSERT ... ON CONFLICT DO NOTHING takes an id from the
\* sequence either way; on conflict the existing row is read back.  The handler
\* answers, and only then starts the goroutine that publishes: an error while
\* writing the answer returns before it.
Send(r, s, t, k) ==
    LET found == Existing(s, k)
        id == IF found = {} THEN nextId ELSE CHOOSE x \in found : TRUE
    IN
    /\ req[r].st = "idle"
    /\ <<s, t>> \in Pairs
    /\ nextId \in Ids
    /\ nextId' = NextVal
    /\ row' = IF found = {}
              THEN [row EXCEPT ![nextId] = [from |-> s, to |-> t, cmid |-> k]]
              ELSE row
    /\ \E answered \in BOOLEAN :
          /\ IF answered THEN Works ELSE Fails("respond")
          /\ req' = [req EXCEPT ![r] =
                [st |-> IF answered THEN "publish" ELSE "done", op |-> "send", ids |-> {id},
                 user |-> s, cmid |-> k, at |-> None]]
    /\ UNCHANGED <<deleted, read, subs, conns, frames>>

-----------------------------------------------------------------------------
(* DeleteMessageHandler: SoftDelete by the sender of a message not yet deleted *)

Delete(r, u, id) ==
    /\ req[r].st = "idle"
    /\ id \in Inserted \ deleted
    /\ row[id].from = u
    /\ deleted' = deleted \cup {id}
    /\ req' = [req EXCEPT ![r] =
          [st |-> "publish", op |-> "delete", ids |-> {id}, user |-> u, cmid |-> None, at |-> None]]
    /\ UNCHANGED <<row, nextId, read, subs, conns, frames, faults>>

-----------------------------------------------------------------------------
(* The publishing goroutines: a failure is logged and the event is lost *)

EventOf(r, id) == [kind |-> IF req[r].op = "send" THEN "created" ELSE "deleted", id |-> id]

Publish(r) ==
    /\ req[r].st = "publish"
    /\ \/ /\ Works
          /\ req' = [req EXCEPT ![r].st = "done"]
          /\ \E id \in req[r].ids :
                queue' = [i \in Instances |->
                            IF up[i] THEN Append(queue[i], EventOf(r, id)) ELSE queue[i]]
       \/ /\ Fails("publish")
          /\ req' = [req EXCEPT ![r].st = "lost"]
          /\ UNCHANGED queue
    /\ UNCHANGED <<table, up, hand, conns, frames>>

-----------------------------------------------------------------------------
(* MarkReadHandler *)

\* UPDATE ... RETURNING id: what u has not read of peer's messages.
Unread(u, peer) ==
    {id \in Inserted \ (read \cup deleted) : row[id].from = peer /\ row[id].to = u}

MarkRead(r, i, u, peer) ==
    /\ req[r].st = "idle"
    /\ <<peer, u>> \in Pairs
    /\ Unread(u, peer) # {}
    /\ read' = read \cup Unread(u, peer)
    /\ req' = [req EXCEPT ![r] =
          [st |-> "receipt", op |-> "read", ids |-> Unread(u, peer), user |-> peer,
           cmid |-> None, at |-> i]]
    /\ UNCHANGED <<row, nextId, deleted, subs, conns, frames, faults>>

\* hub.SendReadReceiptToUser: the hub of the instance that serves the request.
\* One frame lists all the ids; it is represented by its smallest id.
SendReceipt(r) ==
    /\ req[r].st = "receipt"
    /\ req' = [req EXCEPT ![r].st = "done"]
    /\ \E id \in req[r].ids :
          /\ \A other \in req[r].ids : id <= other
          /\ Push(req[r].at, req[r].user,
                  [type |-> "read", id |-> id, body |-> FALSE, replay |-> FALSE])
    /\ UNCHANGED <<table, subs, conns, faults>>

-----------------------------------------------------------------------------
(* StartMessageSubscriber of instance i *)

MutantPushStoredBody(id) == TRUE
\* selectCols: a deleted message is read without its body.
BodyVisible(id) == id \notin deleted

\* Both parties, the sender first.
MutantRecipientOnly(id) == <<row[id].to>>
Parties(id) == <<row[id].from, row[id].to>>

\* The next event: a created message is re-read with GetByID, which may fail.
Receive(i) ==
    LET e == Head(queue[i])
        users == Parties(e.id)
    IN
    /\ hand[i] = None
    /\ queue[i] # <<>>
    /\ queue' = [queue EXCEPT ![i] = Tail(@)]
    /\ \/ /\ e.kind = "created"
          /\ Works
          /\ hand' = [hand EXCEPT ![i] =
                [type |-> "message", id |-> e.id, body |-> BodyVisible(e.id), left |-> users]]
       \/ /\ e.kind = "created"
          /\ Fails("load")
          /\ UNCHANGED hand
       \/ /\ e.kind = "deleted"
          /\ Works
          /\ hand' = [hand EXCEPT ![i] =
                [type |-> "deleted", id |-> e.id, body |-> FALSE,
                 left |-> IF row[e.id].from = row[e.id].to THEN Tail(users) ELSE users]]
    /\ UNCHANGED <<table, req, up, conns, frames>>

\* One hub.sendToUser: first the sender, then the recipient.
PushNext(i) ==
    LET h == hand[i] IN
    /\ h # None
    /\ Push(i, Head(h.left),
            [type |-> h.type, id |-> h.id, body |-> h.body, replay |-> FALSE])
    /\ hand' = [hand EXCEPT ![i] =
                  IF Tail(h.left) = <<>> THEN None ELSE [h EXCEPT !.left = Tail(h.left)]]
    /\ UNCHANGED <<table, req, up, queue, conns, faults>>

\* The subscription breaks: events are lost until the restart loop of main.go
\* has subscribed again.
SubscriptionLost(i) ==
    /\ up[i]
    /\ Fails("subscriber")
    /\ up' = [up EXCEPT ![i] = FALSE]
    /\ queue' = [queue EXCEPT ![i] = <<>>]
    /\ UNCHANGED <<table, req, hand, conns, frames>>

Resubscribe(i) ==
    /\ ~up[i]
    /\ up' = [up EXCEPT ![i] = TRUE]
    /\ UNCHANGED <<table, req, queue, hand, conns, frames, faults>>

-----------------------------------------------------------------------------
(* WebSocketHandler: register, read what was missed, replay it *)

Register(c, n) ==
    /\ cpc[c] = "off"
    /\ cpc' = [cpc EXCEPT ![c] = "added"]
    /\ since' = [since EXCEPT ![c] = n]
    /\ UNCHANGED <<table, req, subs, todo, frames, faults>>

\* GetUnreadForUser: everything sent to the user after sinceId and not deleted.
\* On an error nothing is replayed.
MutantMissedOfAnyone(c) == {id \in Inserted \ deleted : id > since[c]}
Missed(c) == {id \in Inserted \ deleted : id > since[c] /\ row[id].to = UserOf[c]}

GetUnread(c) ==
    /\ cpc[c] = "added"
    /\ cpc' = [cpc EXCEPT ![c] = "replay"]
    /\ \/ /\ Works
          /\ todo' = [todo EXCEPT ![c] = Missed(c)]
       \/ /\ Fails("replay")
          /\ UNCHANGED todo
    /\ UNCHANGED <<table, req, subs, since, frames>>

\* hub.SendMessageToUser, oldest message first (ORDER BY id): to all of the
\* user's connections on this instance.
Replay(c) ==
    /\ cpc[c] = "replay"
    /\ \E id \in todo[c] :
          /\ \A other \in todo[c] : id <= other
          /\ todo' = [todo EXCEPT ![c] = @ \ {id}]
          /\ Push(InstanceOf[c], UserOf[c], MessageFrame(id, TRUE, TRUE))
    /\ UNCHANGED <<table, req, subs, cpc, since, faults>>

ReplayDone(c) ==
    /\ cpc[c] = "replay"
    /\ todo[c] = {}
    /\ cpc' = [cpc EXCEPT ![c] = "live"]
    /\ UNCHANGED <<table, req, subs, since, todo, frames, faults>>

\* removeClient
Disconnect(c) ==
    /\ cpc[c] = "live"
    /\ cpc' = [cpc EXCEPT ![c] = "closed"]
    /\ UNCHANGED <<table, req, subs, since, todo, frames, faults>>

-----------------------------------------------------------------------------
SubscriberStep(i) == Receive(i) \/ PushNext(i)
HandlerStep(c)    == GetUnread(c) \/ Replay(c) \/ ReplayDone(c)
RequestStep(r)    == Publish(r) \/ SendReceipt(r)

Next ==
    \/ \E r \in Reqs, s, t \in Users, k \in ClientIds : Send(r, s, t, k)
    \/ \E r \in Reqs, u \in Users, id \in Ids : Delete(r, u, id)
    \/ \E r \in Reqs, i \in Instances, u, peer \in Users : MarkRead(r, i, u, peer)
    \/ \E r \in Reqs : RequestStep(r)
    \/ \E i \in Instances : SubscriberStep(i) \/ SubscriptionLost(i) \/ Resubscribe(i)
    \/ \E c \in Conns : HandlerStep(c) \/ Disconnect(c)
    \/ \E c \in Conns, n \in SinceIds : Register(c, n)

\* Publishing goroutines and subscribers that can run do; all else is free.
Fairness ==
    /\ \A r \in Reqs : WF_req(Publish(r))
    /\ \A i \in Instances : WF_subs(SubscriberStep(i))

Spec     == Init /\ [][Next]_vars
FairSpec == Spec /\ Fairness

-----------------------------------------------------------------------------
(* Properties *)

\* Type correctness; every id in the table was handed out by the sequence, and
\* only existing messages are deleted or read.
TypeOK ==
    /\ row \in [Ids -> Rows \cup {None}]
    /\ nextId \in Nat /\ \A id \in Inserted : id < nextId
    /\ deleted \subseteq Inserted /\ read \subseteq Inserted /\ req \in [Reqs -> Reqstates]
    /\ up \in [Instances -> BOOLEAN] /\ queue \in [Instances -> Seq(Events)]
    /\ hand \in [Instances -> Hands \cup {None}]
    /\ cpc \in [Conns -> {"off", "added", "replay", "live", "closed"}]
    /\ since \in [Conns -> Nat] /\ todo \in [Conns -> SUBSET Ids]
    /\ frames \in [Conns -> Seq(Frames)] /\ faults \subseteq FaultKinds

Participants(id) == {row[id].from, row[id].to}

\* Two sends with the same sender and clientMessageId, on whatever instances and
\* with a delete in between or not, answer with the same message
\* (CreateOrGetExisting: "idempotent send").
IdempotentSend ==
    \A r1, r2 \in Reqs :
        (/\ req[r1].op = "send" /\ req[r2].op = "send"
         /\ req[r1].user = req[r2].user /\ req[r1].cmid = req[r2].cmid)
        => req[r1].ids = req[r2].ids

\* Whatever the interleaving of pushes, replays, deletes and receipts, a
\* connection is only told about messages its user sent or received.
OnlyParticipantsAreTold ==
    \A c \in Conns : \A j \in 1 .. Len(frames[c]) :
        UserOf[c] \in Participants(frames[c][j].id)

HasFrame(c, type, id) ==
    \E j \in 1 .. Len(frames[c]) : frames[c][j].type = type /\ frames[c][j].id = id

BodyAfterDeleted(c, a, b) ==
    /\ frames[c][a].type = "deleted"
    /\ frames[c][b].type = "message" /\ frames[c][b].body
    /\ frames[c][a].id = frames[c][b].id

\* Created and deleted events are published by unordered goroutines and resends
\* publish again, yet a subscriber never pushes a message's text after it pushed
\* that message's deletion: it re-reads the row (GetByID with selectCols).
NoTextPushedAfterDeletion ==
    \A c \in Conns : \A a, b \in 1 .. Len(frames[c]) :
        (a < b /\ BodyAfterDeleted(c, a, b)) => frames[c][b].replay

\* A created event for message id is on its way to user u on instance i.
OnItsWay(i, u, id) ==
    \/ \E r \in Reqs : req[r].st = "publish" /\ req[r].op = "send" /\ id \in req[r].ids
    \/ \E j \in 1 .. Len(queue[i]) : queue[i][j] = [kind |-> "created", id |-> id]
    \/ /\ hand[i] # None
       /\ hand[i].type = "message" /\ hand[i].id = id
       /\ \E j \in 1 .. Len(hand[i].left) : hand[i].left[j] = u

\* No message falls between the replay and the live push: once the catch-up is
\* over, every message sent to the user after sinceId (and not deleted) has been
\* pushed to the connection or is on its way, because the handler registers the
\* client BEFORE it reads what was missed.
CatchUpMissesNothing ==
    \A c \in Conns : \A id \in Inserted \ deleted :
        (/\ cpc[c] = "live" /\ faults = {}
         /\ row[id].to = UserOf[c] /\ id > since[c])
        => HasFrame(c, "message", id) \/ OnItsWay(InstanceOf[c], UserOf[c], id)

\* Connections of users who write or are written to: the others are party to nothing.
Correspondents == {c \in Conns : \E p \in Pairs : UserOf[c] \in {p[1], p[2]}}
FrameType(op)  == IF op = "send" THEN "message" ELSE "deleted"

\* What may keep the event of request r from connection c: its publish failed, the
\* subscription of c's instance broke, or a subscriber could not load a message.
\* Redis keeps nothing, so such an event is gone.
Lost(r, c) ==
    \/ req[r].st = "lost"
    \/ ~up[InstanceOf[c]]
    \/ req[r].op = "send" /\ "load" \in faults

\* "Messages ... published by any instance reach WebSocket clients on any
\* instance": once a send or delete is ready to publish, every connection of both
\* parties, the sender's own included, that is registered by then gets the frame,
\* unless it disconnects or the event is lost for it.  A fault elsewhere is no
\* excuse: an answer that was lost, the other instance's subscription, a replay.
PublishedReachesEveryone ==
    \A r \in Reqs, c \in Correspondents :
        (/\ req[r].st = "publish" /\ Registered(c)
         /\ \A id \in req[r].ids : UserOf[c] \in Participants(id))
        ~> \/ \A id \in req[r].ids : HasFrame(c, FrameType(req[r].op), id)
           \/ ~Registered(c) \/ Lost(r, c)
=============================================================================
