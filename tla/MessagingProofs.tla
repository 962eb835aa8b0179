--------------------------- MODULE MessagingProofs ---------------------------
(***************************************************************************)
(* Proofs about Messaging for any users, instances, connections, requests   *)
(* and faults.                                                              *)
(*                                                                         *)
(* NoTextPushedAfterDeletion rests on three facts: a message_deleted frame,  *)
(* and anything that leads to one, exists only for a message whose row has   *)
(* deleted_at set; deleted_at is never cleared; and one subscriber handles   *)
(* one event at a time, so that between its GetByID and its last push no     *)
(* message_deleted frame is pushed on its instance.                          *)
(* OnlyParticipantsAreTold rests on rows being written once (an id is used    *)
(* once) and on every announcement on its way naming a party to its message. *)
(* CatchUpMissesNothing: a connection that is due a message has been served,  *)
(* is replaying it, or has it on its way: in a request, its instance's queue *)
(* or its subscriber's hand (CInv).                                          *)
(***************************************************************************)
EXTENDS Messaging, TLAPS

\* Types of the variables the arguments below are about.
PType ==
    /\ row \in [Ids -> Rows \cup {None}]
    /\ nextId \in Nat
    /\ deleted \subseteq Ids
    /\ req \in [Reqs -> Reqstates]
    /\ queue \in [Instances -> Seq(Events)]
    /\ hand \in [Instances -> Hands \cup {None}]
    /\ \A i \in Instances : hand[i] # None => hand[i].left # <<>>
    /\ todo \in [Conns -> SUBSET Ids]
    /\ frames \in [Conns -> Seq(Frames)]

\* Whatever announces a message is about a row, and whatever announces a
\* deletion about a row that is deleted.
RequestsAreTrue ==
    \A r \in Reqs : /\ req[r].op = "delete" => req[r].ids \subseteq deleted
                    /\ req[r].st = "publish" =>
                         /\ req[r].op \in {"send", "delete"}
                         /\ \A id \in req[r].ids : row[id] \in Rows
EventsAreTrue ==
    \A i \in Instances : \A j \in 1 .. Len(queue[i]) :
        /\ row[queue[i][j].id] \in Rows
        /\ queue[i][j].kind = "deleted" => queue[i][j].id \in deleted
DeleteInHandIsTrue ==
    \A i \in Instances : (hand[i] # None /\ hand[i].type = "deleted") => hand[i].id \in deleted
DeleteFrameIsTrue ==
    \A c \in Conns : \A j \in 1 .. Len(frames[c]) :
        frames[c][j].type = "deleted" => frames[c][j].id \in deleted

\* While a subscriber holds a message's text, no connection of its instance has
\* been told that the message is deleted.
TextInHandIsFresh ==
    \A i \in Instances, c \in Conns :
        (hand[i] # None /\ hand[i].type = "message" /\ hand[i].body /\ InstanceOf[c] = i)
            => \A j \in 1 .. Len(frames[c]) :
                 ~ (frames[c][j].type = "deleted" /\ frames[c][j].id = hand[i].id)

DInv == /\ PType
        /\ RequestsAreTrue /\ EventsAreTrue /\ DeleteInHandIsTrue /\ DeleteFrameIsTrue
        /\ TextInHandIsFresh /\ NoTextPushedAfterDeletion

-----------------------------------------------------------------------------
\* Pushing a frame appends it to some of the instance's connections and to no other.
LEMMA PushEffect ==
  ASSUME frames \in [Conns -> Seq(Frames)], NEW i, NEW u, NEW f \in Frames, Push(i, u, f)
  PROVE  /\ frames' \in [Conns -> Seq(Frames)]
         /\ \A c \in Conns : \/ frames'[c] = frames[c]
                             \/ InstanceOf[c] = i /\ frames'[c] = Append(frames[c], f)
BY DEF Push, Local

\* What is in a sequence after an Append.
LEMMA AppendEntries ==
  ASSUME NEW S, NEW s \in Seq(S), NEW e \in S
  PROVE  /\ Append(s, e) \in Seq(S)
         /\ Len(Append(s, e)) = Len(s) + 1 /\ Len(s) \in Nat
         /\ \A j \in 1 .. Len(Append(s, e)) :
               IF j = Len(s) + 1 THEN Append(s, e)[j] = e
               ELSE j \in 1 .. Len(s) /\ Append(s, e)[j] = s[j]
OBVIOUS

\* What is in a sequence after its head is taken.
LEMMA TailEntries ==
  ASSUME NEW S, NEW s \in Seq(S), s # <<>>
  PROVE  /\ Tail(s) \in Seq(S) /\ Head(s) \in S /\ Head(s) = s[1]
         /\ 1 \in 1 .. Len(s)
         /\ \A j \in 1 .. Len(Tail(s)) : j + 1 \in 1 .. Len(s) /\ Tail(s)[j] = s[j + 1]
OBVIOUS

\* The facts of DInv that follow when rows and deletions are at most added.
LEMMA DStutter ==
  ASSUME DInv, PType', UNCHANGED <<queue, hand, frames>>, deleted \subseteq deleted',
         \A id \in Ids : row[id] \in Rows => row'[id] \in Rows,
         RequestsAreTrue'
  PROVE  DInv'
<1>1. EventsAreTrue'
  <2>1. \A i \in Instances : \A j \in 1 .. Len(queue[i]) : queue[i][j] \in Events
    BY DEF DInv, PType
  <2>2. \A i \in Instances : \A j \in 1 .. Len(queue[i]) : queue[i][j].id \in Ids
    BY <2>1 DEF Events
  <2>3. \A i \in Instances : \A j \in 1 .. Len(queue[i]) :
          /\ row[queue[i][j].id] \in Rows
          /\ queue[i][j].kind = "deleted" => queue[i][j].id \in deleted
    BY DEF DInv, EventsAreTrue
  <2>4. QED BY <2>2, <2>3 DEF EventsAreTrue
<1>2. QED
  BY <1>1 DEF DInv, DeleteInHandIsTrue, DeleteFrameIsTrue, TextInHandIsFresh,
       NoTextPushedAfterDeletion, BodyAfterDeleted

-----------------------------------------------------------------------------
\* A request's last step keeps its type and what it says about deletions.
LEMMA DReqDone ==
  ASSUME DInv, NEW r \in Reqs, NEW d \in {"done", "lost"}, req' = [req EXCEPT ![r].st = d],
         UNCHANGED <<row, deleted>>
  PROVE  req' \in [Reqs -> Reqstates] /\ RequestsAreTrue'
<1>1. req[r] \in Reqstates /\ req \in [Reqs -> Reqstates]
  BY DEF DInv, PType
<1>2. [req[r] EXCEPT !.st = d] \in Reqstates
  BY <1>1 DEF Reqstates
<1>3. req' = [req EXCEPT ![r] = [req[r] EXCEPT !.st = d]]
  OBVIOUS
<1>4. req' \in [Reqs -> Reqstates]
  BY <1>1, <1>2, <1>3
<1>5. \A q \in Reqs : /\ req'[q].op = req[q].op /\ req'[q].ids = req[q].ids
                       /\ req'[q].st = "publish" => req[q].st = "publish"
  BY <1>1, <1>3 DEF Reqstates
<1>6. RequestsAreTrue'
  BY <1>5 DEF DInv, RequestsAreTrue
<1>7. QED BY <1>4, <1>6

-----------------------------------------------------------------------------
(* One lemma per handler *)

LEMMA DSend ==
  ASSUME DInv, NEW r \in Reqs, NEW s \in Users, NEW t \in Users, NEW k \in ClientIds,
         Send(r, s, t, k)
  PROVE  DInv'
<1> DEFINE found == Existing(s, k)
<1> DEFINE id == IF found = {} THEN nextId ELSE CHOOSE x \in found : TRUE
<1>1. id \in Ids
  BY DEF Existing, Inserted, Send
<1>2. PICK st \in {"publish", "done"} :
        req' = [req EXCEPT ![r] = [st |-> st, op |-> "send", ids |-> {id},
                                   user |-> s, cmid |-> k, at |-> None]]
  BY DEF Send
<1>3. req' \in [Reqs -> Reqstates]
  BY <1>1, <1>2 DEF DInv, PType, Reqstates
<1>4. row' \in [Ids -> Rows \cup {None}] /\ nextId' \in Nat
  BY DEF DInv, PType, Send, Rows, NextVal
<1>5. UNCHANGED <<deleted, queue, hand, todo, frames>>
  BY DEF Send, subs, conns
<1>6. PType'
  BY <1>3, <1>4, <1>5 DEF DInv, PType
<1>7. /\ \A x \in Ids : row[x] \in Rows => row'[x] \in Rows
      /\ row'[id] \in Rows
  <2>1. CASE found = {}
    BY <2>1 DEF Send, DInv, PType, Rows
  <2>2. CASE found # {}
    BY <2>2 DEF Send, DInv, PType, Existing, Inserted
  <2>3. QED BY <2>1, <2>2
<1>8. RequestsAreTrue'
  <2>1. \A q \in Reqs : req[q].ids \subseteq Ids
    BY DEF DInv, PType, Reqstates
  <2>2. QED
    BY <1>2, <1>5, <1>7, <2>1 DEF DInv, PType, RequestsAreTrue
<1>9. QED
  BY <1>5, <1>6, <1>7, <1>8, DStutter

LEMMA DDelete ==
  ASSUME DInv, NEW r \in Reqs, NEW u \in Users, NEW id \in Ids, Delete(r, u, id)
  PROVE  DInv'
<1>1. /\ req' = [req EXCEPT ![r] = [st |-> "publish", op |-> "delete", ids |-> {id},
                                     user |-> u, cmid |-> None, at |-> None]]
      /\ deleted' = deleted \cup {id}
      /\ UNCHANGED <<row, nextId, queue, hand, todo, frames>>
  BY DEF Delete, subs, conns
<1>2. req' \in [Reqs -> Reqstates]
  BY <1>1 DEF DInv, PType, Reqstates
<1>3. PType'
  BY <1>1, <1>2 DEF DInv, PType
<1>4. RequestsAreTrue'
  <2>1. row[id] \in Rows
    BY DEF Delete, Inserted, DInv, PType
  <2>2. QED
    BY <1>1, <2>1 DEF DInv, PType, RequestsAreTrue
<1>5. QED
  BY <1>1, <1>3, <1>4, DStutter

LEMMA DMarkRead ==
  ASSUME DInv, NEW r \in Reqs, NEW i \in Instances, NEW u \in Users, NEW peer \in Users,
         MarkRead(r, i, u, peer)
  PROVE  DInv'
<1>1. /\ req' = [req EXCEPT ![r] = [st |-> "receipt", op |-> "read", ids |-> Unread(u, peer),
                                     user |-> peer, cmid |-> None, at |-> i]]
      /\ UNCHANGED <<row, nextId, deleted, queue, hand, todo, frames>>
  BY DEF MarkRead, subs, conns
<1>2. Unread(u, peer) \in SUBSET Ids
  BY DEF Unread, Inserted
<1>3. req' \in [Reqs -> Reqstates]
  BY <1>1, <1>2 DEF DInv, PType, Reqstates
<1>4. PType'
  BY <1>1, <1>3 DEF DInv, PType
<1>5. RequestsAreTrue'
  BY <1>1 DEF DInv, PType, RequestsAreTrue
<1>6. QED
  BY <1>1, <1>4, <1>5, DStutter

LEMMA DPublish ==
  ASSUME DInv, NEW r \in Reqs, Publish(r)
  PROVE  DInv'
<1>0. PICK d \in {"done", "lost"} : req' = [req EXCEPT ![r].st = d]
  BY DEF Publish
<1>1. /\ req' = [req EXCEPT ![r].st = d] /\ req[r].st = "publish"
      /\ UNCHANGED <<row, nextId, deleted, hand, todo, frames>>
  BY <1>0 DEF Publish, table, conns
<1>2. req' \in [Reqs -> Reqstates] /\ RequestsAreTrue'
  BY <1>1, DReqDone
<1>3. CASE UNCHANGED queue
  <2>1. PType'
    BY <1>1, <1>2, <1>3 DEF DInv, PType
  <2>2. QED
    BY <1>1, <1>2, <1>3, <2>1, DStutter
<1>4. ASSUME NEW id \in req[r].ids,
             queue' = [i \in Instances |->
                         IF up[i] THEN Append(queue[i], EventOf(r, id)) ELSE queue[i]]
      PROVE  DInv'
  <2>1. id \in Ids /\ row[id] \in Rows /\ EventOf(r, id) \in Events /\ EventOf(r, id).id = id
        /\ (EventOf(r, id).kind = "deleted" => req[r].op # "send")
    BY <1>1, <1>4 DEF DInv, PType, Reqstates, EventOf, Events, RequestsAreTrue
  <2>2. queue' \in [Instances -> Seq(Events)]
    BY <1>4, <2>1, AppendEntries DEF DInv, PType
  <2>3. PType'
    BY <1>1, <1>2, <2>2 DEF DInv, PType
  <2>4. EventsAreTrue'
    <3>1. req[r].op # "send" => id \in deleted
      BY <1>1 DEF DInv, RequestsAreTrue
    <3>2. QED
      BY <1>1, <1>4, <2>1, <3>1, AppendEntries DEF DInv, PType, EventsAreTrue
  <2>5. QED
    BY <1>1, <1>2, <2>3, <2>4 DEF DInv, DeleteInHandIsTrue, DeleteFrameIsTrue,
       TextInHandIsFresh, NoTextPushedAfterDeletion, BodyAfterDeleted
<1>5. QED
  BY <1>3, <1>4 DEF Publish

\* A step that appends one frame to some connections of one instance.  A deletion
\* must be true and must not come while that instance holds a text; a pushed text
\* must not follow its deletion.
LEMMA DPush ==
  ASSUME DInv, PType', RequestsAreTrue', UNCHANGED <<row, deleted, queue>>,
         NEW i, NEW u, NEW f \in Frames, Push(i, u, f),
         \A k \in Instances : hand'[k] # None =>
            /\ hand[k] # None /\ hand'[k].type = hand[k].type
            /\ hand'[k].id = hand[k].id /\ hand'[k].body = hand[k].body,
         f.type = "deleted" =>
            /\ f.id \in deleted
            /\ \A k \in Instances : (k = i /\ hand'[k] # None) => hand'[k].type = "deleted",
         (f.type = "message" /\ f.body /\ ~f.replay) =>
            \A c \in Conns : InstanceOf[c] = i =>
               \A j \in 1 .. Len(frames[c]) :
                  ~ (frames[c][j].type = "deleted" /\ frames[c][j].id = f.id)
  PROVE  DInv'
<1>0. frames \in [Conns -> Seq(Frames)]
  BY DEF DInv, PType
<1>1. \A c \in Conns : /\ frames[c] \in Seq(Frames)
                       /\ \/ frames'[c] = frames[c]
                          \/ InstanceOf[c] = i /\ frames'[c] = Append(frames[c], f)
  BY <1>0, PushEffect
\* Every frame of the next state is the new one, at the end, or an old one.
<1>2. ASSUME NEW c \in Conns, NEW j \in 1 .. Len(frames'[c])
      PROVE  \/ j \in 1 .. Len(frames[c]) /\ frames'[c][j] = frames[c][j]
             \/ InstanceOf[c] = i /\ j = Len(frames[c]) + 1 /\ frames'[c][j] = f
  <2>1. CASE frames'[c] = frames[c]
    BY <2>1
  <2>2. CASE InstanceOf[c] = i /\ frames'[c] = Append(frames[c], f)
    BY <1>1, <2>2, AppendEntries
  <2>3. QED BY <1>1, <2>1, <2>2
<1>3. DeleteFrameIsTrue'
  <2>1. SUFFICES ASSUME NEW c \in Conns, NEW j \in 1 .. Len(frames'[c]),
                        frames'[c][j].type = "deleted"
                 PROVE  frames'[c][j].id \in deleted
    BY DEF DeleteFrameIsTrue
  <2>2. QED
    BY <1>2, <2>1 DEF DInv, DeleteFrameIsTrue
<1>4. TextInHandIsFresh'
  <2>1. SUFFICES ASSUME NEW k \in Instances, NEW c \in Conns, NEW j \in 1 .. Len(frames'[c]),
                        hand'[k] # None, hand'[k].type = "message", hand'[k].body,
                        InstanceOf[c] = k, frames'[c][j].type = "deleted",
                        frames'[c][j].id = hand'[k].id
                 PROVE  FALSE
    BY DEF TextInHandIsFresh
  <2>2. hand[k] # None /\ hand[k].type = "message" /\ hand[k].body /\ hand[k].id = hand'[k].id
    BY <2>1
  <2>3. CASE j \in 1 .. Len(frames[c]) /\ frames'[c][j] = frames[c][j]
    BY <2>1, <2>2, <2>3 DEF DInv, TextInHandIsFresh
  <2>4. CASE InstanceOf[c] = i /\ frames'[c][j] = f
    BY <2>1, <2>4
  <2>5. QED BY <1>2, <2>3, <2>4
<1>5. NoTextPushedAfterDeletion'
  <2>1. SUFFICES ASSUME NEW c \in Conns, NEW a \in 1 .. Len(frames'[c]),
                        NEW b \in 1 .. Len(frames'[c]), a < b, BodyAfterDeleted(c, a, b)'
                 PROVE  frames'[c][b].replay
    BY DEF NoTextPushedAfterDeletion
  <2>2. Len(frames[c]) \in Nat /\ Len(frames'[c]) \in Nat
    BY <1>1 DEF PType
  <2>3. Len(frames'[c]) <= Len(frames[c]) + 1
    BY <1>1, <2>2, AppendEntries
  <2>4. a \in 1 .. Len(frames[c]) /\ frames'[c][a] = frames[c][a]
    BY <1>2, <2>1, <2>2, <2>3
  <2>5. CASE b \in 1 .. Len(frames[c]) /\ frames'[c][b] = frames[c][b]
    BY <2>1, <2>4, <2>5 DEF DInv, NoTextPushedAfterDeletion, BodyAfterDeleted
  <2>6. CASE InstanceOf[c] = i /\ frames'[c][b] = f
    BY <2>1, <2>4, <2>6 DEF BodyAfterDeleted
  <2>7. QED BY <1>2, <2>5, <2>6
<1>6. EventsAreTrue' /\ DeleteInHandIsTrue'
  BY DEF DInv, EventsAreTrue, DeleteInHandIsTrue
<1>7. QED
  BY <1>3, <1>4, <1>5, <1>6 DEF DInv

LEMMA DSendReceipt ==
  ASSUME DInv, NEW r \in Reqs, SendReceipt(r)
  PROVE  DInv'
<1>1. /\ req' = [req EXCEPT ![r].st = "done"]
      /\ UNCHANGED <<row, nextId, deleted, queue, hand, todo>>
  BY DEF SendReceipt, table, subs, conns
<1>2. req' \in [Reqs -> Reqstates] /\ RequestsAreTrue'
  BY <1>1, DReqDone
<1>3. PICK id \in req[r].ids :
        Push(req[r].at, req[r].user,
             [type |-> "read", id |-> id, body |-> FALSE, replay |-> FALSE])
  BY DEF SendReceipt
<1> DEFINE f == [type |-> "read", id |-> id, body |-> FALSE, replay |-> FALSE]
<1>4. f \in Frames
  BY DEF DInv, PType, Reqstates, Frames
<1>5. PType'
  BY <1>1, <1>2, <1>3, <1>4, PushEffect DEF DInv, PType
<1>6. QED
  BY <1>1, <1>2, <1>3, <1>4, <1>5, DPush

LEMMA DReplay ==
  ASSUME DInv, NEW c \in Conns, Replay(c)
  PROVE  DInv'
<1>1. PICK id \in todo[c] : /\ todo' = [todo EXCEPT ![c] = @ \ {id}]
                            /\ Push(InstanceOf[c], UserOf[c], MessageFrame(id, TRUE, TRUE))
  BY DEF Replay
<1>2. UNCHANGED <<row, nextId, deleted, req, queue, hand>>
  BY DEF Replay, table, subs
<1> DEFINE f == MessageFrame(id, TRUE, TRUE)
<1>3. f \in Frames /\ f.type = "message" /\ f.replay
  BY DEF MessageFrame, Frames, DInv, PType
<1>4. todo' \in [Conns -> SUBSET Ids]
  BY <1>1 DEF DInv, PType
<1>5. PType'
  BY <1>1, <1>2, <1>3, <1>4, PushEffect DEF DInv, PType
<1>6. RequestsAreTrue'
  BY <1>2 DEF DInv, RequestsAreTrue
<1>7. QED
  BY <1>1, <1>2, <1>3, <1>5, <1>6, DPush

\* The subscriber takes an event: a text it reads is of a message not deleted.
LEMMA DReceive ==
  ASSUME DInv, NEW i \in Instances, Receive(i)
  PROVE  DInv'
<1> DEFINE e == Head(queue[i])
<1>1. /\ queue' = [queue EXCEPT ![i] = Tail(@)] /\ queue[i] # <<>>
      /\ UNCHANGED <<row, nextId, deleted, req, todo, frames>>
  BY DEF Receive, table, conns
<1>2. /\ queue[i] \in Seq(Events) /\ Tail(queue[i]) \in Seq(Events)
      /\ e \in Events /\ e = queue[i][1] /\ 1 \in 1 .. Len(queue[i])
      /\ \A j \in 1 .. Len(Tail(queue[i])) :
            j + 1 \in 1 .. Len(queue[i]) /\ Tail(queue[i])[j] = queue[i][j + 1]
  BY <1>1, TailEntries DEF DInv, PType
<1>3. queue' \in [Instances -> Seq(Events)] /\ EventsAreTrue'
  BY <1>1, <1>2 DEF DInv, PType, EventsAreTrue
<1>4. RequestsAreTrue' /\ DeleteFrameIsTrue' /\ NoTextPushedAfterDeletion'
  BY <1>1 DEF DInv, RequestsAreTrue, DeleteFrameIsTrue, NoTextPushedAfterDeletion,
     BodyAfterDeleted
<1>5. CASE UNCHANGED hand
  BY <1>1, <1>3, <1>4, <1>5 DEF DInv, PType, DeleteInHandIsTrue, TextInHandIsFresh
<1>6. ASSUME NEW h \in Hands, hand' = [hand EXCEPT ![i] = h], h.id = e.id, h.left # <<>>,
             h.type = "deleted" => h.id \in deleted,
             h.type = "message" => (h.body => h.id \notin deleted)
      PROVE  DInv'
  <2>1. PType'
    BY <1>1, <1>3, <1>6 DEF DInv, PType
  <2>2. DeleteInHandIsTrue'
    BY <1>1, <1>6 DEF DInv, PType, DeleteInHandIsTrue
  <2>3. TextInHandIsFresh'
    BY <1>1, <1>6 DEF DInv, PType, TextInHandIsFresh, DeleteFrameIsTrue
  <2>4. QED
    BY <1>3, <1>4, <2>1, <2>2, <2>3 DEF DInv
<1>7. row[e.id] \in Rows /\ (e.kind = "deleted" => e.id \in deleted)
  BY <1>2 DEF DInv, EventsAreTrue
<1>8. /\ Parties(e.id) \in Seq(Users) /\ Tail(Parties(e.id)) \in Seq(Users)
      /\ Parties(e.id) # <<>> /\ Tail(Parties(e.id)) # <<>>
  BY <1>7 DEF Parties, Rows
<1>9. CASE e.kind = "created" /\ ~ UNCHANGED hand
  <2> DEFINE h == [type |-> "message", id |-> e.id, body |-> BodyVisible(e.id),
                   left |-> Parties(e.id)]
  <2>1. hand' = [hand EXCEPT ![i] = h]
    BY <1>9 DEF Receive
  <2>2. h \in Hands
    BY <1>2, <1>8 DEF Hands, Events, BodyVisible
  <2>3. /\ h.id = e.id /\ h.left # <<>> /\ h.type = "message"
        /\ h.body => h.id \notin deleted
    BY <1>8 DEF BodyVisible
  <2> HIDE DEF h
  <2>4. QED
    BY <1>6, <2>1, <2>2, <2>3
<1>10. CASE e.kind = "deleted" /\ ~ UNCHANGED hand
  <2>1. PICK l \in Seq(Users) : l # <<>> /\
          hand' = [hand EXCEPT ![i] = [type |-> "deleted", id |-> e.id, body |-> FALSE, left |-> l]]
    BY <1>8, <1>10 DEF Receive
  <2>2. [type |-> "deleted", id |-> e.id, body |-> FALSE, left |-> l] \in Hands
    BY <1>2 DEF Hands, Events
  <2>3. QED
    BY <1>6, <1>7, <1>10, <2>1, <2>2
<1>11. QED
  BY <1>2, <1>5, <1>9, <1>10 DEF Events

\* One push of a subscriber: to a connection that has not seen the deletion.
LEMMA DPushNext ==
  ASSUME DInv, NEW i \in Instances, PushNext(i)
  PROVE  DInv'
<1> DEFINE h == hand[i]
<1> DEFINE f == [type |-> h.type, id |-> h.id, body |-> h.body, replay |-> FALSE]
<1> DEFINE g == IF Tail(h.left) = <<>> THEN None ELSE [h EXCEPT !.left = Tail(h.left)]
<1>1. /\ h # None /\ Push(i, Head(h.left), f) /\ hand' = [hand EXCEPT ![i] = g]
      /\ UNCHANGED <<row, nextId, deleted, req, queue, todo>>
  BY DEF PushNext, table, conns
<1>2. h \in Hands /\ h.left \in Seq(Users) /\ h.left # <<>>
  BY <1>1 DEF DInv, PType, Hands
<1>3. f \in Frames
  BY <1>2 DEF Hands, Frames
<1>4. Tail(h.left) \in Seq(Users)
  BY <1>2, TailEntries
<1>5. g # None => /\ g \in Hands /\ g.left # <<>>
                  /\ g.type = h.type /\ g.id = h.id /\ g.body = h.body
  BY <1>2, <1>4 DEF Hands
<1>6. hand' \in [Instances -> Hands \cup {None}]
  BY <1>1, <1>5 DEF DInv, PType
<1>7. \A k \in Instances : hand'[k] # None =>
            /\ hand[k] # None /\ hand'[k].type = hand[k].type /\ hand'[k].left # <<>>
            /\ hand'[k].id = hand[k].id /\ hand'[k].body = hand[k].body
  BY <1>1, <1>5 DEF DInv, PType
<1>8. PType'
  BY <1>1, <1>3, <1>6, <1>7, PushEffect DEF DInv, PType
<1>9. RequestsAreTrue'
  BY <1>1 DEF DInv, RequestsAreTrue
<1>10. f.type = "deleted" =>
            /\ f.id \in deleted
            /\ \A k \in Instances : (k = i /\ hand'[k] # None) => hand'[k].type = "deleted"
  BY <1>1, <1>7 DEF DInv, DeleteInHandIsTrue
<1>11. (f.type = "message" /\ f.body /\ ~f.replay) =>
            \A c \in Conns : InstanceOf[c] = i =>
               \A j \in 1 .. Len(frames[c]) :
                  ~ (frames[c][j].type = "deleted" /\ frames[c][j].id = f.id)
  BY <1>1 DEF DInv, TextInHandIsFresh
<1> HIDE DEF f, g
<1>12. QED
  BY <1>1, <1>3, <1>7, <1>8, <1>9, <1>10, <1>11, DPush

LEMMA DSubscription ==
  ASSUME DInv, NEW i \in Instances, SubscriptionLost(i) \/ Resubscribe(i)
  PROVE  DInv'
<1>1. /\ UNCHANGED <<row, nextId, deleted, req, hand, todo, frames>>
      /\ queue' = queue \/ queue' = [queue EXCEPT ![i] = <<>>]
  BY DEF SubscriptionLost, Resubscribe, table, conns
<1>2. \A k \in Instances : queue'[k] = queue[k] \/ queue'[k] = <<>>
  BY <1>1 DEF DInv, PType
<1>3. PType'
  <2>1. <<>> \in Seq(Events)
    OBVIOUS
  <2>2. queue' \in [Instances -> Seq(Events)]
    BY <1>1, <2>1 DEF DInv, PType
  <2>3. QED BY <1>1, <2>2 DEF DInv, PType
<1>4. EventsAreTrue'
  BY <1>1, <1>2 DEF DInv, EventsAreTrue
<1>5. QED
  BY <1>1, <1>3, <1>4 DEF DInv, RequestsAreTrue, DeleteInHandIsTrue, DeleteFrameIsTrue,
     TextInHandIsFresh, NoTextPushedAfterDeletion, BodyAfterDeleted

\* Steps of a connection that push nothing.
LEMMA DConn ==
  ASSUME DInv, NEW c \in Conns,
         (\E n \in SinceIds : Register(c, n)) \/ GetUnread(c) \/ ReplayDone(c) \/ Disconnect(c)
  PROVE  DInv'
<1>1. UNCHANGED <<row, nextId, deleted, req, queue, hand, frames>>
  BY DEF Register, GetUnread, ReplayDone, Disconnect, table, subs
<1>2. todo' = todo \/ todo' = [todo EXCEPT ![c] = Missed(c)]
  BY DEF Register, GetUnread, ReplayDone, Disconnect
<1>3. todo' \in [Conns -> SUBSET Ids]
  <2>1. Missed(c) \subseteq Ids
    BY DEF Missed, Inserted
  <2>2. QED BY <1>2, <2>1 DEF DInv, PType
<1>4. PType'
  BY <1>1, <1>3 DEF DInv, PType
<1>5. RequestsAreTrue'
  BY <1>1 DEF DInv, RequestsAreTrue
<1>6. QED
  BY <1>1, <1>4, <1>5, DStutter

LEMMA DInit == Init => DInv
<1> SUFFICES ASSUME Init PROVE DInv
  OBVIOUS
<1>1. PType
  BY MessagingAssumption DEF Init, PType, NewReq, Reqstates
<1>2. RequestsAreTrue
  BY DEF Init, RequestsAreTrue, NewReq
<1>3. QED
  BY <1>1, <1>2 DEF Init, DInv, EventsAreTrue, DeleteInHandIsTrue, DeleteFrameIsTrue,
     TextInHandIsFresh, NoTextPushedAfterDeletion

LEMMA DNext == DInv /\ [Next]_vars => DInv'
<1> SUFFICES ASSUME DInv, [Next]_vars PROVE DInv'
  OBVIOUS
<1>1. CASE UNCHANGED vars
  <2>1. UNCHANGED <<row, nextId, deleted, req, queue, hand, todo, frames>>
    BY <1>1 DEF vars, table, subs, conns
  <2>2. PType' /\ RequestsAreTrue'
    BY <2>1 DEF DInv, PType, RequestsAreTrue
  <2>3. QED BY <2>1, <2>2, DStutter
<1>2. CASE Next
  BY <1>2, DSend, DDelete, DMarkRead, DPublish, DSendReceipt, DReceive, DPushNext,
     DSubscription, DReplay, DConn
  DEF Next, RequestStep, SubscriberStep, HandlerStep
<1>3. QED BY <1>1, <1>2

\* On every connection, however the publishing goroutines of sends, resends and
\* deletes are ordered and whatever fails, no subscriber pushes a message's text
\* after the message's deletion (StartMessageSubscriber, GetByID with selectCols).
THEOREM DeletionIsFinal == Spec => []NoTextPushedAfterDeletion
<1>1. DInv => NoTextPushedAfterDeletion
  BY DEF DInv
<1>2. QED
  BY DInit, DNext, <1>1, PTL DEF Spec

-----------------------------------------------------------------------------
(* Idempotent sends *)

\* The table's keys: an id was handed out before it is used, and the unique index
\* on (sender_id, client_message_id) has one row per key.
KeysHold ==
    /\ \A id \in Ids : row[id] # None => id < nextId
    /\ \A x, y \in Ids :
          (/\ row[x] # None /\ row[y] # None
           /\ row[x].from = row[y].from /\ row[x].cmid = row[y].cmid) => x = y

\* A send answers with the one row that has its key.
SendsAnswerTheirRow ==
    \A r \in Reqs : req[r].op = "send" =>
        \E id \in Ids : /\ req[r].ids = {id} /\ row[id] # None
                        /\ row[id].from = req[r].user /\ row[id].cmid = req[r].cmid

SInv == /\ row \in [Ids -> Rows \cup {None}] /\ nextId \in Nat
        /\ req \in [Reqs -> Reqstates]
        /\ KeysHold /\ SendsAnswerTheirRow

\* Steps that send nothing leave the table's keys alone.
LEMMA SOther ==
  ASSUME SInv, UNCHANGED <<row, nextId>>, req' \in [Reqs -> Reqstates],
         \A r \in Reqs : req'[r].op = "send" =>
            req[r].op = "send" /\ req'[r].ids = req[r].ids
            /\ req'[r].user = req[r].user /\ req'[r].cmid = req[r].cmid
  PROVE  SInv'
BY DEF SInv, KeysHold, SendsAnswerTheirRow

LEMMA SSend ==
  ASSUME SInv, NEW r \in Reqs, NEW s \in Users, NEW t \in Users, NEW k \in ClientIds,
         Send(r, s, t, k)
  PROVE  SInv'
<1> DEFINE found == Existing(s, k)
<1> DEFINE id == IF found = {} THEN nextId ELSE CHOOSE x \in found : TRUE
<1> DEFINE new == [from |-> s, to |-> t, cmid |-> k]
<1>1. id \in Ids /\ nextId \in Ids
  BY DEF Existing, Inserted, Send
<1>2. PICK st \in {"publish", "done"} :
        req' = [req EXCEPT ![r] = [st |-> st, op |-> "send", ids |-> {id},
                                   user |-> s, cmid |-> k, at |-> None]]
  BY DEF Send
<1>3. req' \in [Reqs -> Reqstates]
  BY <1>1, <1>2 DEF SInv, Reqstates
<1>4. nextId' = nextId + 1
  BY DEF Send, NextVal
<1>5. CASE found = {}
  <2>1. row' = [row EXCEPT ![nextId] = new] /\ id = nextId
    BY <1>5 DEF Send
  <2>2. new \in Rows /\ new # None /\ new.from = s /\ new.cmid = k
    BY NoneAssumption DEF Rows
  <2>3. row[nextId] = None
    BY <1>1 DEF SInv, KeysHold, Ids
  <2>4. \A x \in Ids : row[x] # None => row'[x] = row[x]
    BY <2>1, <2>3 DEF SInv
  <2>5. \A x \in Ids : row'[x] # None => (x = nextId /\ row'[x] = new) \/ row'[x] = row[x]
    BY <2>1 DEF SInv
  <2>6. \A x \in Ids : row[x] # None => ~ (row[x].from = s /\ row[x].cmid = k)
    BY <1>5 DEF Existing, Inserted
  <2>7. KeysHold'
    <3>1. \A x \in Ids : row'[x] # None => x < nextId'
      BY <1>1, <1>4, <2>5 DEF SInv, KeysHold, Ids
    <3>2. ASSUME NEW x \in Ids, NEW y \in Ids, row'[x] # None, row'[y] # None,
                 row'[x].from = row'[y].from, row'[x].cmid = row'[y].cmid
          PROVE  x = y
      BY <2>2, <2>5, <2>6, <3>2 DEF SInv, KeysHold
    <3>3. QED BY <3>1, <3>2 DEF KeysHold
  <2>8. SendsAnswerTheirRow'
    <3>1. row'[id] = new
      BY <1>1, <2>1 DEF SInv
    <3>2. SUFFICES ASSUME NEW q \in Reqs, req'[q].op = "send"
                   PROVE  \E x \in Ids : /\ req'[q].ids = {x} /\ row'[x] # None
                                         /\ row'[x].from = req'[q].user
                                         /\ row'[x].cmid = req'[q].cmid
      BY DEF SendsAnswerTheirRow
    <3>3. CASE q = r
      <4>1. req'[q].ids = {id} /\ req'[q].user = s /\ req'[q].cmid = k
        BY <1>2, <3>3 DEF SInv
      <4>2. QED BY <1>1, <2>2, <3>1, <4>1
    <3>4. CASE q # r
      <4>1. req'[q] = req[q]
        BY <1>2, <3>4 DEF SInv
      <4>2. PICK x \in Ids : /\ req[q].ids = {x} /\ row[x] # None
                             /\ row[x].from = req[q].user /\ row[x].cmid = req[q].cmid
        BY <3>2, <4>1 DEF SInv, SendsAnswerTheirRow
      <4>3. QED BY <2>4, <4>1, <4>2
    <3>5. QED BY <3>3, <3>4
  <2>9. QED
    BY <1>1, <1>3, <1>4, <2>1, <2>2, <2>7, <2>8 DEF SInv
<1>6. CASE found # {}
  <2>1. UNCHANGED row /\ id \in found
    BY <1>6 DEF Send
  <2>2. row[id] # None /\ row[id].from = s /\ row[id].cmid = k
    BY <2>1 DEF Existing, Inserted
  <2>3. KeysHold'
    BY <1>4, <2>1 DEF SInv, KeysHold, Ids
  <2>4. SendsAnswerTheirRow'
    BY <1>1, <1>2, <2>1, <2>2 DEF SInv, SendsAnswerTheirRow
  <2>5. QED
    BY <1>3, <1>4, <2>1, <2>3, <2>4 DEF SInv
<1>7. QED BY <1>5, <1>6

LEMMA SRequest ==
  ASSUME SInv, NEW r \in Reqs,
         \/ \E u \in Users, id \in Ids : Delete(r, u, id)
         \/ \E i \in Instances, u, peer \in Users : MarkRead(r, i, u, peer)
         \/ Publish(r) \/ SendReceipt(r)
  PROVE  SInv'
<1>1. UNCHANGED <<row, nextId>>
  BY DEF Delete, MarkRead, Publish, SendReceipt, table
<1>2. req[r] \in Reqstates
  BY DEF SInv
<1>3. CASE Publish(r) \/ SendReceipt(r)
  <2>1. PICK d \in {"done", "lost"} : req' = [req EXCEPT ![r] = [req[r] EXCEPT !.st = d]]
    BY <1>3 DEF Publish, SendReceipt
  <2>2. [req[r] EXCEPT !.st = d] \in Reqstates
    BY <1>2 DEF Reqstates
  <2>3. req' \in [Reqs -> Reqstates]
    BY <2>1, <2>2 DEF SInv
  <2>4. \A q \in Reqs : req'[q].op = req[q].op /\ req'[q].ids = req[q].ids
                        /\ req'[q].user = req[q].user /\ req'[q].cmid = req[q].cmid
    BY <1>2, <2>1 DEF SInv, Reqstates
  <2>5. QED BY <1>1, <2>3, <2>4, SOther
<1>4. ASSUME NEW n \in Reqstates, n.op # "send", req' = [req EXCEPT ![r] = n]
      PROVE  SInv'
  <2>1. req' \in [Reqs -> Reqstates]
    BY <1>4 DEF SInv
  <2>2. \A q \in Reqs : req'[q].op = "send" => req'[q] = req[q]
    BY <1>4 DEF SInv
  <2>3. QED BY <1>1, <2>1, <2>2, SOther
<1>5. ASSUME NEW u \in Users, NEW id \in Ids, Delete(r, u, id)
      PROVE  SInv'
  <2> DEFINE n == [st |-> "publish", op |-> "delete", ids |-> {id}, user |-> u,
                   cmid |-> None, at |-> None]
  <2>1. n \in Reqstates /\ n.op # "send" /\ req' = [req EXCEPT ![r] = n]
    BY <1>5 DEF Delete, Reqstates
  <2> HIDE DEF n
  <2>2. QED BY <1>4, <2>1
<1>6. ASSUME NEW i \in Instances, NEW u \in Users, NEW peer \in Users, MarkRead(r, i, u, peer)
      PROVE  SInv'
  <2> DEFINE n == [st |-> "receipt", op |-> "read", ids |-> Unread(u, peer), user |-> peer,
                   cmid |-> None, at |-> i]
  <2>1. Unread(u, peer) \in SUBSET Ids
    BY DEF Unread, Inserted
  <2>2. n \in Reqstates /\ n.op # "send" /\ req' = [req EXCEPT ![r] = n]
    BY <1>6, <2>1 DEF MarkRead, Reqstates
  <2> HIDE DEF n
  <2>3. QED BY <1>4, <2>2
<1>7. QED BY <1>3, <1>5, <1>6

LEMMA SNext == SInv /\ [Next]_vars => SInv'
<1> SUFFICES ASSUME SInv, [Next]_vars PROVE SInv'
  OBVIOUS
<1>1. CASE UNCHANGED <<row, nextId, req>>
  BY <1>1, SOther DEF SInv
<1>2. CASE UNCHANGED vars
  BY <1>1, <1>2 DEF vars, table
<1>3. ASSUME NEW i \in Instances, SubscriberStep(i) \/ SubscriptionLost(i) \/ Resubscribe(i)
      PROVE  SInv'
  BY <1>1, <1>3 DEF SubscriberStep, Receive, PushNext, SubscriptionLost, Resubscribe, table
<1>4. ASSUME NEW c \in Conns,
             HandlerStep(c) \/ Disconnect(c) \/ \E n \in SinceIds : Register(c, n)
      PROVE  SInv'
  BY <1>1, <1>4 DEF HandlerStep, GetUnread, Replay, ReplayDone, Disconnect, Register, table
<1>5. QED
  BY <1>2, <1>3, <1>4, SSend, SRequest DEF Next, RequestStep

\* For any number of clients retrying on any instances, two sends with the same
\* sender and clientMessageId answer with the same message (CreateOrGetExisting).
THEOREM SendIsIdempotent == Spec => []IdempotentSend
<1>1. Init => SInv
  BY DEF Init, SInv, KeysHold, SendsAnswerTheirRow, NewReq, Reqstates
<1>2. SInv => IdempotentSend
  <2>1. SUFFICES ASSUME SInv, NEW r1 \in Reqs, NEW r2 \in Reqs,
                        req[r1].op = "send", req[r2].op = "send",
                        req[r1].user = req[r2].user, req[r1].cmid = req[r2].cmid
                 PROVE  req[r1].ids = req[r2].ids
    BY DEF IdempotentSend
  <2>2. PICK x \in Ids : /\ req[r1].ids = {x} /\ row[x] # None
                         /\ row[x].from = req[r1].user /\ row[x].cmid = req[r1].cmid
    BY <2>1 DEF SInv, SendsAnswerTheirRow
  <2>3. PICK y \in Ids : /\ req[r2].ids = {y} /\ row[y] # None
                         /\ row[y].from = req[r2].user /\ row[y].cmid = req[r2].cmid
    BY <2>1 DEF SInv, SendsAnswerTheirRow
  <2>4. x = y
    BY <2>1, <2>2, <2>3 DEF SInv, KeysHold
  <2>5. QED BY <2>2, <2>3, <2>4
<1>3. QED
  BY <1>1, <1>2, SNext, PTL DEF Spec
-----------------------------------------------------------------------------
(* Who is told *)

\* A party to an existing message.
IsParty(u, id) == row[id] \in Rows /\ u \in Participants(id)

\* Whoever is about to be told about a message, and whoever has been, is a party
\* to it: receipts, the users a subscriber still has to serve, the messages a
\* handler replays, and the frames.
ReceiptsAreTrue ==
    \A r \in Reqs : req[r].st = "receipt" =>
        \A id \in req[r].ids : IsParty(req[r].user, id)
HandsAreTrue ==
    \A i \in Instances : hand[i] # None =>
        \A j \in 1 .. Len(hand[i].left) : IsParty(hand[i].left[j], hand[i].id)
ReplaysAreTrue == \A c \in Conns : \A id \in todo[c] : IsParty(UserOf[c], id)
FramesAreTrue ==
    \A c \in Conns : \A j \in 1 .. Len(frames[c]) : IsParty(UserOf[c], frames[c][j].id)

OInv == /\ DInv /\ SInv
        /\ ReceiptsAreTrue /\ HandsAreTrue /\ ReplaysAreTrue /\ FramesAreTrue

\* A row is never changed: an id is used once.
LEMMA RowsStand ==
  ASSUME SInv, [Next]_vars
  PROVE  \A id \in Ids : row[id] \in Rows => row'[id] = row[id]
<1>1. ASSUME NEW r \in Reqs, NEW s \in Users, NEW t \in Users, NEW k \in ClientIds,
             Send(r, s, t, k), NEW id \in Ids, row[id] \in Rows
      PROVE  row'[id] = row[id]
  <2>1. id < nextId
    BY <1>1, NoneAssumption DEF SInv, KeysHold
  <2>2. id # nextId
    BY <2>1 DEF SInv, Ids
  <2>3. QED
    BY <1>1, <2>2 DEF Send, SInv
<1>2. CASE UNCHANGED row
  BY <1>2
<1>3. QED
  BY <1>1, <1>2 DEF Next, vars, table, RequestStep, SubscriberStep, HandlerStep, Delete, MarkRead,
     Publish, SendReceipt, Receive, PushNext, SubscriptionLost, Resubscribe, GetUnread, Replay,
     ReplayDone, Disconnect, Register

\* What is known of a party stays known.
LEMMA PartiesStand ==
  ASSUME SInv, [Next]_vars, NEW u, NEW id \in Ids, IsParty(u, id)
  PROVE  IsParty(u, id)'
BY RowsStand DEF IsParty, Participants

\* One push of a true frame.
LEMMA OPush ==
  ASSUME OInv, [Next]_vars, NEW i, NEW u, NEW f \in Frames, Push(i, u, f), IsParty(u, f.id)
  PROVE  FramesAreTrue'
<1>1. frames \in [Conns -> Seq(Frames)]
  BY DEF OInv, DInv, PType
<1>2. SUFFICES ASSUME NEW c \in Conns, NEW j \in 1 .. Len(frames'[c])
               PROVE  LET id == frames'[c][j].id IN
                      row'[id] \in Rows /\ UserOf[c] \in {row'[id].from, row'[id].to}
  BY DEF FramesAreTrue, IsParty, Participants
<1>3. \/ frames'[c] = frames[c]
      \/ UserOf[c] = u /\ frames'[c] = Append(frames[c], f)
  BY <1>1 DEF Push, Local
<1>4. \/ j \in 1 .. Len(frames[c]) /\ frames'[c][j] = frames[c][j]
      \/ UserOf[c] = u /\ frames'[c][j] = f
  BY <1>1, <1>2, <1>3, AppendEntries
<1>5. CASE j \in 1 .. Len(frames[c]) /\ frames'[c][j] = frames[c][j]
  <2>1. frames[c][j] \in Frames
    BY <1>1, <1>5
  <2>2. IsParty(UserOf[c], frames[c][j].id) /\ frames[c][j].id \in Ids
    BY <1>5, <2>1 DEF OInv, FramesAreTrue, Frames
  <2>3. QED
    BY <1>5, <2>2, RowsStand DEF IsParty, Participants, OInv
<1>6. CASE UserOf[c] = u /\ frames'[c][j] = f
  <2>1. f.id \in Ids
    BY DEF Frames
  <2>2. QED
    BY <1>6, <2>1, RowsStand DEF IsParty, Participants, OInv
<1>7. QED
  BY <1>4, <1>5, <1>6

\* Steps that push nothing and leave what is on its way.
LEMMA OStutter ==
  ASSUME OInv, [Next]_vars
  PROVE  /\ UNCHANGED frames => FramesAreTrue'
         /\ UNCHANGED hand => HandsAreTrue'
         /\ UNCHANGED todo => ReplaysAreTrue'
         /\ UNCHANGED req => ReceiptsAreTrue'
<1>1. \A id \in Ids : row[id] \in Rows => row'[id] = row[id]
  BY RowsStand DEF OInv
<1>2. ASSUME UNCHANGED frames PROVE FramesAreTrue'
  <2>1. \A c \in Conns : \A j \in 1 .. Len(frames[c]) : frames[c][j] \in Frames
    BY DEF OInv, DInv, PType
  <2>2. \A c \in Conns : \A j \in 1 .. Len(frames[c]) : frames[c][j].id \in Ids
    BY <2>1 DEF Frames
  <2>3. QED
    BY <1>1, <1>2, <2>2 DEF OInv, FramesAreTrue, IsParty, Participants
<1>3. ASSUME UNCHANGED hand PROVE HandsAreTrue'
  <2>1. \A i \in Instances : hand[i] # None => hand[i].id \in Ids
    BY DEF OInv, DInv, PType, Hands
  <2>2. QED
    BY <1>1, <1>3, <2>1 DEF OInv, HandsAreTrue, IsParty, Participants
<1>4. ASSUME UNCHANGED todo PROVE ReplaysAreTrue'
  BY <1>1, <1>4 DEF OInv, DInv, PType, ReplaysAreTrue, IsParty, Participants
<1>5. ASSUME UNCHANGED req PROVE ReceiptsAreTrue'
  <2>1. \A r \in Reqs : req[r].ids \subseteq Ids
    BY DEF OInv, DInv, PType, Reqstates
  <2>2. QED
    BY <1>1, <1>5, <2>1 DEF OInv, ReceiptsAreTrue, IsParty, Participants
<1>6. QED
  BY <1>2, <1>3, <1>4, <1>5
\* A step of a request: what a receipt says is true when the receipt is new.
LEMMA ORequest ==
  ASSUME OInv, [Next]_vars, NEW r \in Reqs, NEW n \in Reqstates, req' = [req EXCEPT ![r] = n],
         n.st = "receipt" => \A id \in n.ids : IsParty(n.user, id)
  PROVE  ReceiptsAreTrue'
<1>1. \A id \in Ids : row[id] \in Rows => row'[id] = row[id]
  BY RowsStand DEF OInv
<1>2. \A q \in Reqs : req[q].ids \subseteq Ids
  BY DEF OInv, DInv, PType, Reqstates
<1>3. n.ids \subseteq Ids
  BY DEF Reqstates
<1>4. \A q \in Reqs : req'[q] = n \/ req'[q] = req[q]
  BY DEF OInv, DInv, PType
<1>5. QED
  BY <1>1, <1>2, <1>3, <1>4 DEF OInv, ReceiptsAreTrue, IsParty, Participants

LEMMA OSendDelete ==
  ASSUME OInv, [Next]_vars, NEW r \in Reqs,
         \/ \E s, t \in Users, k \in ClientIds : Send(r, s, t, k)
         \/ \E u \in Users, id \in Ids : Delete(r, u, id)
         \/ Publish(r)
  PROVE  ReceiptsAreTrue' /\ UNCHANGED <<hand, todo, frames>>
<1>1. UNCHANGED <<hand, todo, frames>>
  BY DEF Send, Delete, Publish, subs, conns
<1>2. \A q \in Reqs : q # r => req'[q] = req[q]
  BY DEF Send, Delete, Publish, OInv, DInv, PType
<1>3. req'[r].st # "receipt"
  <2>1. req \in [Reqs -> Reqstates] /\ req[r] \in Reqstates
    BY DEF OInv, DInv, PType
  <2>2. CASE Publish(r)
    <3>1. PICK d \in {"done", "lost"} : req' = [req EXCEPT ![r] = [req[r] EXCEPT !.st = d]]
      BY <2>2 DEF Publish
    <3>2. QED
      BY <2>1, <3>1 DEF Reqstates
  <2>3. ASSUME NEW u \in Users, NEW id \in Ids, Delete(r, u, id) PROVE req'[r].st # "receipt"
    BY <2>1, <2>3 DEF Delete
  <2>4. ASSUME NEW s \in Users, NEW t \in Users, NEW k \in ClientIds, Send(r, s, t, k)
        PROVE  req'[r].st # "receipt"
    BY <2>1, <2>4 DEF Send
  <2>5. QED
    BY <2>2, <2>3, <2>4
<1>4. \A id \in Ids : row[id] \in Rows => row'[id] = row[id]
  BY RowsStand DEF OInv
<1>5. \A q \in Reqs : req[q].ids \subseteq Ids
  BY DEF OInv, DInv, PType, Reqstates
<1>6. QED
  BY <1>1, <1>2, <1>3, <1>4, <1>5 DEF OInv, ReceiptsAreTrue, IsParty, Participants

LEMMA OMarkRead ==
  ASSUME OInv, [Next]_vars, NEW r \in Reqs, NEW i \in Instances, NEW u \in Users, NEW peer \in Users,
         MarkRead(r, i, u, peer)
  PROVE  ReceiptsAreTrue' /\ UNCHANGED <<hand, todo, frames>>
<1> DEFINE n == [st |-> "receipt", op |-> "read", ids |-> Unread(u, peer), user |-> peer,
                 cmid |-> None, at |-> i]
<1>1. Unread(u, peer) \in SUBSET Ids
  BY DEF Unread, Inserted
<1>2. n \in Reqstates /\ req' = [req EXCEPT ![r] = n]
  BY <1>1 DEF MarkRead, Reqstates
<1>3. \A id \in n.ids : IsParty(n.user, id)
  BY DEF Unread, Inserted, IsParty, Participants, OInv, DInv, PType
<1> HIDE DEF n
<1>4. QED
  BY <1>2, <1>3, ORequest DEF MarkRead, subs, conns

LEMMA OSendReceipt ==
  ASSUME OInv, [Next]_vars, NEW r \in Reqs, SendReceipt(r)
  PROVE  ReceiptsAreTrue' /\ FramesAreTrue' /\ UNCHANGED <<hand, todo>>
<1>1. req[r] \in Reqstates /\ req[r].ids \subseteq Ids /\ req[r].st = "receipt"
  BY DEF SendReceipt, OInv, DInv, PType, Reqstates
<1>2. PICK id \in req[r].ids :
        Push(req[r].at, req[r].user,
             [type |-> "read", id |-> id, body |-> FALSE, replay |-> FALSE])
  BY DEF SendReceipt
<1>3. [type |-> "read", id |-> id, body |-> FALSE, replay |-> FALSE] \in Frames
  BY <1>1 DEF Frames
<1>4. IsParty(req[r].user, id)
  BY <1>1 DEF OInv, ReceiptsAreTrue
<1>5. FramesAreTrue'
  BY <1>2, <1>3, <1>4, OPush
<1>6. [req[r] EXCEPT !.st = "done"] \in Reqstates /\ [req[r] EXCEPT !.st = "done"].st = "done"
  BY <1>1 DEF Reqstates
<1>7. req' = [req EXCEPT ![r] = [req[r] EXCEPT !.st = "done"]]
  BY DEF SendReceipt
<1>8. QED
  BY <1>5, <1>6, <1>7, ORequest DEF SendReceipt, subs, conns

\* The parties a subscriber serves are the message's own.
LEMMA OReceive ==
  ASSUME OInv, [Next]_vars, NEW i \in Instances, Receive(i)
  PROVE  HandsAreTrue' /\ UNCHANGED <<req, todo, frames>>
<1> DEFINE e == Head(queue[i])
<1>1. UNCHANGED <<row, req, todo, frames>>
  BY DEF Receive, table, conns
<1>2. e \in Events /\ e.id \in Ids /\ row[e.id] \in Rows
  <2>1. queue[i] \in Seq(Events) /\ queue[i] # <<>>
    BY DEF Receive, OInv, DInv, PType
  <2>2. e \in Events /\ e = queue[i][1] /\ 1 \in 1 .. Len(queue[i])
    BY <2>1, TailEntries
  <2>3. QED
    BY <2>2 DEF Events, OInv, DInv, EventsAreTrue
<1>3. ASSUME NEW l \in Seq(Users), l = Parties(e.id) \/ l = Tail(Parties(e.id)),
             NEW j \in 1 .. Len(l)
      PROVE  IsParty(l[j], e.id)
  BY <1>2, <1>3 DEF Parties, IsParty, Participants, Rows
<1>4. CASE UNCHANGED hand
  BY <1>1, <1>4, OStutter
<1>5. ASSUME NEW h \in Hands, hand' = [hand EXCEPT ![i] = h], h.id = e.id,
             h.left = Parties(e.id) \/ h.left = Tail(Parties(e.id))
      PROVE  HandsAreTrue'
  <2>1. h.left \in Seq(Users)
    BY DEF Hands
  <2>2. \A j \in 1 .. Len(h.left) : IsParty(h.left[j], h.id)
    BY <1>3, <1>5, <2>1
  <2>3. \A k \in Instances : hand'[k] = h \/ hand'[k] = hand[k]
    BY <1>5 DEF OInv, DInv, PType
  <2>4. QED
    BY <1>1, <2>2, <2>3 DEF OInv, HandsAreTrue, IsParty, Participants
<1>6. Parties(e.id) \in Seq(Users) /\ Tail(Parties(e.id)) \in Seq(Users)
  BY <1>2 DEF Parties, Rows
<1>7. ASSUME NEW ty \in {"message", "deleted"}, NEW b \in BOOLEAN,
             NEW l \in {Parties(e.id), Tail(Parties(e.id))},
             hand' = [hand EXCEPT ![i] = [type |-> ty, id |-> e.id, body |-> b, left |-> l]]
      PROVE  HandsAreTrue'
  <2>1. [type |-> ty, id |-> e.id, body |-> b, left |-> l] \in Hands
    BY <1>2, <1>6 DEF Hands
  <2>2. QED
    BY <1>5, <1>7, <2>1
<1>8. BodyVisible(e.id) \in BOOLEAN
  BY DEF BodyVisible
<1>9. HandsAreTrue'
  BY <1>4, <1>7, <1>8 DEF Receive
<1>10. QED
  BY <1>1, <1>9

LEMMA OPushNext ==
  ASSUME OInv, [Next]_vars, NEW i \in Instances, PushNext(i)
  PROVE  HandsAreTrue' /\ FramesAreTrue' /\ UNCHANGED <<req, todo>>
<1> DEFINE h == hand[i]
<1> DEFINE f == [type |-> h.type, id |-> h.id, body |-> h.body, replay |-> FALSE]
<1> DEFINE rest == Tail(h.left)
<1>1. /\ h # None /\ Push(i, Head(h.left), f)
      /\ hand' = [hand EXCEPT ![i] = IF rest = <<>> THEN None ELSE [h EXCEPT !.left = rest]]
      /\ UNCHANGED <<row, req, todo>>
  BY DEF PushNext, table, conns
<1>2. h \in Hands /\ h.left \in Seq(Users) /\ h.left # <<>> /\ h.id \in Ids
  BY <1>1 DEF OInv, DInv, PType, Hands
<1>3. f \in Frames
  BY <1>2 DEF Hands, Frames
<1>4. /\ Head(h.left) = h.left[1] /\ 1 \in 1 .. Len(h.left)
      /\ \A j \in 1 .. Len(rest) : j + 1 \in 1 .. Len(h.left) /\ rest[j] = h.left[j + 1]
  BY <1>2, TailEntries
<1>5. \A j \in 1 .. Len(h.left) : IsParty(h.left[j], h.id)
  BY <1>1 DEF OInv, HandsAreTrue
<1>6. FramesAreTrue'
  <2>1. IsParty(Head(h.left), f.id)
    BY <1>4, <1>5
  <2> HIDE DEF f, h
  <2>2. QED
    BY <1>1, <1>3, <2>1, OPush
<1>7. HandsAreTrue'
  <2>1. SUFFICES ASSUME NEW k \in Instances, hand'[k] # None, NEW j \in 1 .. Len(hand'[k].left)
                 PROVE  LET id == hand'[k].id  u == hand'[k].left[j] IN
                        row'[id] \in Rows /\ u \in {row'[id].from, row'[id].to}
    BY DEF HandsAreTrue, IsParty, Participants
  <2>2. CASE k # i
    <3>1. hand'[k] = hand[k]
      BY <1>1, <2>2 DEF OInv, DInv, PType
    <3>2. QED
      BY <1>1, <2>1, <3>1 DEF OInv, HandsAreTrue, IsParty, Participants
  <2>3. CASE k = i
    <3>1. hand'[k].left = rest /\ hand'[k].id = h.id
      BY <1>1, <1>2, <2>1, <2>3 DEF OInv, DInv, PType, Hands
    <3>2. QED
      BY <1>1, <1>4, <1>5, <2>1, <3>1 DEF IsParty, Participants
  <2>4. QED
    BY <2>2, <2>3
<1>8. QED
  BY <1>1, <1>6, <1>7

LEMMA OReplay ==
  ASSUME OInv, [Next]_vars, NEW c \in Conns, Replay(c)
  PROVE  ReplaysAreTrue' /\ FramesAreTrue' /\ UNCHANGED <<req, hand>>
<1>1. PICK id \in todo[c] : /\ todo' = [todo EXCEPT ![c] = @ \ {id}]
                            /\ Push(InstanceOf[c], UserOf[c], MessageFrame(id, TRUE, TRUE))
  BY DEF Replay
<1>2. UNCHANGED <<row, req, hand>>
  BY DEF Replay, table, subs
<1>3. id \in Ids /\ IsParty(UserOf[c], id)
  BY <1>1 DEF OInv, DInv, PType, ReplaysAreTrue
<1>4. MessageFrame(id, TRUE, TRUE) \in Frames /\ MessageFrame(id, TRUE, TRUE).id = id
  BY <1>3 DEF MessageFrame, Frames
<1>5. FramesAreTrue'
  BY <1>1, <1>3, <1>4, OPush
<1>6. ReplaysAreTrue'
  BY <1>1, <1>2 DEF OInv, DInv, PType, ReplaysAreTrue, IsParty, Participants
<1>7. QED
  BY <1>2, <1>5, <1>6

\* What a handler reads for its replay was sent to its user.
LEMMA OConn ==
  ASSUME OInv, [Next]_vars, NEW c \in Conns,
         (\E n \in SinceIds : Register(c, n)) \/ GetUnread(c) \/ ReplayDone(c) \/ Disconnect(c)
  PROVE  ReplaysAreTrue' /\ UNCHANGED <<req, hand, frames>>
<1>1. UNCHANGED <<row, req, hand, frames>>
  BY DEF Register, GetUnread, ReplayDone, Disconnect, table, subs
<1>2. todo' = todo \/ todo' = [todo EXCEPT ![c] = Missed(c)]
  BY DEF Register, GetUnread, ReplayDone, Disconnect
<1>3. \A id \in Missed(c) : IsParty(UserOf[c], id)
  BY DEF Missed, Inserted, IsParty, Participants, OInv, DInv, PType
<1>4. QED
  BY <1>1, <1>2, <1>3 DEF OInv, DInv, PType, ReplaysAreTrue, IsParty, Participants

LEMMA ONext == OInv /\ [Next]_vars => OInv'
<1> SUFFICES ASSUME OInv, [Next]_vars PROVE OInv'
  OBVIOUS
<1>1. DInv' /\ SInv'
  BY DNext, SNext DEF OInv
<1>2. CASE UNCHANGED <<req, hand, todo, frames>>
  BY <1>1, <1>2, OStutter DEF OInv
<1>3. CASE UNCHANGED vars
  BY <1>2, <1>3 DEF vars, subs, conns
<1>4. ASSUME NEW i \in Instances, SubscriptionLost(i) \/ Resubscribe(i) PROVE OInv'
  BY <1>2, <1>4 DEF SubscriptionLost, Resubscribe, conns
<1>5. ASSUME NEW r \in Reqs,
             \/ \E s, t \in Users, k \in ClientIds : Send(r, s, t, k)
             \/ \E u \in Users, id \in Ids : Delete(r, u, id)
             \/ \E i \in Instances, u, peer \in Users : MarkRead(r, i, u, peer)
             \/ RequestStep(r)
      PROVE  OInv'
  BY <1>1, <1>5, OStutter, OSendDelete, OMarkRead, OSendReceipt DEF OInv, RequestStep
<1>6. ASSUME NEW i \in Instances, SubscriberStep(i) PROVE OInv'
  BY <1>1, <1>6, OStutter, OReceive, OPushNext DEF OInv, SubscriberStep
<1>7. ASSUME NEW c \in Conns,
             HandlerStep(c) \/ Disconnect(c) \/ \E n \in SinceIds : Register(c, n)
      PROVE  OInv'
  BY <1>1, <1>7, OStutter, OReplay, OConn DEF OInv, HandlerStep
<1>8. QED
  BY <1>3, <1>4, <1>5, <1>6, <1>7 DEF Next

\* For any users, connections and faults, and whatever the order of pushes,
\* replays, deletes and receipts, a connection is told about its user's own
\* messages only (sendToUser, GetUnreadForUser, SendReadReceiptToUser).
THEOREM ToldOnlyToParties == Spec => []OnlyParticipantsAreTold
<1>1. Init => OInv
  <2> SUFFICES ASSUME Init PROVE OInv
    OBVIOUS
  <2>1. DInv
    BY DInit
  <2>2. SInv
    BY DEF Init, SInv, KeysHold, SendsAnswerTheirRow, NewReq, Reqstates
  <2>3. ReceiptsAreTrue
    BY DEF Init, ReceiptsAreTrue, NewReq
  <2>4. QED
    BY <2>1, <2>2, <2>3 DEF Init, OInv, HandsAreTrue, ReplaysAreTrue, FramesAreTrue
<1>2. OInv => OnlyParticipantsAreTold
  BY DEF OInv, FramesAreTrue, IsParty, OnlyParticipantsAreTold
<1>3. QED
  BY <1>1, <1>2, ONext, PTL DEF Spec

-----------------------------------------------------------------------------
(* Type correctness: the variables DInv and SInv say nothing about *)

RestOK ==
    /\ deleted \subseteq Inserted /\ read \subseteq Inserted
    /\ up \in [Instances -> BOOLEAN]
    /\ cpc \in [Conns -> {"off", "added", "replay", "live", "closed"}]
    /\ since \in [Conns -> Nat]
    /\ faults \subseteq FaultKinds

LEMMA RestNext == SInv /\ RestOK /\ [Next]_vars => RestOK'
<1> SUFFICES ASSUME SInv, RestOK, [Next]_vars PROVE RestOK'
  OBVIOUS
<1>1. Inserted \subseteq Inserted'
  <2>1. \A id \in Inserted : id \in Ids /\ row[id] \in Rows
    BY DEF Inserted, SInv
  <2>2. \A id \in Inserted : row'[id] = row[id]
    BY <2>1, RowsStand
  <2>3. QED
    BY <2>2 DEF Inserted
<1>2. faults' \subseteq FaultKinds
  <2>1. ASSUME NEW k, Fails(k) PROVE faults' \subseteq FaultKinds
    BY <2>1, MessagingAssumption DEF Fails, RestOK
  <2>2. ASSUME UNCHANGED faults PROVE faults' \subseteq FaultKinds
    BY <2>2 DEF RestOK
  <2>3. ASSUME NEW r \in Reqs, NEW s \in Users, NEW t \in Users, NEW k \in ClientIds,
               Send(r, s, t, k)
        PROVE  faults' \subseteq FaultKinds
    BY <2>1, <2>2, <2>3 DEF Send, Works
  <2>4. ASSUME NEW r \in Reqs, RequestStep(r) PROVE faults' \subseteq FaultKinds
    BY <2>1, <2>2, <2>4 DEF RequestStep, Publish, SendReceipt, Works
  <2>5. ASSUME NEW i \in Instances, SubscriberStep(i) \/ SubscriptionLost(i) \/ Resubscribe(i)
        PROVE  faults' \subseteq FaultKinds
    BY <2>1, <2>2, <2>5 DEF SubscriberStep, Receive, PushNext, SubscriptionLost, Resubscribe, Works
  <2>6. ASSUME NEW c \in Conns, HandlerStep(c) \/ Disconnect(c)
        PROVE  faults' \subseteq FaultKinds
    BY <2>1, <2>2, <2>6 DEF HandlerStep, GetUnread, Replay, ReplayDone, Disconnect, Works
  <2>7. QED
    BY <2>2, <2>3, <2>4, <2>5, <2>6 DEF Next, vars, Delete, MarkRead, Register
<1>3. /\ deleted' = deleted \/ \E id \in Inserted : deleted' = deleted \cup {id}
      /\ read' = read \/ \E u, peer \in Users : read' = read \cup Unread(u, peer)
  BY DEF Next, vars, table, RequestStep, SubscriberStep, HandlerStep, Send,
     Delete, MarkRead, Publish, SendReceipt, Receive, PushNext, SubscriptionLost, Resubscribe,
     GetUnread, Replay, ReplayDone, Disconnect, Register
<1>4. deleted' \subseteq Inserted' /\ read' \subseteq Inserted'
  BY <1>1, <1>3 DEF RestOK, Unread
<1>5. /\ up' = up \/ \E i \in Instances, b \in BOOLEAN : up' = [up EXCEPT ![i] = b]
      /\ cpc' = cpc \/ \E c \in Conns, p \in {"off", "added", "replay", "live", "closed"} :
                          cpc' = [cpc EXCEPT ![c] = p]
      /\ since' = since \/ \E c \in Conns, n \in SinceIds : since' = [since EXCEPT ![c] = n]
  BY DEF Next, vars, subs, conns, RequestStep, SubscriberStep, HandlerStep, Send,
     Delete, MarkRead, Publish, SendReceipt, Receive, PushNext, SubscriptionLost, Resubscribe,
     GetUnread, Replay, ReplayDone, Disconnect, Register
<1>6. QED
  BY <1>2, <1>4, <1>5, MessagingAssumption DEF RestOK

\* No handler, subscriber or replay leaves the types: in particular only rows that
\* exist are deleted or read, and no id is used that the sequence has not handed out.
THEOREM TypeCorrect == Spec => []TypeOK
<1>1. Init => DInv /\ SInv /\ RestOK
  <2> SUFFICES ASSUME Init PROVE DInv /\ SInv /\ RestOK
    OBVIOUS
  <2>1. SInv
    BY DEF Init, SInv, KeysHold, SendsAnswerTheirRow, NewReq, Reqstates
  <2>2. RestOK
    BY DEF Init, RestOK
  <2>3. QED
    BY <2>1, <2>2, DInit
<1>2. DInv /\ SInv /\ RestOK => TypeOK
  BY DEF DInv, PType, SInv, KeysHold, RestOK, TypeOK, Inserted
<1>3. QED
  BY <1>1, <1>2, DNext, SNext, RestNext, PTL DEF Spec

-----------------------------------------------------------------------------
(* The catch-up of a connection.  CatchUpMissesNothing speaks of connections   *)
(* whose replay is over; the invariant follows a message through the replay:   *)
(* it is still to be replayed, on the connection, or on its way there.         *)

Served(c, id) ==
    \/ id \in todo[c]
    \/ HasFrame(c, "message", id)
    \/ OnItsWay(InstanceOf[c], UserOf[c], id)

\* id is a message the catch-up of c, once read, is about.
Due(c, id) ==
    /\ id \in Inserted \ deleted
    /\ cpc[c] \in {"replay", "live"}
    /\ row[id].to = UserOf[c] /\ id > since[c]

CInv == /\ faults = {} => \A i \in Instances : up[i]
        /\ \A c \in Conns : cpc[c] = "live" => todo[c] = {}
        /\ faults = {} => \A c \in Conns : \A id \in Ids : Due(c, id) => Served(c, id)

\* The three places of a created event on its way.
InRequest(id)    == \E r \in Reqs : req[r].st = "publish" /\ req[r].op = "send" /\ id \in req[r].ids
InQueue(i, id)   == \E j \in 1 .. Len(queue[i]) : queue[i][j] = [kind |-> "created", id |-> id]
InHand(i, u, id) == /\ hand[i] # None
                    /\ hand[i].type = "message" /\ hand[i].id = id
                    /\ \E j \in 1 .. Len(hand[i].left) : hand[i].left[j] = u

\* The ways an event can be on its way to a connection.
LEMMA OnItsWayIs ==
  ASSUME NEW i, NEW u, NEW id
  PROVE  OnItsWay(i, u, id) <=> InRequest(id) \/ InQueue(i, id) \/ InHand(i, u, id)
BY DEF OnItsWay, InRequest, InQueue, InHand

\* Which steps touch what.
LEMMA StepCases ==
  ASSUME [Next]_vars
  PROVE  /\ UNCHANGED todo \/ \E c \in Conns : GetUnread(c) \/ Replay(c)
         /\ \/ UNCHANGED req
            \/ \E r \in Reqs : req[r].st = "idle" /\ \E n : req' = [req EXCEPT ![r] = n]
            \/ \E r \in Reqs : RequestStep(r)
         /\ \/ UNCHANGED queue
            \/ \E r \in Reqs : Publish(r)
            \/ \E i \in Instances : Receive(i) \/ SubscriptionLost(i)
         /\ UNCHANGED hand \/ \E i \in Instances : Receive(i) \/ PushNext(i)
         /\ \/ UNCHANGED frames
            \/ \E r \in Reqs : SendReceipt(r)
            \/ \E i \in Instances : PushNext(i)
            \/ \E c \in Conns : Replay(c)
<1> USE DEF Next, vars, subs, conns, RequestStep, SubscriberStep, HandlerStep, Delete, MarkRead,
        Resubscribe, ReplayDone, Disconnect, Register
<1>1. UNCHANGED todo \/ \E c \in Conns : GetUnread(c) \/ Replay(c)
  BY Zenon DEF Send, Publish, SendReceipt, Receive, PushNext, SubscriptionLost
<1>2. \/ UNCHANGED req
      \/ \E r \in Reqs : req[r].st = "idle" /\ \E n : req' = [req EXCEPT ![r] = n]
      \/ \E r \in Reqs : RequestStep(r)
  BY Zenon DEF Send, Receive, PushNext, SubscriptionLost, GetUnread, Replay
<1>3. \/ UNCHANGED queue
      \/ \E r \in Reqs : Publish(r)
      \/ \E i \in Instances : Receive(i) \/ SubscriptionLost(i)
  BY Zenon DEF Send, SendReceipt, PushNext, GetUnread, Replay
<1>4. UNCHANGED hand \/ \E i \in Instances : Receive(i) \/ PushNext(i)
  BY Zenon DEF Send, Publish, SendReceipt, SubscriptionLost, GetUnread, Replay
<1>5. \/ UNCHANGED frames
      \/ \E r \in Reqs : SendReceipt(r)
      \/ \E i \in Instances : PushNext(i)
      \/ \E c \in Conns : Replay(c)
  BY Zenon DEF Send, Publish, Receive, SubscriptionLost, GetUnread
<1>6. QED BY <1>1, <1>2, <1>3, <1>4, <1>5

\* A push adds to what a connection has been told, and tells the user's
\* registered connections there.
LEMMA PushAdds ==
  ASSUME frames \in [Conns -> Seq(Frames)], NEW i, NEW u, NEW f \in Frames, Push(i, u, f),
         NEW c \in Conns
  PROVE  /\ \A type, id : HasFrame(c, type, id) => HasFrame(c, type, id)'
         /\ c \in Local(i, u) => HasFrame(c, f.type, f.id)'
<1>1. frames'[c] = IF c \in Local(i, u) THEN Append(frames[c], f) ELSE frames[c]
  BY DEF Push
<1>2. CASE c \notin Local(i, u)
  BY <1>1, <1>2 DEF HasFrame
<1>3. CASE c \in Local(i, u)
  <2> DEFINE s == frames[c]
  <2> DEFINE t == Append(s, f)
  <2>1. /\ frames'[c] = t /\ Len(t) = Len(s) + 1 /\ Len(s) \in Nat
        /\ \A j \in 1 .. Len(t) : IF j = Len(s) + 1 THEN t[j] = f ELSE t[j] = s[j]
    BY <1>1, <1>3, AppendEntries
  <2> HIDE DEF t
  <2>2. t[Len(s) + 1] = f /\ Len(s) + 1 \in 1 .. Len(t)
    BY <2>1
  <2>3. HasFrame(c, f.type, f.id)'
    BY <2>1, <2>2 DEF HasFrame
  <2>4. ASSUME NEW type, NEW id, HasFrame(c, type, id) PROVE HasFrame(c, type, id)'
    <3>1. PICK j \in 1 .. Len(s) : s[j].type = type /\ s[j].id = id
      BY <2>4 DEF HasFrame
    <3>2. j \in 1 .. Len(t) /\ t[j] = s[j]
      BY <2>1
    <3>3. QED BY <2>1, <3>1, <3>2 DEF HasFrame
  <2>5. QED BY <2>3, <2>4
<1>4. QED BY <1>2, <1>3

\* The frame a receipt, a subscriber or a replay pushes.
LEMMA PushedFrames ==
  ASSUME DInv
  PROVE  /\ \A r \in Reqs : \A id \in req[r].ids :
              [type |-> "read", id |-> id, body |-> FALSE, replay |-> FALSE] \in Frames
         /\ \A i \in Instances : hand[i] # None =>
              [type |-> hand[i].type, id |-> hand[i].id, body |-> hand[i].body, replay |-> FALSE]
                 \in Frames
         /\ \A c \in Conns : \A id \in todo[c] : MessageFrame(id, TRUE, TRUE) \in Frames
<1>1. \A r \in Reqs : req[r].ids \subseteq Ids
  BY DEF DInv, PType, Reqstates
<1>2. \A i \in Instances : hand[i] # None =>
        /\ hand[i].type \in {"message", "deleted"} /\ hand[i].id \in Ids /\ hand[i].body \in BOOLEAN
  BY DEF DInv, PType, Hands
<1>3. \A c \in Conns : todo[c] \subseteq Ids
  BY DEF DInv, PType
<1>4. \A i \in Instances : hand[i] # None =>
        [type |-> hand[i].type, id |-> hand[i].id, body |-> hand[i].body, replay |-> FALSE]
           \in Frames
  BY <1>2 DEF Frames
<1>5. QED BY <1>1, <1>3, <1>4 DEF Frames, MessageFrame

\* What a connection has been told, it has been told for good.
LEMMA FramesStay ==
  ASSUME DInv, [Next]_vars, NEW c \in Conns, NEW type, NEW id, HasFrame(c, type, id)
  PROVE  HasFrame(c, type, id)'
<1>0. frames \in [Conns -> Seq(Frames)]
  BY DEF DInv, PType
<1>1. CASE UNCHANGED frames
  BY <1>1 DEF HasFrame
<1>2. ASSUME NEW r \in Reqs, SendReceipt(r) PROVE HasFrame(c, type, id)'
  <2>1. PICK x \in req[r].ids :
          Push(req[r].at, req[r].user,
               [type |-> "read", id |-> x, body |-> FALSE, replay |-> FALSE])
    BY <1>2 DEF SendReceipt
  <2>2. QED BY <1>0, <2>1, PushAdds, PushedFrames
<1>3. ASSUME NEW i \in Instances, PushNext(i) PROVE HasFrame(c, type, id)'
  BY <1>0, <1>3, PushAdds, PushedFrames DEF PushNext
<1>4. ASSUME NEW d \in Conns, Replay(d) PROVE HasFrame(c, type, id)'
  <2>1. PICK x \in todo[d] : Push(InstanceOf[d], UserOf[d], MessageFrame(x, TRUE, TRUE))
    BY <1>4 DEF Replay
  <2>2. QED BY <1>0, <2>1, PushAdds, PushedFrames
<1>5. QED BY <1>1, <1>2, <1>3, <1>4, StepCases

\* A fault, once it has happened, is recorded.
LEMMA NoFault ==
  ASSUME faults' = {}
  PROVE  \A k : ~Fails(k)
BY DEF Fails

\* A replayed message is pushed to the connection that replays it.
LEMMA TodoStep ==
  ASSUME DInv, RestOK, [Next]_vars, NEW c \in Conns, cpc[c] # "added",
         NEW id \in todo[c]
  PROVE  id \in todo'[c] \/ HasFrame(c, "message", id)'
<1>0. frames \in [Conns -> Seq(Frames)] /\ todo \in [Conns -> SUBSET Ids]
  BY DEF DInv, PType
<1>1. CASE UNCHANGED todo
  BY <1>1
<1>2. ASSUME NEW d \in Conns, GetUnread(d) PROVE id \in todo'[c]
  BY <1>0, <1>2 DEF GetUnread
<1>3. ASSUME NEW d \in Conns, Replay(d) PROVE id \in todo'[c] \/ HasFrame(c, "message", id)'
  <2>1. PICK x \in todo[d] : /\ todo' = [todo EXCEPT ![d] = @ \ {x}]
                             /\ Push(InstanceOf[d], UserOf[d], MessageFrame(x, TRUE, TRUE))
    BY <1>3 DEF Replay
  <2>2. CASE d # c \/ x # id
    BY <1>0, <2>1, <2>2
  <2>3. CASE d = c /\ x = id
    <3>1. c \in Local(InstanceOf[c], UserOf[c])
      BY <1>3, <2>3 DEF Replay, Local, Registered
    <3>2. MessageFrame(id, TRUE, TRUE) \in Frames
      BY PushedFrames
    <3>3. QED BY <1>0, <2>1, <2>3, <3>1, <3>2, PushAdds DEF MessageFrame
  <2>4. QED BY <2>2, <2>3
<1>4. QED BY <1>1, <1>2, <1>3, StepCases

\* A send waits to publish until its event is in the queue of every instance.
LEMMA RequestWay ==
  ASSUME DInv, SInv, CInv, [Next]_vars, faults = {}, faults' = {},
         NEW id \in Ids, InRequest(id), NEW i \in Instances
  PROVE  InRequest(id)' \/ InQueue(i, id)'
<1>0. req \in [Reqs -> Reqstates] /\ queue \in [Instances -> Seq(Events)]
  BY DEF DInv, PType
<1>1. PICK q \in Reqs : req[q].st = "publish" /\ req[q].op = "send" /\ id \in req[q].ids
  BY DEF InRequest
<1>2. CASE req'[q] = req[q]
  BY <1>1, <1>2 DEF InRequest
<1>3. ASSUME NEW r \in Reqs, RequestStep(r), r = q PROVE InQueue(i, id)'
  <2>1. Publish(q)
    BY <1>1, <1>3 DEF RequestStep, SendReceipt
  <2>2. req[q].ids = {id}
    BY <1>1 DEF SInv, SendsAnswerTheirRow
  <2>3. queue' = [k \in Instances |->
                    IF up[k] THEN Append(queue[k], EventOf(q, id)) ELSE queue[k]]
    BY <2>1, <2>2, NoFault DEF Publish
  <2>4. EventOf(q, id) = [kind |-> "created", id |-> id] /\ EventOf(q, id) \in Events
    BY <1>1 DEF EventOf, Events
  <2>5. up[i] /\ queue[i] \in Seq(Events)
    BY <1>0 DEF CInv
  <2>6. queue'[i] = Append(queue[i], EventOf(q, id))
    BY <2>3, <2>5
  <2>7. /\ Len(queue[i]) + 1 \in 1 .. Len(queue'[i])
        /\ queue'[i][Len(queue[i]) + 1] = EventOf(q, id)
    BY <2>4, <2>5, <2>6, AppendEntries
  <2>8. QED BY <2>4, <2>7 DEF InQueue
<1>4. ASSUME NEW r \in Reqs, RequestStep(r), r # q PROVE req'[q] = req[q]
  BY <1>0, <1>4 DEF RequestStep, Publish, SendReceipt
<1>5. ASSUME NEW r \in Reqs, req[r].st = "idle", NEW n, req' = [req EXCEPT ![r] = n]
      PROVE  req'[q] = req[q]
  BY <1>0, <1>1, <1>5
<1>6. QED BY <1>2, <1>3, <1>4, <1>5, StepCases

\* An event stays in the queue until the subscriber holds it for both parties.
LEMMA QueueWay ==
  ASSUME DInv, SInv, [Next]_vars, faults' = {},
         NEW id \in Ids, NEW i \in Instances, NEW u, u = row[id].to, InQueue(i, id)
  PROVE  InQueue(i, id)' \/ InHand(i, u, id)'
<1> DEFINE ev == [kind |-> "created", id |-> id]
<1>0. /\ queue \in [Instances -> Seq(Events)] /\ queue[i] \in Seq(Events)
      /\ hand \in [Instances -> Hands \cup {None}]
  BY DEF DInv, PType
<1>1. PICK j \in 1 .. Len(queue[i]) : queue[i][j] = ev
  BY DEF InQueue
<1>2. CASE queue'[i] = queue[i]
  BY <1>1, <1>2 DEF InQueue
<1>3. ASSUME NEW e \in Events, queue'[i] = Append(queue[i], e) PROVE InQueue(i, id)'
  <2>1. j \in 1 .. Len(queue'[i]) /\ queue'[i][j] = queue[i][j]
    BY <1>0, <1>3, AppendEntries
  <2>2. QED BY <1>1, <2>1 DEF InQueue
<1>4. ASSUME NEW r \in Reqs, Publish(r) PROVE InQueue(i, id)'
  <2>1. PICK x \in req[r].ids :
          queue' = [k \in Instances |->
                      IF up[k] THEN Append(queue[k], EventOf(r, x)) ELSE queue[k]]
    BY <1>4, NoFault DEF Publish
  <2>2. EventOf(r, x) \in Events
    <3>1. x \in Ids
      BY DEF DInv, PType, Reqstates
    <3>2. QED BY <3>1 DEF EventOf, Events
  <2>3. queue'[i] = IF up[i] THEN Append(queue[i], EventOf(r, x)) ELSE queue[i]
    BY <2>1
  <2>4. CASE up[i] BY <1>3, <2>2, <2>3, <2>4
  <2>5. CASE ~up[i]
    <3>1. queue'[i] = queue[i] BY <2>3, <2>5
    <3>2. QED BY <1>1, <3>1 DEF InQueue
  <2>6. QED BY <2>4, <2>5
<1>5. ASSUME NEW k \in Instances, SubscriptionLost(k) PROVE FALSE
  BY <1>5, NoFault DEF SubscriptionLost
<1>6. ASSUME NEW k \in Instances, Receive(k), k # i PROVE queue'[i] = queue[i]
  BY <1>0, <1>6 DEF Receive
<1>7. ASSUME Receive(i) PROVE InQueue(i, id)' \/ InHand(i, u, id)'
  <2> DEFINE s == queue[i]
  <2>1. s # <<>> /\ queue' = [queue EXCEPT ![i] = Tail(@)]
    BY <1>7 DEF Receive
  <2>2. queue'[i] = Tail(s)
    BY <1>0, <2>1
  <2>3. /\ Head(s) = s[1] /\ Len(s) \in Nat
        /\ \A m \in 1 .. Len(s) - 1 : m \in 1 .. Len(Tail(s)) /\ Tail(s)[m] = s[m + 1]
    BY <1>0, <2>1
  <2>4. CASE j # 1
    <3>1. j - 1 \in 1 .. Len(s) - 1 /\ (j - 1) + 1 = j
      BY <2>3, <2>4
    <3>2. j - 1 \in 1 .. Len(Tail(s)) /\ Tail(s)[j - 1] = ev
      BY <1>1, <2>3, <3>1
    <3>3. QED BY <2>2, <3>2 DEF InQueue
  <2>5. CASE j = 1
    <3>1. Head(s) = ev /\ ev.kind = "created" /\ ev.id = id
      BY <1>1, <2>3, <2>5
    <3> DEFINE h == [type |-> "message", id |-> id, body |-> BodyVisible(id), left |-> Parties(id)]
    <3>2. hand' = [hand EXCEPT ![i] = h]
      BY <1>7, <3>1, NoFault DEF Receive
    <3>3. hand'[i] = h
      BY <1>0, <3>2
    <3>4. h # None
      <4>1. row[id] \in Rows
        BY <1>1 DEF DInv, EventsAreTrue
      <4>2. row[id].from \in Users /\ row[id].to \in Users
        BY <4>1 DEF Rows
      <4>3. Parties(id) \in Seq(Users)
        BY <4>2 DEF Parties
      <4>4. h \in Hands
        BY <4>3 DEF Hands, BodyVisible
      <4>5. QED BY <4>4, NoneAssumption
    <3>5. 2 \in 1 .. Len(h.left) /\ h.left[2] = row[id].to
      BY DEF Parties
    <3>6. h.type = "message" /\ h.id = id
      OBVIOUS
    <3> HIDE DEF h
    <3>7. QED BY <3>3, <3>4, <3>5, <3>6 DEF InHand
  <2>6. QED BY <2>4, <2>5
<1>8. QED BY <1>2, <1>4, <1>5, <1>6, <1>7, StepCases

\* A message in hand is pushed to every user it is held for.
LEMMA HandWay ==
  ASSUME DInv, [Next]_vars, NEW id \in Ids, NEW c \in Conns, Registered(c),
         NEW i \in Instances, i = InstanceOf[c], NEW u, u = UserOf[c], InHand(i, u, id)
  PROVE  InHand(i, u, id)' \/ HasFrame(c, "message", id)'
<1>0. /\ frames \in [Conns -> Seq(Frames)] /\ hand \in [Instances -> Hands \cup {None}]
      /\ hand[i] # None /\ hand[i] \in Hands /\ hand[i].left # <<>> /\ hand[i].left \in Seq(Users)
  BY DEF DInv, PType, InHand, Hands
<1>1. CASE hand'[i] = hand[i]
  BY <1>1 DEF InHand
<1>2. ASSUME NEW k \in Instances, Receive(k) PROVE hand'[i] = hand[i]
  BY <1>0, <1>2 DEF Receive
<1>3. ASSUME NEW k \in Instances, PushNext(k), k # i PROVE hand'[i] = hand[i]
  BY <1>0, <1>3 DEF PushNext
<1>4. ASSUME PushNext(i) PROVE InHand(i, u, id)' \/ HasFrame(c, "message", id)'
  <2> DEFINE h == hand[i]
  <2> DEFINE f == [type |-> h.type, id |-> h.id, body |-> h.body, replay |-> FALSE]
  <2> DEFINE s == h.left
  <2>1. /\ Push(i, Head(s), f)
        /\ hand' = [hand EXCEPT ![i] =
                      IF Tail(s) = <<>> THEN None ELSE [h EXCEPT !.left = Tail(s)]]
    BY <1>4 DEF PushNext
  <2>2. f \in Frames /\ f.type = "message" /\ f.id = id
    BY <1>0, PushedFrames DEF InHand
  <2>3. PICK j \in 1 .. Len(s) : s[j] = u
    BY DEF InHand
  <2>4. /\ Head(s) = s[1] /\ Len(s) \in Nat
        /\ \A m \in 1 .. Len(s) - 1 : m \in 1 .. Len(Tail(s)) /\ Tail(s)[m] = s[m + 1]
    BY <1>0
  <2>5. CASE j = 1
    <3>1. c \in Local(i, Head(s))
      BY <2>3, <2>4, <2>5 DEF Local
    <3>2. PICK g \in Frames : g = f /\ g.type = "message" /\ g.id = id
      BY <2>2
    <3>3. HasFrame(c, g.type, g.id)'
      BY <1>0, <2>1, <3>1, <3>2, PushAdds
    <3>4. QED BY <3>2, <3>3
  <2>6. CASE j # 1
    <3>1. j - 1 \in 1 .. Len(s) - 1 /\ (j - 1) + 1 = j
      BY <2>4, <2>6
    <3>2. j - 1 \in 1 .. Len(Tail(s)) /\ Tail(s)[j - 1] = u
      BY <2>3, <2>4, <3>1
    <3>3. Tail(s) # <<>>
      BY <3>2
    <3>4. hand'[i] = [h EXCEPT !.left = Tail(s)]
      BY <1>0, <2>1, <3>3
    <3>5. hand'[i].left = Tail(s) /\ hand'[i].type = "message" /\ hand'[i].id = id
      BY <1>0, <3>4 DEF Hands, InHand
    <3>6. hand'[i] # None
      <4>1. Tail(s) \in Seq(Users)
        BY <1>0
      <4>2. [h EXCEPT !.left = Tail(s)] \in Hands
        BY <1>0, <4>1 DEF Hands
      <4>3. QED BY <3>4, <4>2, NoneAssumption
    <3>7. QED BY <3>2, <3>5, <3>6 DEF InHand
  <2>7. QED BY <2>5, <2>6
<1>5. QED BY <1>1, <1>2, <1>3, <1>4, StepCases

\* A message due to a connection stays served.
LEMMA ServedStays ==
  ASSUME DInv, SInv, RestOK, CInv, [Next]_vars, faults = {}, faults' = {},
         NEW c \in Conns, NEW id \in Ids, Due(c, id), Served(c, id)
  PROVE  Served(c, id)'
<1>0. /\ InstanceOf[c] \in Instances /\ cpc[c] # "added" /\ Registered(c)
      /\ UserOf[c] = row[id].to
  BY MessagingAssumption DEF Due, Registered
<1>1. PICK i \in Instances : i = InstanceOf[c]
  BY <1>0
<1>2. PICK u : u = UserOf[c]
  OBVIOUS
<1>3. CASE id \in todo[c]
  BY <1>0, <1>3, TodoStep DEF Served
<1>4. CASE HasFrame(c, "message", id)
  BY <1>4, FramesStay DEF Served
<1>5. CASE InRequest(id)
  <2>1. InRequest(id)' \/ InQueue(i, id)'
    BY <1>5, RequestWay
  <2>2. QED BY <1>1, <2>1 DEF Served, OnItsWay, InRequest, InQueue
<1>6. CASE InQueue(i, id)
  <2>1. InQueue(i, id)' \/ InHand(i, u, id)'
    BY <1>0, <1>2, <1>6, QueueWay
  <2>2. QED BY <1>1, <1>2, <2>1 DEF Served, OnItsWay, InHand, InQueue
<1>7. CASE InHand(i, u, id)
  <2>1. InHand(i, u, id)' \/ HasFrame(c, "message", id)'
    BY <1>0, <1>1, <1>2, <1>7, HandWay
  <2>2. QED BY <1>1, <1>2, <2>1 DEF Served, OnItsWay, InHand
<1>8. QED BY <1>1, <1>2, <1>3, <1>4, <1>5, <1>6, <1>7, OnItsWayIs DEF Served

\* A message becomes due when it is stored, or when the handler reads what was
\* missed; either way it is served.
LEMMA DueStep ==
  ASSUME DInv, SInv, RestOK, [Next]_vars, faults = {}, faults' = {},
         NEW c \in Conns, NEW id \in Ids, Due(c, id)', ~Due(c, id)
  PROVE  Served(c, id)'
<1>1. ASSUME NEW r \in Reqs, NEW s \in Users, NEW t \in Users, NEW k \in ClientIds,
             Send(r, s, t, k)
      PROVE  Served(c, id)'
  <2>1. /\ UNCHANGED <<deleted, cpc, since>>
        /\ row' = IF Existing(s, k) = {}
                  THEN [row EXCEPT ![nextId] = [from |-> s, to |-> t, cmid |-> k]] ELSE row
    BY <1>1 DEF Send, conns
  <2>2. Existing(s, k) = {} /\ id = nextId
    BY <2>1 DEF Due, Inserted, SInv
  <2>3. req' = [req EXCEPT ![r] = [st |-> "publish", op |-> "send", ids |-> {nextId},
                                   user |-> s, cmid |-> k, at |-> None]]
    BY <1>1, <2>2, NoFault DEF Send
  <2>4. req'[r].st = "publish" /\ req'[r].op = "send" /\ id \in req'[r].ids
    BY <2>2, <2>3 DEF SInv
  <2>5. QED BY <2>4 DEF Served, OnItsWay
<1>2. ASSUME NEW d \in Conns, GetUnread(d) PROVE Served(c, id)'
  <2>1. /\ cpc' = [cpc EXCEPT ![d] = "replay"]
        /\ todo' = [todo EXCEPT ![d] = Missed(d)]
        /\ UNCHANGED <<row, deleted, since>>
    BY <1>2, NoFault DEF GetUnread, table
  <2>2. d = c
    BY <2>1 DEF Due, Inserted, RestOK
  <2>3. id \in Missed(c)
    BY <2>1 DEF Due, Inserted, Missed
  <2>4. QED BY <2>1, <2>2, <2>3 DEF Served, DInv, PType
<1>3. ASSUME UNCHANGED row, deleted \subseteq deleted',
             cpc'[c] \in {"replay", "live"} =>
                cpc[c] \in {"replay", "live"} /\ since'[c] = since[c]
      PROVE  FALSE
  BY <1>3 DEF Due, Inserted
<1>4. ASSUME NEW d \in Conns,
             ReplayDone(d) \/ Disconnect(d) \/ \E n \in SinceIds : Register(d, n)
      PROVE  FALSE
  <2>1. UNCHANGED <<row, deleted>>
    BY <1>4 DEF ReplayDone, Disconnect, Register, table
  <2>2. cpc'[c] \in {"replay", "live"} =>
          cpc[c] \in {"replay", "live"} /\ since'[c] = since[c]
    BY <1>4 DEF ReplayDone, Disconnect, Register, RestOK
  <2>3. QED BY <1>3, <2>1, <2>2
<1>5. ASSUME NEW r \in Reqs, NEW u \in Users, NEW x \in Ids, Delete(r, u, x) PROVE FALSE
  BY <1>3, <1>5 DEF Delete, conns
<1>6. CASE UNCHANGED <<row, deleted, cpc, since>>
  BY <1>3, <1>6
<1>7. \/ UNCHANGED <<row, deleted, cpc, since>>
      \/ \E r \in Reqs, s, t \in Users, k \in ClientIds : Send(r, s, t, k)
      \/ \E r \in Reqs, u \in Users, x \in Ids : Delete(r, u, x)
      \/ \E d \in Conns : \/ GetUnread(d) \/ ReplayDone(d) \/ Disconnect(d)
                          \/ \E n \in SinceIds : Register(d, n)
  BY Zenon DEF Next, vars, table, conns, RequestStep, SubscriberStep, HandlerStep, MarkRead,
     Publish, SendReceipt, Receive, PushNext, SubscriptionLost, Resubscribe, Replay
<1>8. QED BY <1>1, <1>2, <1>4, <1>5, <1>6, <1>7

\* Every step preserves CInv.
LEMMA CNext == DInv /\ SInv /\ RestOK /\ CInv /\ [Next]_vars => CInv'
<1> SUFFICES ASSUME DInv, SInv, RestOK, CInv, [Next]_vars PROVE CInv'
  OBVIOUS
<1>1. ASSUME faults' = {} PROVE faults = {}
  <2>1. faults' = faults \/ \E k : faults' = faults \cup {k}
    BY Zenon DEF Next, vars, RequestStep, SubscriberStep, HandlerStep, Send, Delete, MarkRead,
       Publish, SendReceipt, Receive, PushNext, SubscriptionLost, Resubscribe, GetUnread, Replay,
       ReplayDone, Disconnect, Register, Works, Fails
  <2>2. QED BY <1>1, <2>1
<1>2. ASSUME faults' = {}, NEW i \in Instances PROVE up'[i]
  <2>1. up[i]
    BY <1>1, <1>2 DEF CInv
  <2>2. CASE UNCHANGED up BY <2>1, <2>2
  <2>3. ASSUME NEW k \in Instances, SubscriptionLost(k) PROVE FALSE
    BY <1>2, <2>3, NoFault DEF SubscriptionLost
  <2>4. ASSUME NEW k \in Instances, Resubscribe(k) PROVE up'[i]
    BY <1>1, <1>2, <2>4 DEF Resubscribe, CInv
  <2>5. UNCHANGED up \/ \E k \in Instances : SubscriptionLost(k) \/ Resubscribe(k)
    BY Zenon DEF Next, vars, subs, RequestStep, SubscriberStep, HandlerStep, Send, Delete,
       MarkRead, Publish, SendReceipt, Receive, PushNext, GetUnread, Replay, ReplayDone,
       Disconnect, Register
  <2>6. QED BY <2>2, <2>3, <2>4, <2>5
<1>3. ASSUME NEW c \in Conns, cpc'[c] = "live" PROVE todo'[c] = {}
  <2>0. cpc \in [Conns -> {"off", "added", "replay", "live", "closed"}]
        /\ todo \in [Conns -> SUBSET Ids] /\ (cpc[c] = "live" => todo[c] = {})
    BY DEF RestOK, DInv, PType, CInv
  <2>1. ASSUME NEW d \in Conns, HandlerStep(d) PROVE todo'[c] = {}
    <3>1. CASE d = c
      BY <1>3, <2>0, <2>1, <3>1 DEF HandlerStep, GetUnread, Replay, ReplayDone
    <3>2. CASE d # c
      BY <1>3, <2>0, <2>1, <3>2 DEF HandlerStep, GetUnread, Replay, ReplayDone
    <3>3. QED BY <3>1, <3>2
  <2>2. ASSUME NEW d \in Conns, Disconnect(d) \/ \E n \in SinceIds : Register(d, n)
        PROVE  todo'[c] = {}
    BY <1>3, <2>0, <2>2 DEF Disconnect, Register
  <2>3. CASE UNCHANGED <<cpc, todo>>
    BY <1>3, <2>0, <2>3
  <2>4. \/ UNCHANGED <<cpc, todo>>
        \/ \E d \in Conns : HandlerStep(d) \/ Disconnect(d) \/ \E n \in SinceIds : Register(d, n)
    BY Zenon DEF Next, vars, conns, RequestStep, SubscriberStep, Send, Delete, MarkRead, Publish,
       SendReceipt, Receive, PushNext, SubscriptionLost, Resubscribe
  <2>5. QED BY <2>1, <2>2, <2>3, <2>4
<1>4. ASSUME faults' = {}, NEW c \in Conns, NEW id \in Ids, Due(c, id)' PROVE Served(c, id)'
  <2>1. CASE Due(c, id)
    <3>1. Served(c, id)
      BY <1>1, <1>4, <2>1 DEF CInv
    <3>2. QED BY <1>1, <1>4, <2>1, <3>1, ServedStays
  <2>2. CASE ~Due(c, id)
    BY <1>1, <1>4, <2>2, DueStep
  <2>3. QED BY <2>1, <2>2
<1>5. QED BY <1>2, <1>3, <1>4 DEF CInv

\* Between registration, the read of what was missed and the live pushes no
\* message is lost: WebSocketHandler calls addClient before GetUnreadForUser, for
\* any number of connections, instances and requests in flight.
THEOREM CatchUpComplete == Spec => []CatchUpMissesNothing
<1>1. Init => DInv /\ SInv /\ RestOK /\ CInv
  <2> SUFFICES ASSUME Init PROVE DInv /\ SInv /\ RestOK /\ CInv
    OBVIOUS
  <2>1. SInv
    BY DEF Init, SInv, KeysHold, SendsAnswerTheirRow, NewReq, Reqstates
  <2>2. RestOK
    BY DEF Init, RestOK
  <2>3. CInv
    BY DEF Init, CInv, Due
  <2>4. QED BY <2>1, <2>2, <2>3, DInit
<1>2. CInv => CatchUpMissesNothing
  <2> SUFFICES ASSUME CInv, NEW c \in Conns, NEW id \in Inserted \ deleted, cpc[c] = "live",
                      faults = {}, row[id].to = UserOf[c], id > since[c]
               PROVE  HasFrame(c, "message", id) \/ OnItsWay(InstanceOf[c], UserOf[c], id)
    BY DEF CatchUpMissesNothing
  <2>1. id \in Ids /\ Due(c, id) /\ todo[c] = {}
    BY DEF CInv, Due, Inserted
  <2>2. QED BY <2>1 DEF CInv, Served
<1>3. QED
  BY <1>1, <1>2, DNext, SNext, RestNext, CNext, PTL DEF Spec
=============================================================================
