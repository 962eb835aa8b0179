------------------------------- MODULE WsHub -------------------------------
(***************************************************************************)
(* One API server instance's WebSocket hub (internal/http/ws.go): the       *)
(* registry of local clients, the bounded send queue of each client, and    *)
(* the goroutines that share them.  Per connection there is the request     *)
(* handler (WebSocketHandler), the readPump and the writePump; one Redis    *)
(* subscriber goroutine pushes events; one goroutine runs CloseAll or       *)
(* DisconnectUser.  The mutex of the Hub makes each registry operation one   *)
(* step; everything after an unlock is a step of its own, and so is each    *)
(* step of closeWith (closed.Swap, close(send), conn.Close).                *)
(*                                                                         *)
(* Frames are abstracted to numbers: the subscriber's n-th event for a user *)
(* is n; snapshot, replay and typing frames are all Other (= 0).            *)
(* The token bucket inside a limiter is abstracted to a free answer of      *)
(* Allow(): only WHICH limiter a readPump holds is kept.                    *)
(***************************************************************************)
EXTENDS Integers, Sequences, FiniteSets

CONSTANTS
    Conns,          \* *wsClient values; each is one WebSocket connection
    Users,
    UserOf,         \* wsClient.userID
    NoConn,         \* model value: no connection
    sendQueueSize,  \* capacity of wsClient.send
    SnapshotLen,    \* presence events GetSnapshot returns
    ReplayLen,      \* messages GetUnreadForUser returns
    MaxEvents       \* bound: events the subscriber pushes per user

ASSUME ConstantsAssumption ==
    /\ UserOf \in [Conns -> Users]
    /\ NoConn \notin Conns
    /\ sendQueueSize \in Nat \ {0}
    /\ SnapshotLen \in Nat /\ ReplayLen \in Nat /\ MaxEvents \in Nat

VARIABLES
    clients,      \* Hub.clientsByUser
    limiters,     \* Hub.limitersByUser: 0 when absent, else the limiter's identity
    limiterSeq,   \* limiters created so far (identities are never reused)
    stage,        \* progress of closeWith: "open", "swapped", "sendclosed", "closed"
    closer,       \* goroutine that won closed.Swap and has not returned yet
    chan,         \* wsClient.send
    wire,         \* event frames written to the socket
    ctxDone,      \* wsCtx cancelled
    hpc, rpc, wpc,\* handler, readPump and writePump of each connection
    held,         \* limiter a readPump obtained from limiterFor
    emitted,      \* frames the handler has handed to the hub before the pumps start
    pending,      \* per sender: targets copied under the lock, not yet served
    loaded,       \* per sender: target that passed the closed.Load() check
    frame,        \* per sender: frame being enqueued
    toClose,      \* targets CloseAll / DisconnectUser copied under the lock
    sentTo,       \* events pushed per user
    since,        \* value of sentTo when the connection was registered
    crashed       \* a goroutine outside net/http panicked: the process is gone

hubVars   == <<clients, limiters, limiterSeq, held>>
connVars  == <<chan, wire>>
closeVars == <<stage, closer>>
pcVars    == <<hpc, rpc, wpc>>
sendVars  == <<pending, loaded, frame>>
eventVars == <<sentTo, since, emitted>>
ctlVars   == <<ctxDone, toClose, crashed>>
vars == <<hubVars, connVars, closeVars, pcVars, sendVars, eventVars, ctlVars>>

Other == 0
IsEvent(f) == f # Other

\* Goroutines that enqueue frames or close clients.
Sub  == <<"subscriber", NoConn>>
Kill == <<"closer", NoConn>>
H(c) == <<"handler", c>>
R(c) == <<"reader", c>>
W(c) == <<"writer", c>>
NoProc  == <<"none", NoConn>>
Senders == {Sub} \cup {H(c) : c \in Conns} \cup {R(c) : c \in Conns}
Procs   == Senders \cup {W(c) : c \in Conns} \cup {Kill}

Init ==
    /\ clients = [u \in Users |-> {}] /\ limiters = [u \in Users |-> 0] /\ limiterSeq = 0
    /\ stage = [c \in Conns |-> "open"] /\ closer = [c \in Conns |-> NoProc]
    /\ chan = [c \in Conns |-> <<>>] /\ wire = [c \in Conns |-> <<>>] /\ ctxDone = [c \in Conns |-> FALSE]
    /\ hpc = [c \in Conns |-> "none"] /\ rpc = [c \in Conns |-> "none"] /\ wpc = [c \in Conns |-> "none"]
    /\ held = [c \in Conns |-> 0] /\ emitted = [c \in Conns |-> 0]
    /\ pending = [p \in Senders |-> {}] /\ loaded = [p \in Senders |-> NoConn]
    /\ frame = [p \in Senders |-> Other] /\ toClose = {} /\ sentTo = [u \in Users |-> 0]
    /\ since = [c \in Conns |-> 0] /\ crashed = FALSE

-----------------------------------------------------------------------------
(* wsClient.closeWith *)

Closed(c)     == stage[c] # "open"
SendClosed(c) == stage[c] \in {"sendclosed", "closed"}
SocketOpen(c) == stage[c] # "closed"

\* closed.Swap(true): the first caller goes on to close, the others return.
CloseWith(p, c) ==
    IF Closed(c)
    THEN UNCHANGED closeVars
    ELSE /\ stage' = [stage EXCEPT ![c] = "swapped"]
         /\ closer' = [closer EXCEPT ![c] = p]

\* close(c.send)
CloseSend(c) ==
    /\ ~crashed /\ stage[c] = "swapped"
    /\ stage' = [stage EXCEPT ![c] = "sendclosed"]
    /\ UNCHANGED <<closer, hubVars, connVars, pcVars, sendVars, eventVars, ctlVars>>

\* WriteControl(CloseMessage) and conn.Close(); closeWith returns to its caller.
CloseConn(c) ==
    /\ ~crashed /\ stage[c] = "sendclosed"
    /\ stage' = [stage EXCEPT ![c] = "closed"]
    /\ closer' = [closer EXCEPT ![c] = NoProc]
    /\ UNCHANGED <<hubVars, connVars, pcVars, sendVars, eventVars, ctlVars>>

\* p is inside closeWith.
Closing(p) == \E c \in Conns : closer[c] = p

-----------------------------------------------------------------------------
(* Hub.sendToUser and enqueueDropSlow, run by any of the Senders *)

SenderIdle(p) ==
    /\ pending[p] = {}
    /\ loaded[p] = NoConn
    /\ ~Closing(p)

\* The copy of the targets under RLock.
CopyTargets(p, targets, f) ==
    /\ pending' = [pending EXCEPT ![p] = targets]
    /\ frame' = [frame EXCEPT ![p] = f]
    /\ UNCHANGED loaded

\* The closed.Load() check at the head of enqueueDropSlow.
EnqueueCheck(p, c) ==
    /\ ~crashed /\ ~Closing(p)
    /\ loaded[p] = NoConn
    /\ c \in pending[p]
    /\ pending' = [pending EXCEPT ![p] = @ \ {c}]
    /\ loaded' = [loaded EXCEPT ![p] = IF Closed(c) THEN NoConn ELSE c]
    /\ UNCHANGED <<frame, hubVars, connVars, closeVars, pcVars, eventVars, ctlVars>>

\* Sending on a channel that was closed after the check panics.  net/http
\* recovers a handler's panic (the handler is gone, the client stays in the
\* hub); in any other goroutine the panic ends the process.
SendPanics(p) ==
    IF p[1] = "handler"
    THEN /\ hpc' = [hpc EXCEPT ![p[2]] = "panicked"]
         /\ pending' = [pending EXCEPT ![p] = {}]
         /\ UNCHANGED crashed
    ELSE /\ crashed' = TRUE
         /\ UNCHANGED <<hpc, pending>>

\* The channel has room for one more frame.
MutantRoomForOneTooMany(c) == Len(chan[c]) <= sendQueueSize
HasRoom(c) == Len(chan[c]) < sendQueueSize

\* The default branch: a full queue disconnects the client.
MutantDropFrame(p, c) == UNCHANGED closeVars
DropSlow(p, c) == CloseWith(p, c)

\* select { case c.send <- msg: default: closeWith("slow consumer") }
EnqueueSend(p) ==
    LET c == loaded[p] IN
    /\ ~crashed /\ c # NoConn
    /\ loaded' = [loaded EXCEPT ![p] = NoConn]
    /\ \/ /\ SendClosed(c)
          /\ SendPanics(p)
          /\ UNCHANGED <<chan, closeVars>>
       \/ /\ ~SendClosed(c)
          /\ HasRoom(c)
          /\ chan' = [chan EXCEPT ![c] = Append(@, frame[p])]
          /\ UNCHANGED <<closeVars, hpc, pending, crashed>>
       \/ /\ ~SendClosed(c)
          /\ ~HasRoom(c)
          /\ DropSlow(p, c)
          /\ UNCHANGED <<chan, hpc, pending, crashed>>
    /\ UNCHANGED <<frame, hubVars, wire, rpc, wpc, eventVars, ctxDone, toClose>>

\* A Redis event for user u reaches the subscriber goroutine.
SubscriberEvent(u) ==
    /\ ~crashed /\ SenderIdle(Sub)
    /\ sentTo[u] < MaxEvents
    /\ sentTo' = [sentTo EXCEPT ![u] = @ + 1]
    /\ CopyTargets(Sub, clients[u], sentTo[u] + 1)
    /\ UNCHANGED <<hubVars, connVars, closeVars, pcVars, since, emitted, ctlVars>>

-----------------------------------------------------------------------------
(* CloseAll (shutdown) and DisconnectUser (account deletion) *)

CloserCopies(targets) ==
    /\ ~crashed /\ toClose = {}
    /\ ~Closing(Kill)
    /\ targets # {}
    /\ toClose' = targets
    /\ UNCHANGED <<hubVars, connVars, closeVars, pcVars, sendVars, eventVars,
                   ctxDone, crashed>>

CloseAll          == CloserCopies(UNION {clients[u] : u \in Users})
DisconnectUser(u) == CloserCopies(clients[u])

CloseTarget(c) ==
    /\ ~crashed /\ c \in toClose
    /\ ~Closing(Kill)
    /\ toClose' = toClose \ {c}
    /\ CloseWith(Kill, c)
    /\ UNCHANGED <<hubVars, connVars, pcVars, sendVars, eventVars, ctxDone, crashed>>

-----------------------------------------------------------------------------
(* WebSocketHandler *)

\* Upgrade succeeded; hub.addClient(c).
AddClient(c) ==
    /\ ~crashed /\ hpc[c] = "none"
    /\ hpc' = [hpc EXCEPT ![c] = "added"]
    /\ clients' = [clients EXCEPT ![UserOf[c]] = @ \cup {c}]
    /\ since' = [since EXCEPT ![c] = sentTo[UserOf[c]]]
    /\ UNCHANGED <<limiters, limiterSeq, held, connVars, closeVars, rpc, wpc, sendVars,
                   sentTo, emitted, ctlVars>>

\* One frame of the presence snapshot (own connection only) or, once the
\* snapshot is out (or GetSnapshot failed), of the replay (every connection of
\* the user).
HandlerEmit(c) ==
    /\ ~crashed /\ hpc[c] = "added"
    /\ SenderIdle(H(c))
    /\ \E n \in {emitted[c]} \cup (IF emitted[c] = 0 THEN {SnapshotLen} ELSE {}) :
          /\ n < SnapshotLen + ReplayLen
          /\ emitted' = [emitted EXCEPT ![c] = n + 1]
          /\ CopyTargets(H(c), IF n < SnapshotLen THEN {c} ELSE clients[UserOf[c]], Other)
    /\ UNCHANGED <<hubVars, connVars, closeVars, pcVars, sentTo, since, ctlVars>>

\* go writePump; go readPump.  GetSnapshot or GetUnreadForUser may have failed,
\* in which case its loop is skipped.
StartPumps(c) ==
    /\ ~crashed /\ hpc[c] = "added"
    /\ SenderIdle(H(c))
    /\ emitted[c] \in {0, SnapshotLen, SnapshotLen + ReplayLen}
    /\ hpc' = [hpc EXCEPT ![c] = "waiting"]
    /\ rpc' = [rpc EXCEPT ![c] = "start"]
    /\ wpc' = [wpc EXCEPT ![c] = "run"]
    /\ UNCHANGED <<hubVars, connVars, closeVars, sendVars, eventVars, ctlVars>>

\* <-wsCtx.Done()
HandlerReturns(c) ==
    /\ ~crashed /\ hpc[c] = "waiting"
    /\ ctxDone[c]
    /\ hpc' = [hpc EXCEPT ![c] = "done"]
    /\ UNCHANGED <<hubVars, connVars, closeVars, rpc, wpc, sendVars, eventVars, ctlVars>>

-----------------------------------------------------------------------------
(* writePump *)

WriterGoes(c, pc) == wpc' = [wpc EXCEPT ![c] = pc]

\* WriteMessage of the frame at the head of the queue; it fails when the socket
\* is closed and may fail whenever the peer is gone.
WriteHead(c, onward) ==
    /\ chan[c] # <<>>
    /\ chan' = [chan EXCEPT ![c] = Tail(@)]
    /\ \/ /\ SocketOpen(c)
          /\ wire' = IF IsEvent(Head(chan[c]))
                     THEN [wire EXCEPT ![c] = Append(@, Head(chan[c]))] ELSE wire
          /\ \E pc \in onward : WriterGoes(c, pc)
       \/ /\ UNCHANGED wire
          /\ WriterGoes(c, "exit")

\* case msg, ok := <-c.send (the ping that follows the frame may fail too)
WriterSends(c) ==
    /\ ~crashed /\ wpc[c] = "run"
    /\ \/ WriteHead(c, {"run", "exit"})
       \/ /\ chan[c] = <<>> /\ SendClosed(c)
          /\ WriterGoes(c, "exit")
          /\ UNCHANGED connVars
    /\ UNCHANGED <<hubVars, closeVars, hpc, rpc, sendVars, eventVars, ctlVars>>

\* case <-ticker.C with a failing ping; a successful one changes nothing here.
WriterPingFails(c) ==
    /\ ~crashed /\ wpc[c] = "run"
    /\ WriterGoes(c, "exit")
    /\ UNCHANGED <<hubVars, connVars, closeVars, hpc, rpc, sendVars, eventVars, ctlVars>>

\* case <-ctx.Done(): flush what is buffered, then exit
WriterFlush(c) ==
    /\ ~crashed /\ wpc[c] \in {"run", "flush"}
    /\ ctxDone[c]
    /\ \/ WriteHead(c, {"flush"})
       \/ /\ chan[c] = <<>>
          /\ WriterGoes(c, "exit")
          /\ UNCHANGED connVars
    /\ UNCHANGED <<hubVars, closeVars, hpc, rpc, sendVars, eventVars, ctlVars>>

\* deferred cancel()
WriterCancel(c) ==
    /\ ~crashed /\ wpc[c] = "exit"
    /\ ctxDone' = [ctxDone EXCEPT ![c] = TRUE]
    /\ WriterGoes(c, "close")
    /\ UNCHANGED <<hubVars, connVars, closeVars, hpc, rpc, sendVars, eventVars,
                   toClose, crashed>>

MutantWriterLeavesSocketOpen(c) ==
    /\ ~crashed /\ wpc[c] = "close"
    /\ WriterGoes(c, "done")
    /\ UNCHANGED <<closeVars, hubVars, connVars, hpc, rpc, sendVars, eventVars, ctlVars>>

\* deferred c.close()
WriterClose(c) ==
    /\ ~crashed /\ wpc[c] = "close"
    /\ CloseWith(W(c), c)
    /\ WriterGoes(c, "done")
    /\ UNCHANGED <<hubVars, connVars, hpc, rpc, sendVars, eventVars, ctlVars>>

-----------------------------------------------------------------------------
(* readPump *)

ReaderGoes(c, pc) == rpc' = [rpc EXCEPT ![c] = pc]

\* limiter := hub.limiterFor(c.userID)
LimiterFor(c) ==
    LET u == UserOf[c]
        isNew == limiters[u] = 0
    IN
    /\ ~crashed /\ rpc[c] = "start"
    /\ ReaderGoes(c, "loop")
    /\ limiterSeq' = IF isNew THEN limiterSeq + 1 ELSE limiterSeq
    /\ limiters' = IF isNew THEN [limiters EXCEPT ![u] = limiterSeq + 1] ELSE limiters
    /\ held' = [held EXCEPT ![c] = IF isNew THEN limiterSeq + 1 ELSE limiters[u]]
    /\ UNCHANGED <<clients, connVars, closeVars, hpc, wpc, sendVars, eventVars, ctlVars>>

\* The head of the loop: ctx.Done() is looked at first, then limiter.Allow().
ReaderLoop(c) ==
    /\ ~crashed /\ rpc[c] = "loop"
    /\ SenderIdle(R(c))
    /\ \/ /\ ctxDone[c]
          /\ ReaderGoes(c, "remove")
          /\ UNCHANGED closeVars
       \/ /\ ~ctxDone[c]
          /\ ReaderGoes(c, "read")
          /\ UNCHANGED closeVars
       \/ /\ ~ctxDone[c]
          /\ CloseWith(R(c), c)
          /\ ReaderGoes(c, "remove")
    /\ UNCHANGED <<hubVars, connVars, hpc, wpc, sendVars, eventVars, ctlVars>>

\* ReadMessage fails because this side closed the socket ...
ReadFailsClosed(c) ==
    /\ ~crashed /\ rpc[c] = "read"
    /\ ~SocketOpen(c)
    /\ ReaderGoes(c, "remove")
    /\ UNCHANGED <<hubVars, connVars, closeVars, hpc, wpc, sendVars, eventVars, ctlVars>>

\* ... or because the peer closed it, broke, or let pongWait pass.
ReadFailsPeer(c) ==
    /\ ~crashed /\ rpc[c] = "read"
    /\ SocketOpen(c)
    /\ ReaderGoes(c, "remove")
    /\ UNCHANGED <<hubVars, connVars, closeVars, hpc, wpc, sendVars, eventVars, ctlVars>>

\* A frame arrives: either dropped (not text, bad JSON, unknown type, unknown
\* recipient, not a contact), or a typing frame forwarded to user u.
ReadFrame(c) ==
    /\ ~crashed /\ rpc[c] = "read"
    /\ SocketOpen(c)
    /\ ReaderGoes(c, "loop")
    /\ \/ UNCHANGED sendVars
       \/ \E u \in Users \ {UserOf[c]} : CopyTargets(R(c), clients[u], Other)
    /\ UNCHANGED <<hubVars, connVars, closeVars, hpc, wpc, eventVars, ctlVars>>

\* What removeClient leaves in limitersByUser[u] when `rest` are still connected.
LimiterAfterRemove(u, rest) == IF rest = {} THEN 0 ELSE limiters[u]

\* deferred: hub.removeClient(c); the limiter goes with the user's last client
RemoveClient(c) ==
    LET u == UserOf[c]
        rest == clients[u] \ {c}
    IN
    /\ ~crashed /\ rpc[c] = "remove"
    /\ ~Closing(R(c))
    /\ clients' = [clients EXCEPT ![u] = rest]
    /\ limiters' = [limiters EXCEPT ![u] = LimiterAfterRemove(u, rest)]
    /\ ReaderGoes(c, "cancel")
    /\ UNCHANGED <<limiterSeq, held, connVars, closeVars, hpc, wpc, sendVars, eventVars, ctlVars>>

\* presenceStore.Disconnect (see module Presence), then cancel()
ReaderCancel(c) ==
    /\ ~crashed /\ rpc[c] = "cancel"
    /\ ctxDone' = [ctxDone EXCEPT ![c] = TRUE]
    /\ ReaderGoes(c, "close")
    /\ UNCHANGED <<hubVars, connVars, closeVars, hpc, wpc, sendVars, eventVars,
                   toClose, crashed>>

\* c.close()
ReaderClose(c) ==
    /\ ~crashed /\ rpc[c] = "close"
    /\ CloseWith(R(c), c)
    /\ ReaderGoes(c, "done")
    /\ UNCHANGED <<hubVars, connVars, hpc, wpc, sendVars, eventVars, ctlVars>>

-----------------------------------------------------------------------------
Enqueue(p)    == EnqueueSend(p) \/ \E c \in Conns : EnqueueCheck(p, c)
CloseSteps(c) == CloseSend(c) \/ CloseConn(c)
Handler(c)    == HandlerEmit(c) \/ StartPumps(c) \/ HandlerReturns(c)
Writer(c)     == WriterSends(c) \/ WriterFlush(c) \/ WriterCancel(c) \/ WriterClose(c)
Reader(c)     == LimiterFor(c) \/ ReaderLoop(c) \/ ReadFailsClosed(c)
                   \/ RemoveClient(c) \/ ReaderCancel(c) \/ ReaderClose(c)

Next ==
    \/ \E p \in Senders : Enqueue(p)
    \/ \E u \in Users : SubscriberEvent(u) \/ DisconnectUser(u)
    \/ CloseAll
    \/ \E c \in Conns :
          \/ CloseSteps(c) \/ CloseTarget(c)
          \/ AddClient(c) \/ Handler(c)
          \/ Writer(c) \/ WriterPingFails(c)
          \/ Reader(c) \/ ReadFailsPeer(c) \/ ReadFrame(c)

\* Every goroutine that can run is eventually run; nothing is assumed of the
\* peers, of Redis or of the operator.
Fairness ==
    /\ \A p \in Senders : WF_vars(Enqueue(p))
    /\ \A c \in Conns : /\ WF_vars(CloseSteps(c)) /\ WF_vars(CloseTarget(c))
                        /\ WF_vars(Handler(c)) /\ WF_vars(Writer(c)) /\ WF_vars(Reader(c))

Spec     == Init /\ [][Next]_vars
FairSpec == Spec /\ Fairness

-----------------------------------------------------------------------------
(* Properties *)

Stages     == {"open", "swapped", "sendclosed", "closed"}
HandlerPcs == {"none", "added", "waiting", "done", "panicked"}
ReaderPcs  == {"none", "start", "loop", "read", "remove", "cancel", "close", "done"}
WriterPcs  == {"none", "run", "flush", "exit", "close", "done"}

\* Type correctness of the hub's state; in particular no send queue ever holds
\* more than sendQueueSize frames (make(chan []byte, sendQueueSize)).
TypeOK ==
    /\ clients \in [Users -> SUBSET Conns] /\ limiters \in [Users -> Nat] /\ limiterSeq \in Nat
    /\ stage \in [Conns -> Stages] /\ closer \in [Conns -> Procs \cup {NoProc}]
    /\ chan \in [Conns -> Seq(Nat)]
    /\ \A c \in Conns : Len(chan[c]) <= sendQueueSize
    /\ wire \in [Conns -> Seq(Nat)] /\ ctxDone \in [Conns -> BOOLEAN]
    /\ hpc \in [Conns -> HandlerPcs] /\ rpc \in [Conns -> ReaderPcs] /\ wpc \in [Conns -> WriterPcs]
    /\ held \in [Conns -> Nat] /\ emitted \in [Conns -> Nat]
    /\ pending \in [Senders -> SUBSET Conns] /\ loaded \in [Senders -> Conns \cup {NoConn}]
    /\ frame \in [Senders -> Nat] /\ toClose \in SUBSET Conns /\ sentTo \in [Users -> Nat]
    /\ since \in [Conns -> Nat] /\ crashed \in BOOLEAN

\* All readPumps of a user that are past limiterFor and not yet removed use one
\* limiter, the one the hub has for the user: "shared per user, not per
\* connection" (Hub.limitersByUser), whatever connections come and go.
SharedLimiter ==
    \A c \in Conns : rpc[c] \in {"loop", "read", "remove"} =>
        /\ held[c] # 0
        /\ held[c] = limiters[UserOf[c]]

\* What a peer receives of its user's events is a gap-free run of them in order,
\* starting with the first one pushed after addClient: slow clients are
\* disconnected (enqueueDropSlow), never served a stream with a hole.
WireHasNoGap ==
    \A c \in Conns : \A i \in 1 .. Len(wire[c]) : wire[c][i] = since[c] + i

\* The positions of a queue that hold events, and the last event on c's wire.
EventSlots(q) == {i \in 1 .. Len(q) : IsEvent(q[i])}
Written(c)    == since[c] + Len(wire[c])

\* An open, registered client misses nothing: once sendToUser is past it, every
\* event pushed since addClient is on the wire or, in order and once, in its queue.
OpenClientIsComplete ==
    \A c \in Conns :
        (/\ c \in clients[UserOf[c]] /\ stage[c] = "open" /\ wpc[c] \in {"none", "run"}
         /\ c \notin pending[Sub] /\ loaded[Sub] # c)
        => LET slots == EventSlots(chan[c])
           IN  /\ {chan[c][i] : i \in slots} = Written(c) + 1 .. sentTo[UserOf[c]]
               /\ Written(c) <= sentTo[UserOf[c]]
               /\ \A i, j \in slots : i < j => chan[c][i] < chan[c][j]

\* The code's intent in enqueueDropSlow (closed.Load() before the send, closeWith's
\* "avoid panic"): no goroutine sends on a closed channel.
NoSendOnClosedChannel == ~crashed /\ \A c \in Conns : hpc[c] # "panicked"

Gone(c) ==
    /\ \A u \in Users : c \notin clients[u]
    /\ hpc[c] = "done" /\ rpc[c] = "done" /\ wpc[c] = "done"
    /\ stage[c] = "closed"

\* Whoever closes a client or cancels its context first, in the end it has left
\* the hub, its socket is closed and its three goroutines have returned (unless
\* its handler or the process panicked).
ClosedClientGoes ==
    \A c \in Conns :
        (hpc[c] # "none" /\ (Closed(c) \/ ctxDone[c]))
            ~> (Gone(c) \/ hpc[c] = "panicked" \/ crashed)
=============================================================================
