---------------------------- MODULE WsHubProofs ----------------------------
(***************************************************************************)
(* Proofs about WsHub for any set of connections and users, any queue size  *)
(* and any number of events.                                                *)
(*                                                                         *)
(* SharedLimiter is not inductive by itself: that removeClient may drop the *)
(* user's limiter when it empties the user's client set is harmless only    *)
(* because a readPump that uses a limiter is still in that set.  LInv adds  *)
(* this, and that registered clients are put there by the handler before    *)
(* the pumps start.                                                         *)
(*                                                                         *)
(* WireHasNoGap and OpenClientIsComplete: the queue of a connection continues *)
(* its wire event by event (Covers), and while the connection is open the    *)
(* two reach up to the event the subscriber is about to hand over, or to the *)
(* user's last event (Reaches).                                              *)
(***************************************************************************)
EXTENDS WsHub, TLAPS

\* Only the variables the limiter argument is about.
LimTypeOK ==
    /\ clients \in [Users -> SUBSET Conns]
    /\ limiters \in [Users -> Nat]
    /\ limiterSeq \in Nat
    /\ held \in [Conns -> Nat]
    /\ hpc \in [Conns -> HandlerPcs]
    /\ rpc \in [Conns -> ReaderPcs]

\* Between addClient and removeClient a connection is in its user's set.
RegisteredWhileServed ==
    \A c \in Conns :
        (hpc[c] = "added" \/ rpc[c] \in {"start", "loop", "read", "remove"})
            => c \in clients[UserOf[c]]

\* The pumps start after addClient.
PumpsAfterHandler ==
    \A c \in Conns : hpc[c] \in {"none", "added"} => rpc[c] = "none"

LInv == LimTypeOK /\ RegisteredWhileServed /\ PumpsAfterHandler /\ SharedLimiter

lvars == <<clients, limiters, limiterSeq, held, hpc, rpc>>

-----------------------------------------------------------------------------
\* A step that leaves the registry, the limiters and the program counters alone.
LEMMA LStutter == LInv /\ UNCHANGED lvars => LInv'
BY DEF LInv, LimTypeOK, RegisteredWhileServed, PumpsAfterHandler, SharedLimiter, lvars

\* A readPump moves between steps where it holds a limiter, or leaves them.
LEMMA LReaderMoves ==
  ASSUME LInv, NEW c \in Conns, NEW pc \in ReaderPcs, ReaderGoes(c, pc),
         rpc[c] # "none",
         pc \in {"loop", "read", "remove"} => rpc[c] \in {"loop", "read", "remove"},
         pc \notin {"none", "start"},
         UNCHANGED <<clients, limiters, limiterSeq, held, hpc>>
  PROVE  LInv'
BY DEF LInv, LimTypeOK, RegisteredWhileServed, PumpsAfterHandler, SharedLimiter, ReaderGoes,
       ReaderPcs

\* Enqueueing a frame: only a handler's panic touches what LInv is about.
LEMMA LEnqueue ==
  ASSUME LInv, NEW p \in Senders, Enqueue(p)
  PROVE  LInv'
<1>1. ASSUME NEW c \in Conns, EnqueueCheck(p, c) PROVE LInv'
  BY <1>1, LStutter DEF EnqueueCheck, lvars, hubVars, pcVars
<1>2. CASE EnqueueSend(p)
  <2>1. CASE UNCHANGED hpc
    BY <1>2, <2>1, LStutter DEF EnqueueSend, lvars, hubVars
  <2>2. CASE ~ UNCHANGED hpc
    <3>1. /\ hpc' = [hpc EXCEPT ![p[2]] = "panicked"]
          /\ UNCHANGED <<clients, limiters, limiterSeq, held, rpc>>
      BY <1>2, <2>2 DEF EnqueueSend, SendPanics, hubVars
    <3>2. QED
      BY <3>1 DEF LInv, LimTypeOK, RegisteredWhileServed, PumpsAfterHandler, SharedLimiter,
                  HandlerPcs
  <2>3. QED BY <2>1, <2>2
<1>3. QED BY <1>1, <1>2 DEF Enqueue

\* limiterFor: the reader gets the user's limiter; a new one is made only when
\* no reader of the user has any.
LEMMA LLimiterFor ==
  ASSUME LInv, NEW c \in Conns, LimiterFor(c)
  PROVE  LInv'
<1> DEFINE u == UserOf[c]
<1>0. UserOf \in [Conns -> Users] /\ u \in Users
  BY ConstantsAssumption
<1>1. LimTypeOK'
  BY <1>0 DEF LInv, LimTypeOK, LimiterFor, ReaderGoes, ReaderPcs
<1>2. RegisteredWhileServed' /\ PumpsAfterHandler'
  BY <1>0 DEF LInv, LimTypeOK, RegisteredWhileServed, PumpsAfterHandler, LimiterFor, ReaderGoes
<1>3. SharedLimiter'
  <2>1. CASE limiters[u] = 0
    <3>1. \A d \in Conns : UserOf[d] = u => rpc[d] \notin {"loop", "read", "remove"}
      BY <2>1 DEF LInv, SharedLimiter
    <3>2. /\ limiters' = [limiters EXCEPT ![u] = limiterSeq + 1]
          /\ held' = [held EXCEPT ![c] = limiterSeq + 1]
          /\ rpc' = [rpc EXCEPT ![c] = "loop"]
      BY <2>1 DEF LimiterFor, ReaderGoes
    <3>3. limiterSeq + 1 # 0
      BY DEF LInv, LimTypeOK
    <3>4. QED
      BY <1>0, <3>1, <3>2, <3>3 DEF LInv, LimTypeOK, SharedLimiter
  <2>2. CASE limiters[u] # 0
    BY <1>0, <2>2 DEF LInv, LimTypeOK, SharedLimiter, LimiterFor, ReaderGoes
  <2>3. QED BY <2>1, <2>2
<1>4. QED BY <1>1, <1>2, <1>3 DEF LInv

\* removeClient: the limiter is dropped with the user's last client only, and a
\* reader that uses it is still a client.
LEMMA LRemoveClient ==
  ASSUME LInv, NEW c \in Conns, RemoveClient(c)
  PROVE  LInv'
<1> DEFINE u == UserOf[c]
<1> DEFINE rest == clients[u] \ {c}
<1>0. UserOf \in [Conns -> Users] /\ u \in Users
  BY ConstantsAssumption
<1>1. /\ clients' = [clients EXCEPT ![u] = rest]
      /\ limiters' = [limiters EXCEPT ![u] = IF rest = {} THEN 0 ELSE limiters[u]]
      /\ rpc' = [rpc EXCEPT ![c] = "cancel"]
      /\ rpc[c] = "remove"
      /\ UNCHANGED <<limiterSeq, held, hpc>>
  BY DEF RemoveClient, LimiterAfterRemove, ReaderGoes
<1>2. LimTypeOK'
  BY <1>0, <1>1 DEF LInv, LimTypeOK, ReaderPcs
<1>3. RegisteredWhileServed' /\ PumpsAfterHandler'
  BY <1>0, <1>1 DEF LInv, LimTypeOK, RegisteredWhileServed, PumpsAfterHandler
<1>4. SharedLimiter'
  <2>1. ASSUME NEW d \in Conns, rpc'[d] \in {"loop", "read", "remove"}
        PROVE  held'[d] # 0 /\ held'[d] = limiters'[UserOf[d]]
    <3>1. d # c /\ rpc[d] \in {"loop", "read", "remove"}
      BY <1>1, <2>1 DEF LInv, LimTypeOK
    <3>2. d \in clients[UserOf[d]] /\ held[d] # 0 /\ held[d] = limiters[UserOf[d]]
      BY <3>1 DEF LInv, RegisteredWhileServed, SharedLimiter
    <3>3. limiters'[UserOf[d]] = limiters[UserOf[d]]
      BY <1>0, <1>1, <3>1, <3>2 DEF LInv, LimTypeOK
    <3>4. QED BY <1>1, <3>2, <3>3
  <2>2. QED BY <2>1 DEF SharedLimiter
<1>5. QED BY <1>2, <1>3, <1>4 DEF LInv

\* The handler's steps.
LEMMA LHandler ==
  ASSUME LInv, NEW c \in Conns, AddClient(c) \/ Handler(c)
  PROVE  LInv'
<1>0. UserOf \in [Conns -> Users] /\ UserOf[c] \in Users
  BY ConstantsAssumption
<1>1. CASE AddClient(c)
  BY <1>0, <1>1 DEF AddClient, LInv, LimTypeOK, RegisteredWhileServed, PumpsAfterHandler,
                    SharedLimiter, HandlerPcs
<1>2. CASE HandlerEmit(c)
  BY <1>2, LStutter DEF HandlerEmit, lvars, hubVars, pcVars
<1>3. CASE StartPumps(c)
  BY <1>0, <1>3 DEF StartPumps, hubVars, LInv, LimTypeOK, RegisteredWhileServed,
                    PumpsAfterHandler, SharedLimiter, HandlerPcs, ReaderPcs
<1>4. CASE HandlerReturns(c)
  BY <1>0, <1>4 DEF HandlerReturns, hubVars, LInv, LimTypeOK, RegisteredWhileServed,
                    PumpsAfterHandler, SharedLimiter, HandlerPcs
<1>5. QED BY <1>1, <1>2, <1>3, <1>4 DEF Handler

\* The readPump's steps other than limiterFor and removeClient.
LEMMA LReader ==
  ASSUME LInv, NEW c \in Conns, Reader(c) \/ ReadFailsPeer(c) \/ ReadFrame(c)
  PROVE  LInv'
<1> USE DEF ReaderPcs
<1>1. CASE LimiterFor(c) BY <1>1, LLimiterFor
<1>2. CASE RemoveClient(c) BY <1>2, LRemoveClient
<1>3. CASE ReaderLoop(c)
  <2>1. PICK pc \in {"read", "remove"} : ReaderGoes(c, pc)
    BY <1>3 DEF ReaderLoop
  <2>2. rpc[c] = "loop" /\ UNCHANGED <<clients, limiters, limiterSeq, held, hpc>>
    BY <1>3 DEF ReaderLoop, hubVars
  <2>3. QED BY <2>1, <2>2, LReaderMoves
<1>4. CASE ReadFailsClosed(c) \/ ReadFailsPeer(c)
  BY <1>4, LReaderMoves DEF ReadFailsClosed, ReadFailsPeer, hubVars
<1>5. CASE ReadFrame(c)
  BY <1>5, LReaderMoves DEF ReadFrame, hubVars
<1>6. CASE ReaderCancel(c)
  BY <1>6, LReaderMoves DEF ReaderCancel, hubVars
<1>7. CASE ReaderClose(c)
  BY <1>7, LReaderMoves DEF ReaderClose, hubVars
<1>8. QED BY <1>1, <1>2, <1>3, <1>4, <1>5, <1>6, <1>7 DEF Reader

\* All readPumps of a user share one rate limiter, however the user's
\* connections come and go: Hub.limitersByUser is "shared per user, not per
\* connection".
THEOREM LimiterShared == Spec => []SharedLimiter
<1>1. Init => LInv
  BY ConstantsAssumption DEF Init, LInv, LimTypeOK, RegisteredWhileServed, PumpsAfterHandler,
     SharedLimiter, HandlerPcs, ReaderPcs
<1>2. LInv /\ [Next]_vars => LInv'
  <2> SUFFICES ASSUME LInv, [Next]_vars PROVE LInv'
    OBVIOUS
  <2>1. ASSUME NEW p \in Senders, Enqueue(p) PROVE LInv'
    BY <2>1, LEnqueue
  <2>2. ASSUME NEW u \in Users, SubscriberEvent(u) \/ DisconnectUser(u) PROVE LInv'
    BY <2>2, LStutter DEF SubscriberEvent, DisconnectUser, CloserCopies, lvars, hubVars, pcVars
  <2>3. CASE CloseAll
    BY <2>3, LStutter DEF CloseAll, CloserCopies, lvars, hubVars, pcVars
  <2>4. ASSUME NEW c \in Conns, CloseSteps(c) \/ CloseTarget(c) PROVE LInv'
    BY <2>4, LStutter DEF CloseSteps, CloseSend, CloseConn, CloseTarget, lvars, hubVars, pcVars
  <2>5. ASSUME NEW c \in Conns, AddClient(c) \/ Handler(c) PROVE LInv'
    BY <2>5, LHandler
  <2>6. ASSUME NEW c \in Conns, Writer(c) \/ WriterPingFails(c) PROVE LInv'
    BY <2>6, LStutter DEF Writer, WriterSends, WriterFlush, WriterCancel, WriterClose,
       WriterPingFails, lvars, hubVars
  <2>7. ASSUME NEW c \in Conns, Reader(c) \/ ReadFailsPeer(c) \/ ReadFrame(c) PROVE LInv'
    BY <2>7, LReader
  <2>8. CASE UNCHANGED vars
    BY <2>8, LStutter DEF vars, lvars, hubVars, pcVars
  <2>9. QED
    BY <2>1, <2>2, <2>3, <2>4, <2>5, <2>6, <2>7, <2>8 DEF Next
<1>3. LInv => SharedLimiter
  BY DEF LInv
<1>4. QED
  BY <1>1, <1>2, <1>3, PTL DEF Spec

-----------------------------------------------------------------------------
(* Type correctness *)

\* closeWith is called by one of the hub's goroutines.
LEMMA CloseWithType ==
  ASSUME TypeOK, NEW p \in Procs, NEW c \in Conns, CloseWith(p, c)
  PROVE  stage' \in [Conns -> Stages] /\ closer' \in [Conns -> Procs \cup {NoProc}]
<1>1. CASE Closed(c)
  BY <1>1 DEF CloseWith, closeVars, TypeOK
<1>2. CASE ~Closed(c)
  <2>1. /\ stage' = [stage EXCEPT ![c] = "swapped"]
        /\ closer' = [closer EXCEPT ![c] = p]
    BY <1>2 DEF CloseWith
  <2>2. stage \in [Conns -> Stages] /\ closer \in [Conns -> Procs \cup {NoProc}]
    BY DEF TypeOK
  <2>3. QED BY <2>1, <2>2 DEF Stages
<1>3. QED BY <1>1, <1>2

\* Every sender and every closer is a goroutine of the hub.
LEMMA ProcTypes ==
  /\ Sub \in Senders /\ Kill \in Procs
  /\ \A c \in Conns : H(c) \in Senders /\ R(c) \in Senders /\ W(c) \in Procs
  /\ \A p \in Senders : p \in Procs
  /\ \A c \in Conns : H(c) # Sub /\ R(c) # Sub
BY DEF Senders, Procs, Sub, H, R, W, Kill

\* A queue after append and after a receive.
LEMMA AppendEntries ==
  ASSUME NEW q \in Seq(Nat), NEW f \in Nat
  PROVE  /\ Append(q, f) \in Seq(Nat)
         /\ Len(Append(q, f)) = Len(q) + 1 /\ Len(q) \in Nat
         /\ \A j \in 1 .. Len(q) + 1 :
               IF j = Len(q) + 1 THEN Append(q, f)[j] = f
               ELSE j \in 1 .. Len(q) /\ Append(q, f)[j] = q[j]
OBVIOUS

\* What the tail of a queue holds.
LEMMA TailEntries ==
  ASSUME NEW q \in Seq(Nat), q # <<>>
  PROVE  /\ Tail(q) \in Seq(Nat) /\ Head(q) \in Nat /\ Head(q) = q[1]
         /\ Len(q) \in Nat \ {0} /\ Len(Tail(q)) = Len(q) - 1
         /\ \A j \in 1 .. Len(q) - 1 : j + 1 \in 1 .. Len(q) /\ Tail(q)[j] = q[j + 1]
OBVIOUS

\* enqueueDropSlow keeps the types: it sends only while the queue has room.
LEMMA TypeEnqueue ==
  ASSUME TypeOK, NEW p \in Senders, Enqueue(p)
  PROVE  TypeOK'
<1>1. ASSUME NEW c \in Conns, EnqueueCheck(p, c) PROVE TypeOK'
  BY <1>1 DEF EnqueueCheck, hubVars, connVars, closeVars, pcVars, eventVars, ctlVars, TypeOK
<1>2. CASE EnqueueSend(p)
  <2> DEFINE c == loaded[p]
  <2>0. c \in Conns /\ frame[p] \in Nat /\ p \in Procs
    BY <1>2, ProcTypes DEF EnqueueSend, TypeOK
  <2>1. /\ loaded' = [loaded EXCEPT ![p] = NoConn]
        /\ UNCHANGED <<frame, hubVars, wire, rpc, wpc, eventVars, ctxDone, toClose>>
    BY <1>2 DEF EnqueueSend
  <2>2. CASE SendPanics(p) /\ UNCHANGED <<chan, closeVars>>
    <3>1. /\ hpc' \in [Conns -> HandlerPcs] /\ pending' \in [Senders -> SUBSET Conns]
          /\ crashed' \in BOOLEAN
      BY <2>2 DEF SendPanics, TypeOK, HandlerPcs
    <3>2. QED
      BY <2>1, <2>2, <3>1 DEF hubVars, eventVars, closeVars, TypeOK
  <2>3. CASE /\ HasRoom(c) /\ chan' = [chan EXCEPT ![c] = Append(@, frame[p])]
             /\ UNCHANGED <<closeVars, hpc, pending, crashed>>
    <3>1. /\ chan' \in [Conns -> Seq(Nat)]
          /\ \A d \in Conns : Len(chan'[d]) <= sendQueueSize
      BY <2>0, <2>3, AppendEntries, ConstantsAssumption DEF TypeOK, HasRoom
    <3>2. QED
      BY <2>1, <2>3, <3>1 DEF hubVars, eventVars, closeVars, TypeOK
  <2>4. CASE CloseWith(p, c) /\ UNCHANGED <<chan, hpc, pending, crashed>>
    <3>1. stage' \in [Conns -> Stages] /\ closer' \in [Conns -> Procs \cup {NoProc}]
      BY <2>0, <2>4, CloseWithType
    <3>2. QED
      BY <2>1, <2>4, <3>1 DEF hubVars, eventVars, TypeOK
  <2>5. QED BY <1>2, <2>2, <2>3, <2>4 DEF EnqueueSend, DropSlow
<1>3. QED BY <1>1, <1>2 DEF Enqueue

\* The subscribers keep the types.
LEMMA TypeSubscriber ==
  ASSUME TypeOK, NEW u \in Users, SubscriberEvent(u)
  PROVE  TypeOK'
BY ProcTypes DEF SubscriberEvent, CopyTargets, hubVars, connVars, closeVars, pcVars, ctlVars,
   TypeOK

\* closeWith keeps the types, whoever runs it.
LEMMA TypeClosing ==
  ASSUME TypeOK,
         \/ CloseAll
         \/ \E u \in Users : DisconnectUser(u)
         \/ \E c \in Conns : CloseSteps(c) \/ CloseTarget(c)
  PROVE  TypeOK'
<1>1. ASSUME NEW targets \in SUBSET Conns, CloserCopies(targets) PROVE TypeOK'
  BY <1>1 DEF CloserCopies, hubVars, connVars, closeVars, pcVars, sendVars, eventVars, TypeOK
<1>2. CASE CloseAll
  <2>1. UNION {clients[u] : u \in Users} \in SUBSET Conns
    BY DEF TypeOK
  <2>2. QED BY <1>1, <1>2, <2>1 DEF CloseAll
<1>3. ASSUME NEW u \in Users, DisconnectUser(u) PROVE TypeOK'
  BY <1>1, <1>3 DEF DisconnectUser, TypeOK
<1>4. ASSUME NEW c \in Conns, CloseSteps(c) PROVE TypeOK'
  BY <1>4 DEF CloseSteps, CloseSend, CloseConn, hubVars, connVars, pcVars, sendVars, eventVars,
     ctlVars, TypeOK, Stages
<1>5. ASSUME NEW c \in Conns, CloseTarget(c) PROVE TypeOK'
  <2>1. stage' \in [Conns -> Stages] /\ closer' \in [Conns -> Procs \cup {NoProc}]
    BY <1>5, CloseWithType, ProcTypes DEF CloseTarget
  <2>2. QED
    BY <1>5, <2>1 DEF CloseTarget, hubVars, connVars, pcVars, sendVars, eventVars, TypeOK
<1>6. QED BY <1>2, <1>3, <1>4, <1>5

\* The WebSocket handler keeps the types.
LEMMA TypeHandler ==
  ASSUME TypeOK, NEW c \in Conns, AddClient(c) \/ Handler(c)
  PROVE  TypeOK'
<1>0. UserOf[c] \in Users /\ SnapshotLen \in Nat /\ ReplayLen \in Nat
  BY ConstantsAssumption
<1>1. CASE AddClient(c)
  BY <1>0, <1>1 DEF AddClient, connVars, closeVars, sendVars, ctlVars, TypeOK, HandlerPcs
<1>2. CASE HandlerEmit(c)
  <2>1. PICK n \in {emitted[c]} \cup (IF emitted[c] = 0 THEN {SnapshotLen} ELSE {}) :
          /\ emitted' = [emitted EXCEPT ![c] = n + 1]
          /\ CopyTargets(H(c), IF n < SnapshotLen THEN {c} ELSE clients[UserOf[c]], Other)
    BY <1>2 DEF HandlerEmit
  <2>2. n \in Nat
    BY <1>0 DEF TypeOK
  <2>3. emitted' \in [Conns -> Nat]
    BY <2>1, <2>2 DEF TypeOK
  <2>4. pending' \in [Senders -> SUBSET Conns] /\ frame' \in [Senders -> Nat] /\ UNCHANGED loaded
    <3>1. (IF n < SnapshotLen THEN {c} ELSE clients[UserOf[c]]) \in SUBSET Conns
      BY <1>0 DEF TypeOK
    <3>2. QED BY <2>1, <3>1 DEF CopyTargets, Other, TypeOK
  <2>5. QED
    BY <1>2, <2>3, <2>4 DEF HandlerEmit, hubVars, connVars, closeVars, pcVars, ctlVars, TypeOK
<1>3. CASE StartPumps(c)
  BY <1>3 DEF StartPumps, hubVars, connVars, closeVars, sendVars, eventVars, ctlVars, TypeOK,
     HandlerPcs, ReaderPcs, WriterPcs
<1>4. CASE HandlerReturns(c)
  BY <1>4 DEF HandlerReturns, hubVars, connVars, closeVars, sendVars, eventVars, ctlVars, TypeOK,
     HandlerPcs
<1>5. QED BY <1>1, <1>2, <1>3, <1>4 DEF Handler

\* A received frame goes to the wire or is lost.
LEMMA WriteHeadType ==
  ASSUME TypeOK, NEW c \in Conns, NEW onward \in SUBSET WriterPcs, WriteHead(c, onward)
  PROVE  /\ chan' \in [Conns -> Seq(Nat)] /\ wire' \in [Conns -> Seq(Nat)]
         /\ \A d \in Conns : Len(chan'[d]) <= sendQueueSize
         /\ wpc' \in [Conns -> WriterPcs]
<1>0. chan[c] \in Seq(Nat) /\ wire[c] \in Seq(Nat) /\ chan[c] # <<>>
  BY DEF TypeOK, WriteHead
<1>1. chan' \in [Conns -> Seq(Nat)] /\ \A d \in Conns : Len(chan'[d]) <= sendQueueSize
  <2>1. /\ Tail(chan[c]) \in Seq(Nat) /\ Len(chan[c]) \in Nat
        /\ Len(Tail(chan[c])) = Len(chan[c]) - 1
    BY <1>0, TailEntries
  <2>2. chan \in [Conns -> Seq(Nat)] /\ chan' = [chan EXCEPT ![c] = Tail(chan[c])]
    BY DEF WriteHead, TypeOK
  <2>3. \A d \in Conns : Len(chan[d]) <= sendQueueSize
    BY DEF TypeOK
  <2>4. Len(Tail(chan[c])) <= sendQueueSize
    BY <2>1, <2>3, ConstantsAssumption
  <2>5. QED BY <2>1, <2>2, <2>3, <2>4
<1>2. wire' \in [Conns -> Seq(Nat)]
  <2>1. Append(wire[c], Head(chan[c])) \in Seq(Nat)
    BY <1>0, TailEntries, AppendEntries
  <2>2. QED BY <2>1 DEF WriteHead, TypeOK
<1>3. wpc' \in [Conns -> WriterPcs]
  BY DEF WriteHead, WriterGoes, TypeOK, WriterPcs
<1>4. QED BY <1>1, <1>2, <1>3

\* The writePump keeps the types.
LEMMA TypeWriter ==
  ASSUME TypeOK, NEW c \in Conns, Writer(c) \/ WriterPingFails(c)
  PROVE  TypeOK'
<1> USE DEF hubVars, closeVars, sendVars, eventVars, ctlVars
<1>1. CASE WriterSends(c) \/ WriterFlush(c)
  <2>1. /\ chan' \in [Conns -> Seq(Nat)] /\ wire' \in [Conns -> Seq(Nat)]
        /\ \A d \in Conns : Len(chan'[d]) <= sendQueueSize
        /\ wpc' \in [Conns -> WriterPcs]
    <3>1. ASSUME NEW onward \in SUBSET WriterPcs, WriteHead(c, onward) PROVE <2>1!:
      BY <3>1, WriteHeadType
    <3>2. CASE WriterGoes(c, "exit") /\ UNCHANGED connVars
      BY <3>2 DEF WriterGoes, connVars, TypeOK, WriterPcs
    <3>3. {"run", "exit"} \in SUBSET WriterPcs /\ {"flush"} \in SUBSET WriterPcs
      BY DEF WriterPcs
    <3>4. QED BY <1>1, <3>1, <3>2, <3>3 DEF WriterSends, WriterFlush
  <2>2. UNCHANGED <<hubVars, closeVars, hpc, rpc, sendVars, eventVars, ctlVars>>
    BY <1>1 DEF WriterSends, WriterFlush
  <2>3. QED BY <2>1, <2>2 DEF TypeOK
<1>2. CASE WriterPingFails(c) \/ WriterCancel(c)
  BY <1>2 DEF WriterPingFails, WriterCancel, WriterGoes, connVars, TypeOK, WriterPcs
<1>3. CASE WriterClose(c)
  <2>1. stage' \in [Conns -> Stages] /\ closer' \in [Conns -> Procs \cup {NoProc}]
    BY <1>3, CloseWithType, ProcTypes DEF WriterClose
  <2>2. QED
    BY <1>3, <2>1 DEF WriterClose, WriterGoes, connVars, TypeOK, WriterPcs
<1>4. QED BY <1>1, <1>2, <1>3 DEF Writer

\* The readPump keeps the types.
LEMMA TypeReader ==
  ASSUME TypeOK, NEW c \in Conns, Reader(c) \/ ReadFailsPeer(c) \/ ReadFrame(c)
  PROVE  TypeOK'
<1> USE DEF connVars, sendVars, eventVars, ctlVars, ReaderGoes
<1>0. UserOf[c] \in Users
  BY ConstantsAssumption
<1>1. CASE LimiterFor(c)
  BY <1>0, <1>1 DEF LimiterFor, closeVars, TypeOK, ReaderPcs
<1>2. CASE RemoveClient(c)
  BY <1>0, <1>2 DEF RemoveClient, LimiterAfterRemove, closeVars, TypeOK, ReaderPcs
<1>3. CASE ReaderLoop(c) \/ ReaderClose(c)
  <2>1. stage' \in [Conns -> Stages] /\ closer' \in [Conns -> Procs \cup {NoProc}]
    <3>1. CASE CloseWith(R(c), c) BY <3>1, CloseWithType, ProcTypes
    <3>2. CASE UNCHANGED closeVars BY <3>2 DEF closeVars, TypeOK
    <3>3. QED BY <1>3, <3>1, <3>2 DEF ReaderLoop, ReaderClose
  <2>2. QED
    BY <1>3, <2>1 DEF ReaderLoop, ReaderClose, hubVars, TypeOK, ReaderPcs
<1>4. CASE ReadFailsClosed(c) \/ ReadFailsPeer(c) \/ ReaderCancel(c)
  BY <1>4 DEF ReadFailsClosed, ReadFailsPeer, ReaderCancel, hubVars, closeVars, TypeOK, ReaderPcs
<1>5. CASE ReadFrame(c)
  <2>1. /\ pending' \in [Senders -> SUBSET Conns] /\ frame' \in [Senders -> Nat]
        /\ loaded' \in [Senders -> Conns \cup {NoConn}]
    <3>1. CASE UNCHANGED sendVars
      BY <3>1 DEF TypeOK
    <3>2. ASSUME NEW u \in Users, CopyTargets(R(c), clients[u], Other) PROVE <2>1!:
      <4>1. clients[u] \in SUBSET Conns /\ R(c) \in Senders
        BY ProcTypes DEF TypeOK
      <4>2. QED BY <3>2, <4>1 DEF CopyTargets, Other, TypeOK
    <3>3. QED BY <1>5, <3>1, <3>2 DEF ReadFrame
  <2>2. rpc' \in [Conns -> ReaderPcs]
    BY <1>5 DEF ReadFrame, TypeOK, ReaderPcs
  <2>3. QED
    BY <1>5, <2>1, <2>2 DEF ReadFrame, hubVars, closeVars, TypeOK
<1>6. QED BY <1>1, <1>2, <1>3, <1>4, <1>5 DEF Reader

\* The disjuncts of Next, by goroutine.
LEMMA NextCases ==
  ASSUME [Next]_vars
  PROVE  \/ \E p \in Senders : Enqueue(p)
         \/ \E u \in Users : SubscriberEvent(u)
         \/ CloseAll \/ \E u \in Users : DisconnectUser(u)
         \/ \E c \in Conns : CloseSteps(c) \/ CloseTarget(c)
         \/ \E c \in Conns : AddClient(c) \/ Handler(c)
         \/ \E c \in Conns : Writer(c) \/ WriterPingFails(c)
         \/ \E c \in Conns : Reader(c) \/ ReadFailsPeer(c) \/ ReadFrame(c)
         \/ UNCHANGED vars
BY Zenon DEF Next

\* Every step keeps the types.
LEMMA TypeStep == TypeOK /\ [Next]_vars => TypeOK'
<1> SUFFICES ASSUME TypeOK, [Next]_vars PROVE TypeOK'
  OBVIOUS
<1>1. CASE UNCHANGED vars
  BY <1>1 DEF vars, hubVars, connVars, closeVars, pcVars, sendVars, eventVars, ctlVars, TypeOK
<1>2. QED
  BY <1>1, NextCases, TypeEnqueue, TypeSubscriber, TypeClosing, TypeHandler, TypeWriter,
     TypeReader

\* The types hold initially.
LEMMA TypeInit == Init => TypeOK
<1> SUFFICES ASSUME Init PROVE TypeOK
  OBVIOUS
<1>1. /\ chan \in [Conns -> Seq(Nat)] /\ wire \in [Conns -> Seq(Nat)]
      /\ \A c \in Conns : Len(chan[c]) <= sendQueueSize
  BY ConstantsAssumption DEF Init
<1>2. closer \in [Conns -> Procs \cup {NoProc}] /\ loaded \in [Senders -> Conns \cup {NoConn}]
  BY DEF Init
<1>3. ctxDone \in [Conns -> BOOLEAN] /\ crashed \in BOOLEAN
  BY DEF Init
<1>4. QED
  BY <1>1, <1>2, <1>3 DEF Init, TypeOK, Stages, HandlerPcs, ReaderPcs, WriterPcs, Other

\* The hub's state is well typed; in particular no send queue ever holds more
\* than sendQueueSize frames, whichever goroutines enqueue to it.
THEOREM TypeCorrect == Spec => []TypeOK
BY TypeInit, TypeStep, PTL DEF Spec

-----------------------------------------------------------------------------
(* The event stream of a connection.  WireHasNoGap and OpenClientIsComplete   *)
(* are not inductive: what is written next is what lies in the queue, and    *)
(* what lies there depends on how far the subscriber has come with the event *)
(* it is pushing.  StreamInv relates the three.                              *)

\* Queue q holds, in order and once each, the events after lo up to the n-th.
Covers(q, lo, n) ==
    /\ lo <= n
    /\ \A i \in EventSlots(q) : lo < q[i] /\ q[i] <= n
    /\ \A k \in lo + 1 .. n : \E i \in EventSlots(q) : q[i] = k
    /\ \A i, j \in EventSlots(q) : i < j => q[i] < q[j]

\* How far the stream of c reaches: up to the event being pushed while the
\* subscriber still owes it to c, and to the user's last event once it does not.
Reaches(c, n) ==
    /\ loaded[Sub] = c => n + 1 = frame[Sub]
    /\ (c \in pending[Sub] /\ stage[c] = "open") => n + 1 = frame[Sub]
    /\ (c \in clients[UserOf[c]] /\ stage[c] = "open" /\ c \notin pending[Sub] /\ loaded[Sub] # c)
          => n = sentTo[UserOf[c]]

Live == {"none", "run", "flush"}

Stream(c) == \E n \in Nat : Covers(chan[c], Written(c), n) /\ Reaches(c, n)

StreamInv == \A c \in Conns : wpc[c] \in Live => Stream(c)

\* The subscriber serves one event at a time, to connections of its user; the
\* frames of the other senders are no events.
PushInv ==
    /\ loaded[Sub] \notin pending[Sub]
    /\ \A c \in Conns : (c \in pending[Sub] \/ loaded[Sub] = c) => frame[Sub] = sentTo[UserOf[c]]
    /\ \A p \in Senders \ {Sub} : frame[p] = Other
    /\ \A u \in Users : \A c \in clients[u] : UserOf[c] = u

\* Nobody knows a connection before addClient.
FreshInv ==
    \A c \in Conns : hpc[c] = "none" =>
        /\ wire[c] = <<>> /\ chan[c] = <<>> /\ wpc[c] = "none"
        /\ \A u \in Users : c \notin clients[u]
        /\ \A p \in Senders : c \notin pending[p] /\ loaded[p] # c

\* The writer starts after the handler has sent snapshot and replay.
WriterAfterHandler == \A c \in Conns : hpc[c] = "added" => wpc[c] = "none"

EInv == TypeOK /\ PushInv /\ FreshInv /\ WriterAfterHandler /\ StreamInv /\ WireHasNoGap

\* An empty queue covers nothing.
LEMMA CoversEmpty == \A lo \in Nat : Covers(<<>>, lo, lo)
BY DEF Covers, EventSlots

\* Enqueueing a frame that is no event, or the next event.
LEMMA CoversAppend ==
  ASSUME NEW q \in Seq(Nat), NEW lo \in Nat, NEW n \in Nat, Covers(q, lo, n)
  PROVE  Covers(Append(q, Other), lo, n) /\ Covers(Append(q, n + 1), lo, n + 1)
<1> USE DEF EventSlots, IsEvent, Other
<1>1. EventSlots(Append(q, Other)) = EventSlots(q)
  BY AppendEntries
<1>2. \A i \in EventSlots(q) : Append(q, Other)[i] = q[i] /\ Append(q, n + 1)[i] = q[i]
  BY AppendEntries
<1>3. EventSlots(Append(q, n + 1)) = EventSlots(q) \cup {Len(q) + 1}
  BY AppendEntries
<1>4. Append(q, n + 1)[Len(q) + 1] = n + 1 /\ Len(q) \in Nat
  BY AppendEntries
<1>5. \A i \in EventSlots(q) : i \in Nat /\ i < Len(q) + 1 /\ q[i] \in Nat
  BY <1>4
<1> HIDE DEF EventSlots, IsEvent, Other
<1>6. Covers(Append(q, Other), lo, n)
  BY <1>1, <1>2 DEF Covers
<1>7. Covers(Append(q, n + 1), lo, n + 1)
  <2> DEFINE r == Append(q, n + 1)
  <2> DEFINE last == Len(q) + 1
  <2>0. /\ EventSlots(r) = EventSlots(q) \cup {last} /\ r[last] = n + 1
        /\ \A i \in EventSlots(q) : r[i] = q[i] /\ i \in Nat /\ i < last /\ q[i] \in Nat
        /\ last \in Nat
    <3>1. last \in Nat BY <1>4
    <3>2. QED BY <1>2, <1>3, <1>4, <1>5, <3>1, Zenon
  <2> HIDE DEF r, last
  <2>1. \A i \in EventSlots(r) : lo < r[i] /\ r[i] <= n + 1
    BY <2>0 DEF Covers
  <2>2. \A k \in lo + 1 .. n + 1 : \E i \in EventSlots(r) : r[i] = k
    <3> SUFFICES ASSUME NEW k \in lo + 1 .. n + 1 PROVE \E i \in EventSlots(r) : r[i] = k
      OBVIOUS
    <3>1. CASE k = n + 1 BY <2>0, <3>1
    <3>2. CASE k # n + 1
      <4>1. k \in lo + 1 .. n BY <3>2
      <4>2. PICK i \in EventSlots(q) : q[i] = k BY <4>1 DEF Covers
      <4>3. QED BY <2>0, <4>2
    <3>3. QED BY <3>1, <3>2
  <2>3. \A i, j \in EventSlots(r) : i < j => r[i] < r[j]
    <3> SUFFICES ASSUME NEW i \in EventSlots(r), NEW j \in EventSlots(r), i < j
                 PROVE  r[i] < r[j]
      OBVIOUS
    <3>1. i \in EventSlots(q)
      BY <2>0
    <3>2. CASE j \in EventSlots(q) BY <2>0, <3>1, <3>2 DEF Covers
    <3>3. CASE j = last BY <2>0, <3>1, <3>3 DEF Covers
    <3>4. QED BY <2>0, <3>2, <3>3
  <2>4. lo <= n + 1
    BY DEF Covers
  <2>5. Covers(r, lo, n + 1) BY <2>1, <2>2, <2>3, <2>4 DEF Covers
  <2>6. QED BY <2>5 DEF r
<1>8. QED BY <1>6, <1>7

\* Receiving the head of the queue: an event at the head is the next one due.
LEMMA CoversTail ==
  ASSUME NEW q \in Seq(Nat), NEW lo \in Nat, NEW n \in Nat, Covers(q, lo, n), q # <<>>
  PROVE  IF IsEvent(Head(q)) THEN Head(q) = lo + 1 /\ Covers(Tail(q), lo + 1, n)
                             ELSE Covers(Tail(q), lo, n)
<1> DEFINE t == Tail(q)
<1>1. /\ Tail(q) \in Seq(Nat) /\ Head(q) \in Nat /\ Head(q) = q[1]
      /\ Len(q) \in Nat \ {0} /\ Len(Tail(q)) = Len(q) - 1
      /\ \A j \in 1 .. Len(q) - 1 : j + 1 \in 1 .. Len(q) /\ Tail(q)[j] = q[j + 1]
  BY TailEntries
<1>2. \A j \in EventSlots(t) : j \in Nat /\ j + 1 \in EventSlots(q) /\ t[j] = q[j + 1]
  BY <1>1 DEF EventSlots
<1>3. \A i \in EventSlots(q) : i # 1 => i - 1 \in EventSlots(t) /\ t[i - 1] = q[i]
  BY <1>1 DEF EventSlots
<1>4. \A i \in EventSlots(q) : i \in Nat /\ q[i] \in Nat /\ i >= 1
  BY <1>1 DEF EventSlots
<1> HIDE DEF t
<1>5. \A i, j \in EventSlots(t) : i < j => t[i] < t[j]
  <2> SUFFICES ASSUME NEW i \in EventSlots(t), NEW j \in EventSlots(t), i < j
               PROVE  t[i] < t[j]
    OBVIOUS
  <2>1. /\ i + 1 \in EventSlots(q) /\ t[i] = q[i + 1]
        /\ j + 1 \in EventSlots(q) /\ t[j] = q[j + 1]
        /\ i + 1 < j + 1
    BY <1>2
  <2>2. QED BY <2>1 DEF Covers
<1>6. CASE ~IsEvent(Head(q))
  <2>1. 1 \notin EventSlots(q)
    BY <1>1, <1>6 DEF EventSlots
  <2>2. \A j \in EventSlots(t) : lo < t[j] /\ t[j] <= n
    BY <1>2 DEF Covers
  <2>3. \A k \in lo + 1 .. n : \E j \in EventSlots(t) : t[j] = k
    <3> SUFFICES ASSUME NEW k \in lo + 1 .. n
                 PROVE  \E j \in EventSlots(t) : t[j] = k
      OBVIOUS
    <3>1. PICK i \in EventSlots(q) : q[i] = k
      BY DEF Covers
    <3>2. QED BY <1>3, <2>1, <3>1
  <2>4. Covers(t, lo, n)
    BY <1>5, <2>2, <2>3 DEF Covers
  <2>5. QED BY <1>6, <2>4 DEF t
<1>7. CASE IsEvent(Head(q))
  <2>1. 1 \in EventSlots(q)
    BY <1>1, <1>7 DEF EventSlots
  <2>2. q[1] = lo + 1
    <3>1. lo + 1 \in lo + 1 .. n
      BY <1>4, <2>1 DEF Covers
    <3>2. PICK i \in EventSlots(q) : q[i] = lo + 1
      BY <3>1 DEF Covers
    <3>3. lo < q[1] /\ q[1] \in Nat
      BY <1>4, <2>1 DEF Covers
    <3>4. i # 1 => q[1] < q[i]
      BY <1>4, <2>1 DEF Covers
    <3>5. QED BY <3>2, <3>3, <3>4
  <2>3. \A i \in EventSlots(q) : i # 1 => q[i] > lo + 1
    BY <1>4, <2>1, <2>2 DEF Covers
  <2>4. lo + 1 <= n
    BY <2>1, <2>2 DEF Covers
  <2>5. \A k \in lo + 2 .. n : \E j \in EventSlots(t) : t[j] = k
    <3> SUFFICES ASSUME NEW k \in lo + 2 .. n
                 PROVE  \E j \in EventSlots(t) : t[j] = k
      OBVIOUS
    <3>1. k \in lo + 1 .. n
      OBVIOUS
    <3>2. PICK i \in EventSlots(q) : q[i] = k
      BY <3>1 DEF Covers
    <3>3. i # 1
      BY <2>2, <3>2
    <3>4. QED BY <1>3, <3>2, <3>3
  <2>6. \A j \in EventSlots(t) : lo + 1 < t[j] /\ t[j] <= n
    BY <1>2, <1>4, <2>3 DEF Covers, EventSlots
  <2>7. (lo + 1) + 1 = lo + 2
    OBVIOUS
  <2>8. Covers(t, lo + 1, n)
    BY <1>5, <2>4, <2>5, <2>6, <2>7 DEF Covers
  <2>9. QED BY <1>1, <1>7, <2>2, <2>8 DEF t
<1>8. QED BY <1>6, <1>7

-----------------------------------------------------------------------------
\* What the stream of c depends on, besides its own queue and wire.
SubState(c) == <<pending[Sub], loaded[Sub], frame[Sub], sentTo[UserOf[c]]>>

\* A step that leaves the queue, the wire and the subscriber alone, and at most
\* closes c, takes it from the hub or ends its writer.
LEMMA StreamKept ==
  ASSUME NEW c \in Conns, wpc[c] \in Live => Stream(c),
         wpc'[c] \in Live => wpc[c] \in Live,
         chan'[c] = chan[c], wire'[c] = wire[c], since'[c] = since[c],
         UNCHANGED SubState(c),
         stage'[c] = "open" => stage[c] = "open",
         c \in clients'[UserOf[c]] => c \in clients[UserOf[c]],
         wpc'[c] \in Live
  PROVE  Stream(c)'
<1>1. PICK n \in Nat : Covers(chan[c], Written(c), n) /\ Reaches(c, n)
  BY DEF Stream
<1>2. Covers(chan[c], Written(c), n)'
  BY <1>1 DEF Covers, Written, EventSlots
<1>3. Reaches(c, n)'
  BY <1>1 DEF Reaches, SubState
<1>4. QED BY <1>2, <1>3 DEF Stream

\* The facts of EInv about a step that enqueues, writes and pushes nothing.
Quiet ==
    /\ UNCHANGED <<chan, wire, frame, sentTo, since, loaded, pending>>
    /\ \A c \in Conns : stage'[c] = "open" => stage[c] = "open"
    /\ \A u \in Users : clients'[u] \subseteq clients[u]
    /\ \A c \in Conns : hpc'[c] \in {"none", "added"} => hpc'[c] = hpc[c] /\ wpc'[c] = wpc[c]
    /\ \A c \in Conns : wpc'[c] \in Live => wpc[c] \in Live

\* A quiet step leaves the streams as they are.
LEMMA QuietKeeps ==
  ASSUME EInv, TypeOK', Quiet
  PROVE  EInv'
<1>0. UserOf \in [Conns -> Users]
  BY ConstantsAssumption
<1>1. PushInv'
  BY DEF EInv, PushInv, Quiet
<1>2. FreshInv' /\ WriterAfterHandler'
  BY DEF EInv, FreshInv, WriterAfterHandler, Quiet
<1>3. WireHasNoGap'
  BY DEF EInv, WireHasNoGap, Quiet
<1>4. ASSUME NEW c \in Conns, wpc'[c] \in Live PROVE Stream(c)'
  <2>1. wpc[c] \in Live => Stream(c)
    BY DEF EInv, StreamInv
  <2>2. UNCHANGED SubState(c)
    BY DEF Quiet, SubState
  <2>3. QED BY <1>0, <1>4, <2>1, <2>2, StreamKept DEF Quiet
<1>5. QED BY <1>1, <1>2, <1>3, <1>4 DEF EInv, StreamInv

\* closeWith never opens a client.
LEMMA CloseWithCloses ==
  ASSUME TypeOK, NEW p, NEW c \in Conns, CloseWith(p, c)
  PROVE  \A d \in Conns : stage'[d] = "open" => stage[d] = "open"
BY DEF CloseWith, closeVars, TypeOK

\* The closer's steps.
LEMMA StreamClosing ==
  ASSUME EInv, TypeOK',
         \/ CloseAll
         \/ \E u \in Users : DisconnectUser(u)
         \/ \E c \in Conns : CloseSteps(c) \/ CloseTarget(c)
  PROVE  EInv'
<1> USE DEF hubVars, connVars, pcVars, sendVars, eventVars
<1>0. TypeOK BY DEF EInv
<1>1. CASE CloseAll \/ \E u \in Users : DisconnectUser(u)
  BY <1>1, QuietKeeps DEF CloseAll, DisconnectUser, CloserCopies, closeVars, Quiet
<1>2. ASSUME NEW c \in Conns, CloseSteps(c) PROVE EInv'
  <2>1. \A d \in Conns : stage'[d] = "open" => stage[d] = "open"
    BY <1>0, <1>2 DEF CloseSteps, CloseSend, CloseConn, TypeOK
  <2>2. QED BY <1>2, <2>1, QuietKeeps DEF CloseSteps, CloseSend, CloseConn, Quiet
<1>3. ASSUME NEW c \in Conns, CloseTarget(c) PROVE EInv'
  <2>1. \A d \in Conns : stage'[d] = "open" => stage[d] = "open"
    BY <1>0, <1>3, CloseWithCloses DEF CloseTarget
  <2>2. QED BY <1>3, <2>1, QuietKeeps DEF CloseTarget, Quiet
<1>4. QED BY <1>1, <1>2, <1>3

\* A sender other than the subscriber copies its targets.
LEMMA StreamCopy ==
  ASSUME EInv, TypeOK', NEW p \in Senders \ {Sub}, NEW targets \in SUBSET Conns,
         \A d \in targets : hpc[d] # "none",
         CopyTargets(p, targets, Other),
         UNCHANGED <<chan, wire, stage, clients, hpc, wpc, sentTo, since>>
  PROVE  EInv'
<1>0. TypeOK /\ Sub \in Senders
  BY ProcTypes DEF EInv
<1>1. /\ pending' = [pending EXCEPT ![p] = targets]
      /\ frame' = [frame EXCEPT ![p] = Other]
      /\ loaded' = loaded
  BY DEF CopyTargets
<1>2. pending'[Sub] = pending[Sub] /\ frame'[Sub] = frame[Sub]
  BY <1>0, <1>1 DEF TypeOK
<1>3. PushInv'
  <2>1. \A r \in Senders \ {Sub} : frame'[r] = Other
    BY <1>0, <1>1 DEF EInv, PushInv, TypeOK
  <2>2. QED BY <1>1, <1>2, <2>1 DEF EInv, PushInv
<1>4. FreshInv' /\ WriterAfterHandler'
  BY <1>0, <1>1 DEF EInv, FreshInv, WriterAfterHandler, TypeOK
<1>5. WireHasNoGap'
  BY DEF EInv, WireHasNoGap
<1>6. ASSUME NEW c \in Conns, wpc'[c] \in Live PROVE Stream(c)'
  <2>1. wpc[c] \in Live => Stream(c)
    BY DEF EInv, StreamInv
  <2>2. UNCHANGED SubState(c)
    BY <1>1, <1>2 DEF SubState
  <2>3. QED BY <1>6, <2>1, <2>2, StreamKept
<1>7. QED BY <1>3, <1>4, <1>5, <1>6 DEF EInv, StreamInv

\* Registered clients have passed addClient.
LEMMA ClientsAdded == EInv => \A u \in Users : \A d \in clients[u] : hpc[d] # "none"
BY DEF EInv, FreshInv, TypeOK

\* addClient: the stream of the new client starts, empty, after the user's last
\* event.
LEMMA StreamAdd ==
  ASSUME EInv, TypeOK', NEW c \in Conns, AddClient(c)
  PROVE  EInv'
<1> DEFINE u == UserOf[c]
<1>0. TypeOK /\ UserOf \in [Conns -> Users] /\ u \in Users
  BY ConstantsAssumption DEF EInv
<1>1. /\ hpc' = [hpc EXCEPT ![c] = "added"] /\ hpc[c] = "none"
      /\ clients' = [clients EXCEPT ![u] = @ \cup {c}]
      /\ since' = [since EXCEPT ![c] = sentTo[u]]
      /\ UNCHANGED <<chan, wire, stage, wpc, pending, loaded, frame, sentTo>>
  BY DEF AddClient, connVars, closeVars, sendVars
<1>2. /\ wire[c] = <<>> /\ chan[c] = <<>>
      /\ c \notin pending[Sub] /\ loaded[Sub] # c
  BY <1>1, ProcTypes DEF EInv, FreshInv
<1>3. \A v \in Users : \A d \in clients'[v] : d \in clients[v] \/ (d = c /\ v = u)
  BY <1>0, <1>1 DEF TypeOK
<1>4. PushInv'
  BY <1>0, <1>1, <1>3 DEF EInv, PushInv
<1>5. FreshInv' /\ WriterAfterHandler'
  <2>1. FreshInv'
    BY <1>0, <1>1, <1>3 DEF EInv, FreshInv, TypeOK
  <2>2. wpc[c] = "none"
    BY <1>1 DEF EInv, FreshInv
  <2>3. WriterAfterHandler'
    BY <1>0, <1>1, <2>2 DEF EInv, WriterAfterHandler, TypeOK
  <2>4. QED BY <2>1, <2>3
<1>6. WireHasNoGap'
  <2> SUFFICES ASSUME NEW d \in Conns, NEW i \in 1 .. Len(wire[d])
               PROVE  wire[d][i] = since'[d] + i
    BY <1>1 DEF WireHasNoGap
  <2>1. CASE d = c BY <1>2, <2>1
  <2>2. CASE d # c BY <1>0, <1>1, <2>2 DEF EInv, WireHasNoGap, TypeOK
  <2>3. QED BY <2>1, <2>2
<1>7. Stream(c)'
  <2>1. sentTo[u] \in Nat
    BY <1>0 DEF TypeOK
  <2>2. chan'[c] = <<>> /\ Written(c)' = sentTo[u]
    <3>1. since'[c] = sentTo[u] /\ wire'[c] = <<>> /\ chan'[c] = <<>>
      BY <1>0, <1>1, <1>2 DEF TypeOK
    <3>2. QED BY <2>1, <3>1 DEF Written
  <2>3. Covers(<<>>, sentTo[u], sentTo[u])
    BY <2>1, CoversEmpty
  <2>4. Covers(chan[c], Written(c), sentTo[u])'
    BY <1>1, <2>2, <2>3 DEF Covers, EventSlots
  <2>5. Reaches(c, sentTo[u])'
    BY <1>1, <1>2 DEF Reaches
  <2>6. sentTo' = sentTo
    BY <1>1
  <2>7. QED BY <2>1, <2>4, <2>5, <2>6 DEF Stream
<1>8. ASSUME NEW d \in Conns, wpc'[d] \in Live, d # c PROVE Stream(d)'
  <2>1. wpc[d] \in Live => Stream(d)
    BY DEF EInv, StreamInv
  <2>2. UNCHANGED SubState(d)
    BY <1>1 DEF SubState
  <2>3. since'[d] = since[d] /\ (d \in clients'[UserOf[d]] => d \in clients[UserOf[d]])
    BY <1>0, <1>1, <1>3, <1>8 DEF TypeOK
  <2>4. QED BY <1>1, <1>8, <2>1, <2>2, <2>3, StreamKept
<1>9. QED BY <1>4, <1>5, <1>6, <1>7, <1>8 DEF EInv, StreamInv

\* The handler: registering begins a stream, and its own frames are no events.
LEMMA StreamHandler ==
  ASSUME EInv, TypeOK', NEW c \in Conns, AddClient(c) \/ Handler(c)
  PROVE  EInv'
<1>0. TypeOK /\ UserOf \in [Conns -> Users] /\ UserOf[c] \in Users
  BY ConstantsAssumption DEF EInv
<1>1. CASE AddClient(c) BY <1>1, StreamAdd
<1>2. CASE HandlerEmit(c)
  <2>1. PICK n \in {emitted[c]} \cup (IF emitted[c] = 0 THEN {SnapshotLen} ELSE {}) :
          CopyTargets(H(c), IF n < SnapshotLen THEN {c} ELSE clients[UserOf[c]], Other)
    BY <1>2 DEF HandlerEmit
  <2> DEFINE targets == IF n < SnapshotLen THEN {c} ELSE clients[UserOf[c]]
  <2>2. targets \in SUBSET Conns /\ \A d \in targets : hpc[d] # "none"
    BY <1>0, <1>2, ClientsAdded DEF HandlerEmit, TypeOK
  <2>3. H(c) \in Senders \ {Sub}
    BY ProcTypes
  <2>4. UNCHANGED <<chan, wire, stage, clients, hpc, wpc, sentTo, since>>
    BY <1>2 DEF HandlerEmit, hubVars, connVars, closeVars, pcVars
  <2> HIDE DEF targets
  <2>5. CopyTargets(H(c), targets, Other)
    BY <2>1 DEF targets
  <2>6. QED BY <2>2, <2>3, <2>4, <2>5, StreamCopy
<1>3. CASE StartPumps(c)
  <2>1. hpc' = [hpc EXCEPT ![c] = "waiting"] /\ wpc' = [wpc EXCEPT ![c] = "run"]
    BY <1>3 DEF StartPumps
  <2>2. wpc[c] = "none"
    BY <1>3 DEF StartPumps, EInv, WriterAfterHandler
  <2>3. QED
    BY <1>0, <1>3, <2>1, <2>2, QuietKeeps DEF StartPumps, hubVars, connVars, closeVars, sendVars, eventVars,
       Quiet, TypeOK, Live
<1>4. CASE HandlerReturns(c)
  BY <1>0, <1>4, QuietKeeps DEF HandlerReturns, hubVars, connVars, closeVars, sendVars, eventVars,
     Quiet, TypeOK
<1>5. QED BY <1>1, <1>2, <1>3, <1>4 DEF Handler

\* The writer takes the frame at the head of its queue.
LEMMA StreamWriteHead ==
  ASSUME EInv, TypeOK', NEW c \in Conns, NEW onward \in SUBSET WriterPcs, WriteHead(c, onward),
         wpc[c] \in {"run", "flush"},
         UNCHANGED <<clients, stage, hpc, sendVars, sentTo, since>>
  PROVE  EInv'
<1> DEFINE q == chan[c]
<1>0. TypeOK /\ q \in Seq(Nat) /\ wire[c] \in Seq(Nat) /\ q # <<>> /\ since[c] \in Nat
  BY DEF EInv, TypeOK, WriteHead
<1>1. /\ chan' = [chan EXCEPT ![c] = Tail(q)]
      /\ \/ wire' = IF IsEvent(Head(q)) THEN [wire EXCEPT ![c] = Append(@, Head(q))] ELSE wire
         \/ wire' = wire /\ wpc'[c] = "exit"
      /\ \A d \in Conns : d # c => chan'[d] = chan[d] /\ wire'[d] = wire[d] /\ wpc'[d] = wpc[d]
  BY <1>0 DEF WriteHead, WriterGoes, TypeOK
<1>2. PushInv'
  BY DEF EInv, PushInv, sendVars
<1>3. FreshInv' /\ WriterAfterHandler'
  <2>1. hpc[c] \notin {"none", "added"}
    BY DEF EInv, FreshInv, WriterAfterHandler
  <2>2. QED BY <1>1, <2>1 DEF EInv, FreshInv, WriterAfterHandler, sendVars
<1>4. ASSUME NEW d \in Conns, d # c, wpc'[d] \in Live PROVE Stream(d)'
  <2>1. wpc[d] \in Live => Stream(d)
    BY DEF EInv, StreamInv
  <2>2. UNCHANGED SubState(d)
    BY DEF SubState, sendVars
  <2>3. QED BY <1>1, <1>4, <2>1, <2>2, StreamKept
<1>5. PICK n \in Nat : Covers(q, Written(c), n) /\ Reaches(c, n)
  BY DEF EInv, StreamInv, Stream, Live
<1>6. Written(c) \in Nat /\ Len(wire[c]) \in Nat
  BY <1>0 DEF Written
<1>7. IF IsEvent(Head(q)) THEN Head(q) = Written(c) + 1 /\ Covers(Tail(q), Written(c) + 1, n)
                          ELSE Covers(Tail(q), Written(c), n)
  BY <1>0, <1>5, <1>6, CoversTail
<1>8. chan'[c] = Tail(q)
  BY <1>0, <1>1 DEF TypeOK
<1>9. Reaches(c, n)'
  BY <1>5 DEF Reaches, sendVars
<1>10. CASE wire' = wire
  <2>1. WireHasNoGap'
    BY <1>10 DEF EInv, WireHasNoGap
  <2>2. ASSUME wpc'[c] \in Live PROVE Stream(c)'
    <3>1. ~IsEvent(Head(q))
      <4> SUFFICES ASSUME IsEvent(Head(q)) PROVE FALSE
        OBVIOUS
      <4>1. wire' = [wire EXCEPT ![c] = Append(@, Head(q))]
        BY <1>1, <2>2 DEF Live
      <4>2. wire'[c] = Append(wire[c], Head(q)) /\ Head(q) \in Nat
        BY <1>0, <4>1, TailEntries DEF TypeOK
      <4>3. Len(wire'[c]) = Len(wire[c]) + 1
        BY <1>0, <4>2, AppendEntries
      <4>4. QED BY <1>6, <1>10, <4>3
    <3>2. Covers(Tail(q), Written(c), n)
      BY <1>7, <3>1
    <3>3. Written(c)' = Written(c)
      BY <1>10 DEF Written
    <3>4. Covers(chan[c], Written(c), n)'
      BY <1>8, <3>2, <3>3 DEF Covers, EventSlots
    <3>5. QED BY <1>9, <3>4 DEF Stream
  <2>3. QED BY <1>2, <1>3, <1>4, <2>1, <2>2 DEF EInv, StreamInv
<1>11. CASE wire' # wire
  <2>1. IsEvent(Head(q)) /\ wire' = [wire EXCEPT ![c] = Append(@, Head(q))]
    BY <1>1, <1>11
  <2>2. Head(q) = Written(c) + 1 /\ Covers(Tail(q), Written(c) + 1, n)
    BY <1>7, <2>1
  <2>3. wire'[c] = Append(wire[c], Written(c) + 1)
    BY <1>0, <2>1, <2>2 DEF TypeOK
  <2>4. /\ Len(wire'[c]) = Len(wire[c]) + 1
        /\ \A j \in 1 .. Len(wire[c]) + 1 :
              IF j = Len(wire[c]) + 1 THEN wire'[c][j] = Written(c) + 1
              ELSE j \in 1 .. Len(wire[c]) /\ wire'[c][j] = wire[c][j]
    <3>1. Written(c) + 1 \in Nat BY <1>6
    <3>2. QED BY <1>0, <2>3, <3>1, AppendEntries
  <2> DEFINE l == Len(wire[c])
  <2>0. l \in Nat /\ since[c] \in Nat /\ since' = since /\ Written(c) = since[c] + l
    BY <1>0, <1>6 DEF Written
  <2>5. WireHasNoGap'
    <3> SUFFICES ASSUME NEW d \in Conns, NEW i \in 1 .. Len(wire'[d])
                 PROVE  wire'[d][i] = since[d] + i
      BY DEF WireHasNoGap
    <3>1. CASE d # c BY <1>1, <3>1 DEF EInv, WireHasNoGap
    <3>2. CASE d = c
      <4>1. i \in 1 .. Len(wire[c]) + 1
        BY <2>4, <3>2
      <4>2. CASE i = Len(wire[c]) + 1
        <5>1. wire'[c][i] = Written(c) + 1
          BY <2>4, <4>1, <4>2
        <5>2. since[c] + i = (since[c] + l) + 1
          BY <2>0, <4>2
        <5>3. QED BY <2>0, <3>2, <5>1, <5>2
      <4>3. CASE i # Len(wire[c]) + 1
        BY <2>4, <3>2, <4>1, <4>3 DEF EInv, WireHasNoGap
      <4>4. QED BY <4>2, <4>3
    <3>3. QED BY <3>1, <3>2
  <2>6. Written(c)' = Written(c) + 1
    <3>1. Written(c)' = since'[c] + Len(wire'[c])
      BY DEF Written
    <3>2. Len(wire'[c]) = l + 1
      BY <2>4
    <3> HIDE DEF l
    <3>3. since[c] + (l + 1) = (since[c] + l) + 1
      BY <2>0
    <3>4. QED BY <2>0, <3>1, <3>2, <3>3, Zenon
  <2>7. Covers(chan[c], Written(c), n)'
    BY <1>8, <2>2, <2>6 DEF Covers, EventSlots
  <2>8. Stream(c)'
    BY <1>9, <2>7 DEF Stream
  <2>9. QED BY <1>2, <1>3, <1>4, <2>5, <2>8 DEF EInv, StreamInv
<1>12. QED BY <1>10, <1>11

\* The writePump moves the head of the queue to the wire.
LEMMA StreamWriter ==
  ASSUME EInv, TypeOK', NEW c \in Conns, Writer(c) \/ WriterPingFails(c)
  PROVE  EInv'
<1> USE DEF hubVars, connVars, sendVars, eventVars
<1>0. TypeOK BY DEF EInv
<1>1. ASSUME NEW onward \in SUBSET WriterPcs, WriteHead(c, onward), WriterSends(c) \/ WriterFlush(c)
      PROVE  EInv'
  <2>1. /\ wpc[c] \in {"run", "flush"}
        /\ UNCHANGED <<clients, stage, hpc, sendVars, sentTo, since>>
    BY <1>1 DEF WriterSends, WriterFlush, closeVars
  <2>2. QED BY <1>1, <2>1, StreamWriteHead
<1>2. ASSUME NEW pc \in {"exit", "close", "done"}, WriterGoes(c, pc), wpc[c] # "none",
             UNCHANGED <<clients, chan, wire, hpc, sendVars, sentTo, since>>,
             \A d \in Conns : stage'[d] = "open" => stage[d] = "open"
      PROVE  EInv'
  <2>1. hpc[c] \notin {"none", "added"}
    BY <1>2 DEF EInv, FreshInv, WriterAfterHandler
  <2>2. wpc' = [wpc EXCEPT ![c] = pc]
    BY <1>2 DEF WriterGoes
  <2>3. \A d \in Conns : d # c => wpc'[d] = wpc[d]
    BY <1>0, <2>2 DEF TypeOK
  <2>4. wpc'[c] \notin Live
    BY <1>0, <1>2, <2>2 DEF TypeOK, Live
  <2>5. QED BY <1>2, <2>1, <2>3, <2>4, QuietKeeps DEF Quiet
<1>3. CASE WriterSends(c) \/ WriterFlush(c)
  <2>1. CASE \E onward \in SUBSET WriterPcs : WriteHead(c, onward)
    BY <1>1, <1>3, <2>1
  <2>2. CASE WriterGoes(c, "exit") /\ UNCHANGED connVars
    BY <1>2, <1>3, <2>2 DEF WriterSends, WriterFlush, closeVars
  <2>3. {"run", "exit"} \in SUBSET WriterPcs /\ {"flush"} \in SUBSET WriterPcs
    BY DEF WriterPcs
  <2>4. QED BY <1>3, <2>1, <2>2, <2>3 DEF WriterSends, WriterFlush
<1>4. CASE WriterPingFails(c) \/ WriterCancel(c)
  BY <1>2, <1>4 DEF WriterPingFails, WriterCancel, closeVars
<1>5. CASE WriterClose(c)
  BY <1>0, <1>2, <1>5, CloseWithCloses DEF WriterClose
<1>6. QED BY <1>3, <1>4, <1>5 DEF Writer

\* The readPump: leaving, or a typing frame to others.
LEMMA StreamReader ==
  ASSUME EInv, TypeOK', NEW c \in Conns, Reader(c) \/ ReadFailsPeer(c) \/ ReadFrame(c)
  PROVE  EInv'
<1> USE DEF connVars, sendVars, eventVars
<1>0. TypeOK /\ UserOf[c] \in Users
  BY ConstantsAssumption DEF EInv
<1>1. CASE LimiterFor(c)
  BY <1>1, QuietKeeps DEF LimiterFor, closeVars, Quiet
<1>2. CASE RemoveClient(c)
  <2>1. \A u \in Users : clients'[u] \subseteq clients[u]
    BY <1>0, <1>2 DEF RemoveClient, TypeOK
  <2>2. QED BY <1>2, <2>1, QuietKeeps DEF RemoveClient, closeVars, Quiet
<1>3. CASE ReaderLoop(c) \/ ReaderClose(c)
  <2>1. \A d \in Conns : stage'[d] = "open" => stage[d] = "open"
    <3>1. CASE CloseWith(R(c), c) BY <1>0, <3>1, CloseWithCloses
    <3>2. CASE UNCHANGED closeVars BY <3>2 DEF closeVars
    <3>3. QED BY <1>3, <3>1, <3>2 DEF ReaderLoop, ReaderClose
  <2>2. QED BY <1>3, <2>1, QuietKeeps DEF ReaderLoop, ReaderClose, hubVars, Quiet
<1>4. CASE ReadFailsClosed(c) \/ ReadFailsPeer(c) \/ ReaderCancel(c)
  BY <1>4, QuietKeeps DEF ReadFailsClosed, ReadFailsPeer, ReaderCancel, hubVars, closeVars, Quiet
<1>5. CASE ReadFrame(c)
  <2>1. UNCHANGED <<chan, wire, stage, clients, hpc, wpc, sentTo, since>>
    BY <1>5 DEF ReadFrame, hubVars, closeVars
  <2>2. CASE UNCHANGED sendVars
    BY <2>1, <2>2, QuietKeeps DEF Quiet
  <2>3. ASSUME NEW u \in Users, CopyTargets(R(c), clients[u], Other) PROVE EInv'
    <3>1. clients[u] \in SUBSET Conns /\ R(c) \in Senders \ {Sub}
      BY <1>0, ProcTypes DEF TypeOK
    <3>2. QED BY <2>1, <2>3, <3>1, ClientsAdded, StreamCopy
  <2>4. QED BY <1>5, <2>2, <2>3 DEF ReadFrame
<1>6. QED BY <1>1, <1>2, <1>3, <1>4, <1>5 DEF Reader

\* A Redis event: the user's clients owe nothing but the new event.
LEMMA StreamEvent ==
  ASSUME EInv, TypeOK', NEW u \in Users, SubscriberEvent(u)
  PROVE  EInv'
<1> USE DEF hubVars, connVars, closeVars, pcVars
<1>0. TypeOK /\ UserOf \in [Conns -> Users] /\ Sub \in Senders /\ sentTo[u] \in Nat /\ NoConn \notin Conns
  BY ConstantsAssumption, ProcTypes DEF EInv, TypeOK
<1>1. /\ pending[Sub] = {} /\ loaded[Sub] = NoConn
      /\ sentTo' = [sentTo EXCEPT ![u] = @ + 1]
      /\ pending' = [pending EXCEPT ![Sub] = clients[u]]
      /\ frame' = [frame EXCEPT ![Sub] = sentTo[u] + 1]
      /\ UNCHANGED <<loaded, chan, wire, stage, clients, hpc, wpc, since>>
  BY DEF SubscriberEvent, SenderIdle, CopyTargets
<1>2. /\ pending'[Sub] = clients[u] /\ frame'[Sub] = sentTo[u] + 1 /\ sentTo'[u] = sentTo[u] + 1
      /\ \A v \in Users : v # u => sentTo'[v] = sentTo[v]
      /\ \A p \in Senders \ {Sub} : pending'[p] = pending[p] /\ frame'[p] = frame[p]
  BY <1>0, <1>1 DEF TypeOK
<1>3. \A d \in clients[u] : UserOf[d] = u /\ d \in Conns
  BY <1>0 DEF EInv, PushInv, TypeOK
<1>4. PushInv'
  <2>1. NoConn \notin clients[u]
    BY <1>0, <1>3
  <2>2. QED BY <1>0, <1>1, <1>2, <1>3, <2>1 DEF EInv, PushInv
<1>5. FreshInv' /\ WriterAfterHandler'
  BY <1>0, <1>1, <1>2, ClientsAdded DEF EInv, FreshInv, WriterAfterHandler
<1>6. WireHasNoGap'
  BY <1>1 DEF EInv, WireHasNoGap
<1>7. ASSUME NEW c \in Conns, wpc'[c] \in Live PROVE Stream(c)'
  <2>1. PICK n \in Nat : Covers(chan[c], Written(c), n) /\ Reaches(c, n)
    BY <1>1, <1>7 DEF EInv, StreamInv, Stream
  <2>2. Covers(chan[c], Written(c), n)'
    BY <1>1, <2>1 DEF Covers, Written, EventSlots
  <2>3. loaded'[Sub] # c
    BY <1>0, <1>1
  <2>4. (c \in pending'[Sub] /\ stage'[c] = "open") => n + 1 = frame'[Sub]
    BY <1>0, <1>1, <1>2, <1>3, <2>1 DEF Reaches
  <2>5. (c \in clients'[UserOf[c]] /\ c \notin pending'[Sub]) => UserOf[c] # u
    BY <1>1, <1>2
  <2>6. Reaches(c, n)'
    BY <1>0, <1>1, <1>2, <2>1, <2>3, <2>4, <2>5 DEF Reaches
  <2>7. QED BY <2>2, <2>6 DEF Stream
<1>8. QED BY <1>4, <1>5, <1>6, <1>7 DEF EInv, StreamInv

\* closed.Load(): the subscriber now owes its event to a client it found open.
LEMMA StreamCheck ==
  ASSUME EInv, TypeOK', NEW p \in Senders, NEW c \in Conns, EnqueueCheck(p, c)
  PROVE  EInv'
<1> USE DEF hubVars, connVars, closeVars, pcVars, eventVars
<1>0. TypeOK /\ Sub \in Senders /\ NoConn \notin Conns
  BY ConstantsAssumption, ProcTypes DEF EInv
<1>1. /\ loaded[p] = NoConn /\ c \in pending[p]
      /\ pending' = [pending EXCEPT ![p] = @ \ {c}]
      /\ loaded' = [loaded EXCEPT ![p] = IF Closed(c) THEN NoConn ELSE c]
      /\ UNCHANGED <<frame, chan, wire, stage, clients, hpc, wpc, sentTo, since>>
  BY DEF EnqueueCheck
<1>2. /\ pending'[p] = pending[p] \ {c} /\ loaded'[p] = IF Closed(c) THEN NoConn ELSE c
      /\ \A r \in Senders \ {p} : pending'[r] = pending[r] /\ loaded'[r] = loaded[r]
  BY <1>0, <1>1 DEF TypeOK
<1>3. PushInv'
  <2>1. CASE p = Sub
    <3>1. loaded'[Sub] \notin pending'[Sub]
      BY <1>0, <1>2, <2>1 DEF TypeOK
    <3>2. \A d \in Conns : (d \in pending'[Sub] \/ loaded'[Sub] = d) => d \in pending[Sub]
      BY <1>0, <1>1, <1>2, <2>1
    <3>3. QED BY <1>1, <3>1, <3>2 DEF EInv, PushInv
  <2>2. CASE p # Sub
    BY <1>0, <1>1, <1>2, <2>2 DEF EInv, PushInv
  <2>3. QED BY <2>1, <2>2
<1>4. FreshInv' /\ WriterAfterHandler'
  <2>1. \A d \in Conns : hpc[d] = "none" =>
          \A r \in Senders : d \notin pending'[r] /\ loaded'[r] # d
    BY <1>0, <1>1, <1>2 DEF EInv, FreshInv
  <2>2. QED BY <1>1, <2>1 DEF EInv, FreshInv, WriterAfterHandler
<1>5. WireHasNoGap'
  BY <1>1 DEF EInv, WireHasNoGap
<1>6. ASSUME NEW d \in Conns, wpc'[d] \in Live PROVE Stream(d)'
  <2>1. PICK n \in Nat : Covers(chan[d], Written(d), n) /\ Reaches(d, n)
    BY <1>1, <1>6 DEF EInv, StreamInv, Stream
  <2>2. Covers(chan[d], Written(d), n)'
    BY <1>1, <2>1 DEF Covers, Written, EventSlots
  <2>3. Reaches(d, n)'
    <3>1. CASE p # Sub
      BY <1>0, <1>1, <1>2, <2>1, <3>1 DEF Reaches
    <3>2. CASE p = Sub /\ Closed(c)
      BY <1>0, <1>1, <1>2, <2>1, <3>2 DEF Reaches, Closed
    <3>3. CASE p = Sub /\ ~Closed(c)
      BY <1>0, <1>1, <1>2, <2>1, <3>3 DEF Reaches, Closed
    <3>4. QED BY <3>1, <3>2, <3>3
  <2>4. QED BY <2>2, <2>3 DEF Stream
<1>7. QED BY <1>3, <1>4, <1>5, <1>6 DEF EInv, StreamInv

\* The send: the subscriber's frame extends the stream by its next event, any
\* other frame leaves it alone, and a full queue closes the client.
LEMMA StreamSend ==
  ASSUME EInv, TypeOK', NEW p \in Senders, EnqueueSend(p)
  PROVE  EInv'
<1>1. PICK c \in Conns : c = loaded[p]
  BY DEF EInv, TypeOK, EnqueueSend
<1>2. /\ TypeOK /\ Sub \in Senders /\ NoConn \notin Conns
      /\ c = loaded[p] /\ chan[c] \in Seq(Nat) /\ UserOf[c] \in Users
  BY <1>1, ConstantsAssumption, ProcTypes DEF EInv, TypeOK
<1>3. /\ loaded' = [loaded EXCEPT ![p] = NoConn]
      /\ UNCHANGED <<frame, clients, wire, wpc, sentTo, since>>
  BY DEF EnqueueSend, hubVars, eventVars
<1>4. \/ SendClosed(c) /\ SendPanics(p) /\ UNCHANGED <<chan, stage>>
      \/ /\ chan' = [chan EXCEPT ![c] = Append(@, frame[p])]
         /\ UNCHANGED <<stage, hpc, pending>>
      \/ CloseWith(p, c) /\ UNCHANGED <<chan, hpc, pending>>
  BY <1>1, Zenon DEF EnqueueSend, DropSlow, closeVars
<1>5. /\ loaded'[p] = NoConn
      /\ \A r \in Senders \ {p} : loaded'[r] = loaded[r]
  BY <1>2, <1>3 DEF TypeOK
<1>6. /\ pending'[Sub] = pending[Sub]
      /\ \A r \in Senders : pending'[r] \subseteq pending[r]
  <2>1. CASE UNCHANGED pending
    BY <2>1
  <2>2. CASE pending' # pending
    <3>1. pending' = [pending EXCEPT ![p] = {}] /\ p[1] = "handler"
      BY <1>4, <2>2 DEF SendPanics
    <3>2. p # Sub
      BY <3>1 DEF Sub
    <3>3. QED BY <1>2, <3>1, <3>2 DEF TypeOK
  <2>3. QED BY <2>1, <2>2
<1>7. PushInv'
  <2>1. \A d \in Conns : loaded'[Sub] = d => loaded[Sub] = d
    BY <1>2, <1>5
  <2>2. loaded'[Sub] \notin pending'[Sub]
    <3>1. NoConn \notin pending[Sub]
      BY <1>2 DEF TypeOK
    <3>2. QED BY <1>2, <1>5, <1>6, <3>1 DEF EInv, PushInv
  <2>3. QED BY <1>3, <1>6, <2>1, <2>2 DEF EInv, PushInv
<1>8. \A d \in Conns : hpc'[d] \in {"none", "added"} => hpc'[d] = hpc[d]
  BY <1>2, <1>4 DEF SendPanics, TypeOK
<1>9. hpc[c] # "none"
  BY <1>2 DEF EInv, FreshInv
<1>10. \A d \in Conns : d # c => chan'[d] = chan[d]
  BY <1>2, <1>4 DEF TypeOK
<1>11. FreshInv' /\ WriterAfterHandler'
  <2>1. \A d \in Conns : \A r \in Senders : loaded'[r] = d => loaded[r] = d
    BY <1>2, <1>5
  <2>2. ASSUME NEW d \in Conns, hpc'[d] = "none"
        PROVE  /\ wire'[d] = <<>> /\ chan'[d] = <<>> /\ wpc'[d] = "none"
               /\ \A u \in Users : d \notin clients'[u]
               /\ \A r \in Senders : d \notin pending'[r] /\ loaded'[r] # d
    <3>1. hpc[d] = "none" /\ d # c
      BY <1>8, <1>9, <2>2
    <3>2. QED BY <1>3, <1>6, <1>10, <2>1, <3>1 DEF EInv, FreshInv
  <2>3. QED BY <1>3, <1>8, <2>2 DEF EInv, FreshInv, WriterAfterHandler
<1>12. WireHasNoGap'
  BY <1>3 DEF EInv, WireHasNoGap
<1>13. \A d \in Conns : stage'[d] = "open" => stage[d] = "open"
  BY <1>2, <1>4, CloseWithCloses
<1>14. ASSUME NEW d \in Conns, wpc'[d] \in Live, d # c PROVE Stream(d)'
  <2>1. PICK n \in Nat : Covers(chan[d], Written(d), n) /\ Reaches(d, n)
    BY <1>3, <1>14 DEF EInv, StreamInv, Stream
  <2>2. Covers(chan[d], Written(d), n)'
    BY <1>3, <1>10, <1>14, <2>1 DEF Covers, Written, EventSlots
  <2>3. loaded'[Sub] = d <=> loaded[Sub] = d
    BY <1>2, <1>5, <1>14
  <2>4. Reaches(d, n)'
    BY <1>3, <1>6, <1>13, <2>1, <2>3 DEF Reaches
  <2>5. QED BY <2>2, <2>4 DEF Stream
<1>15. ASSUME wpc'[c] \in Live PROVE Stream(c)'
  <2>1. PICK n \in Nat : Covers(chan[c], Written(c), n) /\ Reaches(c, n)
    BY <1>2, <1>3, <1>15 DEF EInv, StreamInv, Stream
  <2>2. Written(c) \in Nat
    <3>1. since[c] \in Nat /\ wire[c] \in Seq(Nat) BY <1>2 DEF TypeOK
    <3>2. QED BY <3>1 DEF Written
  <2>3. CASE p # Sub
    <3>1. frame[p] = Other
      BY <2>3 DEF EInv, PushInv
    <3>2. chan'[c] = chan[c] \/ chan'[c] = Append(chan[c], Other)
      BY <1>2, <1>4, <3>1 DEF TypeOK
    <3>3. Covers(chan'[c], Written(c), n)
      BY <1>2, <2>1, <2>2, <3>2, CoversAppend
    <3>4. Covers(chan[c], Written(c), n)'
      BY <1>3, <3>3 DEF Covers, Written, EventSlots
    <3>5. loaded'[Sub] = loaded[Sub]
      BY <1>2, <1>5, <2>3
    <3>6. Reaches(c, n)'
      BY <1>3, <1>6, <1>13, <2>1, <3>5 DEF Reaches
    <3>7. QED BY <3>4, <3>6 DEF Stream
  <2>4. CASE p = Sub /\ stage'[c] # "open" /\ chan' = chan
    <3>1. Covers(chan[c], Written(c), n)'
      BY <1>3, <2>1, <2>4 DEF Covers, Written, EventSlots
    <3>2. Reaches(c, n)'
      BY <1>2, <1>5, <2>4 DEF Reaches
    <3>3. QED BY <3>1, <3>2 DEF Stream
  <2>5. CASE p = Sub /\ chan' = [chan EXCEPT ![c] = Append(@, frame[p])]
    <3>1. n + 1 = frame[Sub] /\ frame[Sub] = sentTo[UserOf[c]] /\ c \notin pending[Sub]
      BY <1>2, <2>1, <2>5 DEF Reaches, EInv, PushInv
    <3>2. chan'[c] = Append(chan[c], n + 1)
      BY <1>2, <2>5, <3>1 DEF TypeOK
    <3>3. Covers(chan'[c], Written(c), n + 1)
      BY <1>2, <2>1, <2>2, <3>2, CoversAppend
    <3>4. Covers(chan[c], Written(c), n + 1)'
      BY <1>3, <3>3 DEF Covers, Written, EventSlots
    <3>5. Reaches(c, n + 1)'
      BY <1>2, <1>3, <1>5, <1>6, <2>5, <3>1 DEF Reaches
    <3>6. n + 1 \in Nat
      OBVIOUS
    <3>7. QED BY <3>4, <3>5, <3>6 DEF Stream
  <2>6. \/ stage'[c] # "open" /\ chan' = chan
        \/ chan' = [chan EXCEPT ![c] = Append(@, frame[p])]
    <3>1. CASE SendClosed(c) /\ UNCHANGED <<chan, stage>>
      BY <3>1 DEF SendClosed
    <3>2. CASE CloseWith(p, c) /\ UNCHANGED chan
      BY <1>2, <3>2 DEF CloseWith, Closed, closeVars, TypeOK
    <3>3. QED BY <1>4, <3>1, <3>2
  <2>7. QED BY <2>3, <2>4, <2>5, <2>6
<1>16. QED BY <1>7, <1>11, <1>12, <1>14, <1>15 DEF EInv, StreamInv

\* Every step preserves the invariant of the streams.
LEMMA StreamStep == EInv /\ [Next]_vars => EInv'
<1> SUFFICES ASSUME EInv, [Next]_vars PROVE EInv'
  OBVIOUS
<1>1. TypeOK'
  BY TypeStep DEF EInv
<1>2. CASE UNCHANGED vars
  BY <1>1, <1>2, QuietKeeps DEF vars, hubVars, connVars, closeVars, pcVars, sendVars, eventVars,
     Quiet
<1>3. ASSUME NEW p \in Senders, Enqueue(p) PROVE EInv'
  BY <1>1, <1>3, StreamCheck, StreamSend DEF Enqueue
<1>4. QED
  BY <1>1, <1>2, <1>3, NextCases, StreamEvent, StreamClosing, StreamHandler, StreamWriter,
     StreamReader

\* It holds initially.
LEMMA StreamInit == Init => EInv
<1> SUFFICES ASSUME Init PROVE EInv
  OBVIOUS
<1>0. UserOf \in [Conns -> Users] /\ NoConn \notin Conns /\ Sub \in Senders
  BY ConstantsAssumption, ProcTypes
<1>1. PushInv /\ FreshInv /\ WriterAfterHandler
  BY <1>0 DEF Init, PushInv, FreshInv, WriterAfterHandler
<1>2. WireHasNoGap
  BY DEF Init, WireHasNoGap
<1>3. ASSUME NEW c \in Conns PROVE Stream(c)
  <2>1. chan[c] = <<>> /\ Written(c) = 0 /\ loaded[Sub] # c /\ pending[Sub] = {}
        /\ sentTo[UserOf[c]] = 0
    BY <1>0 DEF Init, Written
  <2>2. Covers(chan[c], Written(c), 0)
    BY <2>1, CoversEmpty
  <2>3. Reaches(c, 0)
    BY <2>1 DEF Reaches
  <2>4. QED BY <2>2, <2>3 DEF Stream
<1>4. QED BY <1>1, <1>2, <1>3, TypeInit DEF EInv, StreamInv

\* A peer is served its user's events without a hole, in order, from the first
\* one after addClient: enqueueDropSlow drops the client, never the frame.
THEOREM NoGapOnTheWire == Spec => []WireHasNoGap
<1>1. EInv => WireHasNoGap
  BY DEF EInv
<1>2. QED BY <1>1, StreamInit, StreamStep, PTL DEF Spec

\* An open client that the subscriber is past misses none of its user's events:
\* each is on the wire or, once and in order, in the send queue, whichever
\* goroutines close, fill or drain that queue meanwhile.
THEOREM OpenClientComplete == Spec => []OpenClientIsComplete
<1>1. EInv => OpenClientIsComplete
  <2> SUFFICES ASSUME EInv, NEW c \in Conns,
                      c \in clients[UserOf[c]], stage[c] = "open", wpc[c] \in {"none", "run"},
                      c \notin pending[Sub], loaded[Sub] # c
               PROVE  LET slots == EventSlots(chan[c])
                      IN  /\ {chan[c][i] : i \in slots} = Written(c) + 1 .. sentTo[UserOf[c]]
                          /\ Written(c) <= sentTo[UserOf[c]]
                          /\ \A i, j \in slots : i < j => chan[c][i] < chan[c][j]
    BY DEF OpenClientIsComplete
  <2>1. PICK n \in Nat : Covers(chan[c], Written(c), n) /\ Reaches(c, n)
    BY DEF EInv, StreamInv, Stream, Live
  <2>2. n = sentTo[UserOf[c]]
    BY <2>1 DEF Reaches
  <2>3. Written(c) \in Nat /\ chan[c] \in Seq(Nat)
    BY DEF EInv, TypeOK, Written
  <2>4. \A i \in EventSlots(chan[c]) : chan[c][i] \in Nat
    BY <2>3 DEF EventSlots
  <2>5. {chan[c][i] : i \in EventSlots(chan[c])} = Written(c) + 1 .. n
    BY <2>1, <2>3, <2>4 DEF Covers
  <2>6. QED BY <2>1, <2>2, <2>5 DEF Covers
<1>2. QED BY <1>1, StreamInit, StreamStep, PTL DEF Spec
=============================================================================
