-------------------------- MODULE WebClientProofs --------------------------
(***************************************************************************)
(* Proofs about the web client, for any number of calls, tabs, operations    *)
(* and failures: about WebSocketHook, then KeyExchange, then ChatClient.     *)
(*                                                                         *)
(* The hook: without an overtaken call it is in one of three states, a call  *)
(* waiting for its ticket, a current socket, or a timer, and each of them    *)
(* ends by entering another: the ticket becomes the current socket, the      *)
(* close event of the current socket sets the timer, the timer calls         *)
(* connect().  After the cleanup it is in none of them.                      *)
(***************************************************************************)
EXTENDS WebSocketHook, KeyExchange, ChatClient,
        FiniteSetTheorems, WellFoundedInduction, TLAPS

\* At most one call, socket or timer is in charge.
OneInCharge ==
    ~overlap =>
        /\ Live \subseteq {ws} /\ timers \subseteq {reconnTimer}
        /\ \A a, b \in waiting : a = b
        /\ waiting # {} => ws = None /\ timers = {}
        /\ ws # None => timers = {}
        /\ ~enabled => ws = None /\ timers = {} /\ waiting = {}

IInv == TypeOK /\ OneInCharge

\* The type invariant is preserved by every step.
LEMMA NextTypeOK == TypeOK /\ [Next]_vars => TypeOK'
<1> SUFFICES ASSUME TypeOK, [Next]_vars PROVE TypeOK'
  OBVIOUS
<1> USE HookAssumption
<1>c. CloseCurrent \in [Calls -> {"none", "opening", "open", "closing", "closed"}]
  BY DEF CloseCurrent, TypeOK
<1>1. ASSUME NEW k \in Calls, Login(k) PROVE TypeOK'
  <2>1. /\ timers' = timers \ {None, reconnTimer} /\ reconnTimer' = None
        /\ sock' = [CloseCurrent EXCEPT ![k] = "none"] /\ ws' = None
        /\ waiting' = waiting \cup {k} /\ overlap' = (overlap \/ waiting # {})
    BY <1>1 DEF Login, Connect
  <2>2. sock' \in [Calls -> {"none", "opening", "open", "closing", "closed"}]
    BY <1>c, <2>1
  <2>3. overlap' \in BOOLEAN
    BY <2>1
  <2>4. QED
    BY <1>1, <2>1, <2>2, <2>3 DEF Login, TypeOK
<1>2. CASE Restored \/ TokenCleared
  BY <1>2 DEF Restored, TokenCleared, refs, TypeOK
<1>3. CASE Cleanup
  BY <1>3 DEF Cleanup, CloseCurrent, TypeOK
<1>4. ASSUME NEW k \in Calls, TicketArrives(k) PROVE TypeOK'
  BY <1>4 DEF TicketArrives, TypeOK
<1>5. ASSUME NEW k \in Calls, TicketFails(k) PROVE TypeOK'
  BY <1>5 DEF TicketFails, SetTimer, TypeOK
<1>6. ASSUME NEW k \in Calls, SocketOpens(k) PROVE TypeOK'
  BY <1>6 DEF SocketOpens, TypeOK
<1>7. ASSUME NEW k \in Calls, CloseEvent(k) \/ SocketDrops(k) PROVE TypeOK'
  BY <1>7 DEF CloseEvent, SocketDrops, Closed, SetTimer, TypeOK
<1>8. ASSUME NEW k \in Calls, TimerFires(k) PROVE TypeOK'
  BY <1>8 DEF TimerFires, Connect, CloseCurrent, TypeOK
<1>9. CASE UNCHANGED vars
  BY <1>9 DEF vars, refs, TypeOK
<1>10. QED
  BY <1>1, <1>2, <1>3, <1>4, <1>5, <1>6, <1>7, <1>8, <1>9 DEF Next, Progress

\* A call of connect() that is not overtaken leaves itself alone in charge.
LEMMA ConnectInCharge ==
  ASSUME IInv, NEW k \in Calls, NEW fired, fired = None \/ fired \in timers,
         Connect(k, fired), ~overlap', token', enabled'
  PROVE  OneInCharge'
<1> USE HookAssumption
<1>1. ~overlap /\ waiting = {} /\ waiting' = {k} /\ ws' = None
  BY DEF Connect, IInv, TypeOK
<1>2. timers' = {}
  BY <1>1 DEF Connect, IInv, OneInCharge
<1>3. Live' = {}
  <2>1. sock' = [CloseCurrent EXCEPT ![k] = "none"]
    BY DEF Connect
  <2>2. \A x \in Calls : CloseCurrent[x] \notin {"opening", "open"}
    BY <1>1 DEF CloseCurrent, Live, IInv, OneInCharge
  <2>3. \A x \in Calls : sock'[x] = "none" \/ sock'[x] = CloseCurrent[x]
    BY <2>1 DEF CloseCurrent
  <2>4. QED
    BY <2>2, <2>3 DEF Live
<1>4. QED
  BY <1>1, <1>2, <1>3 DEF OneInCharge

\* Every step preserves the invariant.
LEMMA NextIInv == IInv /\ [Next]_vars => IInv'
<1> SUFFICES ASSUME IInv, [Next]_vars PROVE IInv'
  OBVIOUS
<1> USE HookAssumption
<1>t. TypeOK /\ TypeOK' /\ OneInCharge
  BY NextTypeOK DEF IInv
<1> SUFFICES OneInCharge'
  BY <1>t DEF IInv
<1>1. ASSUME NEW k \in Calls, Login(k) PROVE OneInCharge'
  <2>1. CASE overlap'
    BY <2>1 DEF OneInCharge
  <2>2. CASE ~overlap'
    BY <1>1, <2>2, ConnectInCharge DEF Login
  <2>3. QED
    BY <2>1, <2>2
<1>2. CASE Restored \/ TokenCleared
  BY <1>t, <1>2 DEF Restored, TokenCleared, refs, OneInCharge, Live
<1>3. CASE Cleanup
  <2>1. SUFFICES ASSUME ~overlap' PROVE OneInCharge'
    BY DEF OneInCharge
  <2>2. ~overlap /\ waiting = {} /\ waiting' = {} /\ ws' = None
    BY <1>t, <1>3, <2>1 DEF Cleanup, TypeOK
  <2>3. timers' = {}
    BY <1>t, <1>3, <2>2 DEF Cleanup, OneInCharge
  <2>4. Live' = {}
    BY <1>t, <1>3, <2>2 DEF Cleanup, CloseCurrent, Live, OneInCharge, TypeOK
  <2>5. QED
    BY <2>2, <2>3, <2>4 DEF OneInCharge
<1>4. ASSUME NEW k \in Calls, TicketArrives(k) PROVE OneInCharge'
  BY <1>t, <1>4 DEF TicketArrives, OneInCharge, Live, TypeOK
<1>5. ASSUME NEW k \in Calls, TicketFails(k) PROVE OneInCharge'
  BY <1>t, <1>5 DEF TicketFails, SetTimer, OneInCharge, Live, TypeOK
<1>6. ASSUME NEW k \in Calls, SocketOpens(k) PROVE OneInCharge'
  BY <1>t, <1>6 DEF SocketOpens, OneInCharge, Live, TypeOK
<1>7. ASSUME NEW k \in Calls, CloseEvent(k) \/ SocketDrops(k) PROVE OneInCharge'
  <2>1. SUFFICES ASSUME ~overlap' PROVE OneInCharge'
    BY DEF OneInCharge
  <2>2. ~overlap /\ UNCHANGED <<enabled, waiting>> /\ sock' = [sock EXCEPT ![k] = "closed"]
    BY <1>7, <2>1 DEF CloseEvent, SocketDrops, Closed
  <2>3. Live' = Live \ {k}
    BY <1>t, <2>2 DEF Live, TypeOK
  <2>4. CASE ws = k
    BY <1>t, <1>7, <2>2, <2>3, <2>4 DEF CloseEvent, SocketDrops, Closed, SetTimer, OneInCharge,
       TypeOK
  <2>5. CASE ws # k
    BY <1>t, <1>7, <2>2, <2>3, <2>5 DEF CloseEvent, SocketDrops, Closed, SetTimer, OneInCharge
  <2>6. QED
    BY <2>4, <2>5
<1>8. ASSUME NEW k \in Calls, TimerFires(k) PROVE OneInCharge'
  <2>1. CASE overlap'
    BY <2>1 DEF OneInCharge
  <2>2. CASE ~overlap' /\ token'
    <3>1. ~overlap /\ enabled'
      BY <1>t, <1>8, <2>2 DEF TimerFires, Connect, OneInCharge, TypeOK
    <3>2. QED
      BY <1>8, <2>2, <3>1, ConnectInCharge DEF TimerFires
  <2>3. CASE ~overlap' /\ ~token'
    BY <1>t, <1>8, <2>3 DEF TimerFires, Connect, OneInCharge, Live
  <2>4. QED
    BY <2>1, <2>2, <2>3
<1>9. CASE UNCHANGED vars
  BY <1>t, <1>9 DEF vars, refs, OneInCharge, Live
<1>10. QED
  BY <1>t, <1>1, <1>2, <1>3, <1>4, <1>5, <1>6, <1>7, <1>8, <1>9 DEF Next, Progress

\* The invariant holds initially, hence throughout.
LEMMA Invariant == Spec => []IInv
<1>1. Init => IInv
  <2> SUFFICES ASSUME Init PROVE IInv
    OBVIOUS
  <2>1. TypeOK
    <3>1. enabled \in BOOLEAN /\ restoring \in BOOLEAN
      BY DEF Init
    <3>2. /\ token \in BOOLEAN /\ should \in BOOLEAN /\ overlap \in BOOLEAN
          /\ ws \in Calls \cup {None} /\ reconnTimer \in Calls \cup {None}
          /\ timers \subseteq Calls /\ waiting \subseteq Calls /\ ws = None
      BY DEF Init
    <3>3. logins \in 0 .. MaxLogins /\ drops \in 0 .. MaxDrops
      BY HookAssumption DEF Init
    <3>4. sock \in [Calls -> {"none", "opening", "open", "closing", "closed"}]
      BY DEF Init
    <3>5. QED
      BY <3>1, <3>2, <3>3, <3>4 DEF TypeOK
  <2>2. OneInCharge
    BY DEF Init, OneInCharge, Live
  <2>3. QED
    BY <2>1, <2>2 DEF IInv
<1>2. QED
  BY <1>1, NextIInv, PTL DEF Spec

\* useWebSocket is type correct; in particular ws.current is never a socket that
\* has been closed.
THEOREM TypeCorrect == Spec => []TypeOK
<1>1. IInv => TypeOK
  BY DEF IInv
<1>2. QED
  BY <1>1, Invariant, PTL

\* For any number of logins and failures: unless a connect() is overtaken in its
\* wait for a ticket, one socket is alive and the cleanup of useWebSocket leaves
\* neither a socket nor a timer behind.
THEOREM OneSocket == Spec => []OneSocketUnlessOvertaken
<1>1. IInv => OneSocketUnlessOvertaken
  BY HookAssumption DEF IInv, OneInCharge, OneSocketUnlessOvertaken, Live
<1>2. QED
  BY <1>1, Invariant, PTL

-----------------------------------------------------------------------------
(***************************************************************************)
(* The end-to-end keys, which the key_changed frames of that socket keep in   *)
(* step, for any number of tabs, browsers, users and calls.  Of two users     *)
(* who write to each other one side at most holds a secret, since whoever     *)
(* derives one has just announced a key; from that it follows that a stale    *)
(* secret is noticed.                                                       *)
(***************************************************************************)

\* What a call that is at a step must have: a key pair to upload or derive from,
\* and the peer's key, which publishKey does not ask for.
GoodCall(k, r) ==
    /\ r.pc \in {"upload", "derive"} => r.mine # None
    /\ k = "pub" => r.pc \in {"idle", "idb", "put", "upload"}
    /\ k = "get" => r.pc # "idb" /\ (r.pc \in {"put", "upload", "derive"} => r.theirs # None)

CallSteps == \A t \in Tabs, k \in Kinds : GoodCall(k, call[t][k])

\* The tab has a secret, or is about to derive it, and nothing is about to evict it.
HoldsSecret(t) ==
    /\ st[t] = "in" /\ t \notin pushes
    /\ \/ cache[t] # None /\ ~cache[t].late
       \/ call[t]["get"].pc = "derive" /\ ~call[t]["get"].told

\* Of two users one side at most holds a secret: whoever derives one has just
\* announced a key, and so has the other side evict its own.
OneSideHolds ==
    ~lost => \A t, s \in Tabs : Own(s) = Peer(t) => ~(HoldsSecret(t) /\ HoldsSecret(s))

KInv == KeyTypeOK /\ CallSteps /\ OneSideHolds

CallPcs == {"idle", "check", "idb", "put", "upload", "derive"}
RecOf(K) == [pc : CallPcs, mine : K, theirs : K, told : BOOLEAN]
CallsOf(K) == [Tabs -> [Kinds -> RecOf(K)]]

\* What a step does to the calls: a record is replaced, or some of its fields.
Replaced(c, t, k, r)     == [c EXCEPT ![t][k] = r]
Continued(c, t, k, p)    == [c EXCEPT ![t][k].pc = p]
FoundKey(c, t, k, m, p)  == [c EXCEPT ![t][k].mine = m, ![t][k].pc = p]
Told(c, t, k)            == [c EXCEPT ![t][k].told = TRUE]

OthersKept(c, d, t, k) == \A s \in Tabs, l \in Kinds : s # t \/ l # k => d[s][l] = c[s][l]

\* A call's record is replaced.
LEMMA CallReplaced ==
    ASSUME NEW K, NEW c \in CallsOf(K), NEW t \in Tabs, NEW k \in Kinds,
           NEW r \in RecOf(K), NEW d, d = Replaced(c, t, k, r)
    PROVE  d \in CallsOf(K) /\ d[t][k] = r /\ OthersKept(c, d, t, k)
  BY DEF CallsOf, Replaced, OthersKept

\* A call goes on: its step alone changes.
LEMMA CallContinued ==
    ASSUME NEW K, NEW c \in CallsOf(K), NEW t \in Tabs, NEW k \in Kinds, NEW p \in CallPcs,
           NEW d,
           d = Continued(c, t, k, p)
    PROVE  /\ d \in CallsOf(K) /\ d[t][k].pc = p
           /\ d[t][k].mine = c[t][k].mine
           /\ d[t][k].theirs = c[t][k].theirs /\ d[t][k].told = c[t][k].told
           /\ OthersKept(c, d, t, k)
<1> DEFINE r == [c[t][k] EXCEPT !.pc = p]
<1>1. r \in RecOf(K)
  <2>1. c[t][k] \in RecOf(K)
    BY DEF CallsOf
  <2> QED BY <2>1 DEF RecOf
<1>2. Continued(c, t, k, p) = Replaced(c, t, k, r)
  BY DEF Continued, Replaced, CallsOf
<1>3. r.pc = p
           /\ r.mine = c[t][k].mine /\ r.theirs = c[t][k].theirs /\ r.told = c[t][k].told
  BY DEF RecOf, CallsOf
<1> HIDE DEF r
<1>4. d \in CallsOf(K) /\ d[t][k] = r /\ OthersKept(c, d, t, k)
  BY <1>1, <1>2, CallReplaced
<1> QED BY <1>3, <1>4

\* A call has found, or generated, the own key pair.
LEMMA CallFound ==
    ASSUME NEW K, NEW c \in CallsOf(K), NEW t \in Tabs, NEW k \in Kinds,
           NEW p \in CallPcs, NEW m \in K, NEW d,
           d = FoundKey(c, t, k, m, p)
    PROVE  /\ d \in CallsOf(K) /\ d[t][k].mine = m /\ d[t][k].pc = p
           /\ d[t][k].theirs = c[t][k].theirs /\ d[t][k].told = c[t][k].told
           /\ OthersKept(c, d, t, k)
<1> DEFINE r == [c[t][k] EXCEPT !.mine = m, !.pc = p]
<1>1. r \in RecOf(K)
  <2>1. c[t][k] \in RecOf(K)
    BY DEF CallsOf
  <2> QED BY <2>1 DEF RecOf
<1>2. FoundKey(c, t, k, m, p) = Replaced(c, t, k, r)
  BY DEF FoundKey, Replaced, CallsOf
<1>3. r.mine = m /\ r.pc = p
           /\ r.theirs = c[t][k].theirs /\ r.told = c[t][k].told
  BY DEF RecOf, CallsOf
<1> HIDE DEF r
<1>4. d \in CallsOf(K) /\ d[t][k] = r /\ OthersKept(c, d, t, k)
  BY <1>1, <1>2, CallReplaced
<1> QED BY <1>3, <1>4

\* An eviction overtakes a call.
LEMMA CallTold ==
    ASSUME NEW K, NEW c \in CallsOf(K), NEW t \in Tabs, NEW k \in Kinds, NEW d,
           d = Told(c, t, k)
    PROVE  /\ d \in CallsOf(K) /\ d[t][k].told
           /\ d[t][k].pc = c[t][k].pc
           /\ d[t][k].mine = c[t][k].mine /\ d[t][k].theirs = c[t][k].theirs
           /\ OthersKept(c, d, t, k)
<1> DEFINE r == [c[t][k] EXCEPT !.told = TRUE]
<1>1. r \in RecOf(K)
  <2>1. c[t][k] \in RecOf(K)
    BY DEF CallsOf
  <2> QED BY <2>1 DEF RecOf
<1>2. Told(c, t, k) = Replaced(c, t, k, r)
  BY DEF Told, Replaced, CallsOf
<1>3. r.told
           /\ r.pc = c[t][k].pc /\ r.mine = c[t][k].mine /\ r.theirs = c[t][k].theirs
  BY DEF RecOf, CallsOf
<1> HIDE DEF r
<1>4. d \in CallsOf(K) /\ d[t][k] = r /\ OthersKept(c, d, t, k)
  BY <1>1, <1>2, CallReplaced
<1> QED BY <1>3, <1>4

-----------------------------------------------------------------------------
KeyCalls == CallsOf(KeyOrNot)

\* The types of the calls, as TypeOK gives them.
LEMMA CallsTyped ==
    ASSUME KeyTypeOK
    PROVE  call \in KeyCalls
  BY DEF KeyTypeOK, KeyCalls, CallsOf, RecOf, CallPcs

\* Own and Peer are users, and each other's.
LEMMA UsersOf ==
    ASSUME NEW t \in Tabs
    PROVE  /\ Own(t) \in Users /\ Peer(t) \in Users /\ BrowserOf[t] \in Browsers
           /\ Peer(t) = PeerOf[Own(t)] /\ PeerOf[Peer(t)] = Own(t) /\ Peer(t) # Own(t)
  BY KeyAssumption DEF Own, Peer, Users, Browsers

\* One call is at another step.
LEMMA OneCallGood ==
    ASSUME CallSteps, NEW t \in Tabs, NEW k \in Kinds, GoodCall(k, call'[t][k]),
           OthersKept(call, call', t, k)
    PROVE  CallSteps'
<1> SUFFICES ASSUME NEW s \in Tabs, NEW l \in Kinds
             PROVE  GoodCall(l, call'[s][l])
  BY DEF CallSteps, GoodCall
<1>1. CASE s = t /\ l = k
  BY <1>1
<1>2. CASE s # t \/ l # k
  BY <1>2 DEF CallSteps, OthersKept
<1> QED BY <1>1, <1>2

\* A step that has nobody get hold of a secret keeps one side without.
LEMMA NobodyGains ==
    ASSUME OneSideHolds, lost => lost', \A s \in Tabs : HoldsSecret(s)' => HoldsSecret(s)
    PROVE  OneSideHolds'
  BY DEF OneSideHolds, Own, Peer

\* The initial states satisfy KInv.
LEMMA KeyStart == KeyInit => KInv
<1> SUFFICES ASSUME KeyInit PROVE KInv
  OBVIOUS
<1>1. Idle = [pc |-> "idle", mine |-> None, theirs |-> None, told |-> FALSE]
  BY DEF Idle
<1>2. call \in KeyCalls /\ \A t \in Tabs, k \in Kinds : call[t][k] = Idle
  BY <1>1 DEF KeyInit, KeyCalls, CallsOf, RecOf, CallPcs, KeyOrNot
<1>3. nextKey = 3 /\ Keys = 1 .. 2
  BY DEF KeyInit, Keys
<1>4. \A u \in Users : First(u) \in Keys
  BY <1>3 DEF First
<1>5. stored \in [Browsers -> Users \cup {None}]
  <2>1. \A b \in Browsers : Own(CHOOSE t \in Tabs : BrowserOf[t] = b) \in Users
    BY DEF Browsers, Users, Own
  <2> QED BY <2>1 DEF KeyInit
<1>6. idb \in [Browsers -> [Users -> KeyOrNot]] /\ srv \in [Users -> Keys]
  BY <1>4 DEF KeyInit, KeyOrNot
<1>7. KeyTypeOK
  BY <1>1, <1>2, <1>3, <1>5, <1>6 DEF KeyInit, KeyTypeOK, KeyCalls, CallsOf, RecOf, CallPcs
<1>8. CallSteps
  BY <1>1, <1>2 DEF CallSteps, GoodCall
<1>9. OneSideHolds
  BY DEF OneSideHolds, HoldsSecret, KeyInit, Idle, Kinds
<1> QED BY <1>7, <1>8, <1>9 DEF KInv

-----------------------------------------------------------------------------
(* The steps.                                                               *)

\* The keys as long as none is generated.
LEMMA SameKeys ==
    ASSUME nextKey' = nextKey
    PROVE  Keys' = Keys /\ KeyOrNot' = KeyOrNot /\ KeyCalls' = KeyCalls
  BY DEF Keys, KeyOrNot, KeyCalls, CallsOf

CacheType == [Tabs -> [mine : Keys, theirs : Keys, late : BOOLEAN] \cup {None}]

\* A step that generates no key: what remains to be shown of the types.
LEMMA TypesStay ==
    ASSUME KeyTypeOK, nextKey' = nextKey, st' \in [Tabs -> {"out", "login", "in", "leaving"}],
           stored' \in [Browsers -> Users \cup {None}],
           wipe' \in [Tabs -> Users \cup {None}],
           idb' \in [Browsers -> [Users -> KeyOrNot]], srv' \in [Users -> Keys],
           cache' \in CacheType, call' \in KeyCalls, CallSteps', pushes' \subseteq Tabs
    PROVE  KeyTypeOK'
<1>1. Keys' = Keys /\ KeyOrNot' = KeyOrNot /\ nextKey' \in Nat
  BY SameKeys DEF KeyTypeOK
<1>2. \A t \in Tabs, k \in Kinds : 
        call'[t][k].pc \in {"upload", "derive"} => call'[t][k].mine # None
  BY DEF CallSteps, GoodCall
<1> QED BY <1>1, <1>2 DEF KeyTypeOK, CacheType, KeyCalls, CallsOf, RecOf, CallPcs

\* A step of one call that neither uploads nor derives.
LEMMA CallStep ==
    ASSUME KInv, NEW t \in Tabs, NEW k \in Kinds, call' \in KeyCalls,
           GoodCall(k, call'[t][k]),
           OthersKept(call, call', t, k),
           k = "get" => call'[t][k].pc # "derive",
           UNCHANGED <<tabs, idb, srv, cache, pushes, nextKey, lost>>
    PROVE  KInv'
<1>1. CallSteps'
  BY OneCallGood DEF KInv
<1>2. KeyTypeOK'
  BY <1>1, TypesStay DEF KInv, KeyTypeOK, tabs, CacheType
<1>3. ASSUME NEW s \in Tabs, HoldsSecret(s)' PROVE HoldsSecret(s)
  <2>1. CASE call'[s]["get"] = call[s]["get"]
    BY <2>1, <1>3 DEF HoldsSecret, tabs
  <2>2. CASE s = t /\ k = "get"
    BY <2>2, <1>3 DEF HoldsSecret, tabs
  <2> QED BY <2>1, <2>2 DEF Kinds, OthersKept
<1>4. OneSideHolds'
  BY <1>3, NobodyGains DEF KInv
<1> QED BY <1>1, <1>2, <1>4 DEF KInv

\* The record of no call is one of a call.
LEMMA IdleTyped == \A K : None \in K => Idle \in RecOf(K)
  BY DEF Idle, RecOf, CallPcs

\* A call ends.
LEMMA EndCall ==
    ASSUME KeyTypeOK, NEW t \in Tabs, NEW k \in Kinds, End(t, k)
    PROVE  /\ call' \in KeyCalls /\ call'[t][k] = Idle
           /\ OthersKept(call, call', t, k)
<1>1. call \in CallsOf(KeyOrNot) /\ Idle \in RecOf(KeyOrNot)
  BY CallsTyped, IdleTyped DEF KeyCalls, KeyOrNot
<1>2. call' = Replaced(call, t, k, Idle)
  BY DEF End, Replaced
<1> QED BY <1>1, <1>2, CallReplaced DEF KeyCalls

\* getSharedKey starts and asks for the peer's key.
LEMMA FetchStep ==
    ASSUME KInv, NEW t \in Tabs, FetchPeerKey(t)
    PROVE  KInv'
<1>1. PICK key \in {srv[Peer(t)]} \cup (IF "fetch" \in Faults THEN {None} ELSE {}) :
        call' = [call EXCEPT ![t]["get"] = [Idle EXCEPT !.pc = "check", !.theirs = key]]
  BY DEF FetchPeerKey
<1>2. key \in KeyOrNot
  BY UsersOf DEF KInv, KeyTypeOK, KeyOrNot
<1> DEFINE r == [Idle EXCEPT !.pc = "check", !.theirs = key]
<1>3. r \in RecOf(KeyOrNot) /\ r.pc = "check"
  BY <1>2 DEF Idle, RecOf, CallPcs, KeyOrNot
<1>4. call' = Replaced(call, t, "get", r) /\ "get" \in Kinds
  BY <1>1 DEF Kinds, Replaced
<1> HIDE DEF r
<1>5. /\ call' \in CallsOf(KeyOrNot) /\ call'[t]["get"] = r
      /\ OthersKept(call, call', t, "get")
  BY <1>3, <1>4, CallReplaced, CallsTyped DEF KInv, KeyCalls
<1>6. GoodCall("get", call'[t]["get"])
  BY <1>3, <1>5 DEF GoodCall
<1> QED BY <1>3, <1>4, <1>5, <1>6, CallStep DEF FetchPeerKey, KeyCalls

\* idbGet, which getOrCreateKeyPair begins with.
LEMMA IdbGetStep ==
    ASSUME KInv, NEW t \in Tabs, NEW k \in Kinds, IdbGet(t, k),
           k = "get" => call[t][k].theirs # None
    PROVE  KInv'
<1> DEFINE found == idb[BrowserOf[t]][Own(t)]
           p == IF found = None THEN "put" ELSE "upload"
<1>1. found \in KeyOrNot
  BY UsersOf DEF KInv, KeyTypeOK
<1>2. call' = FoundKey(call, t, k, found, p)
  <2>1. call' = [call EXCEPT ![t][k].mine = found,
                             ![t][k].pc = IF found = None THEN "put"
                                          ELSE IF k = "get" /\ found = None
                                               THEN "derive" ELSE "upload"]
    BY Zenon DEF IdbGet, OwnKeyOnServer
  <2> QED BY <2>1 DEF FoundKey
<1>3. p \in CallPcs /\ (p = "upload" => found # None) /\ p \in {"put", "upload"}
  BY DEF CallPcs
<1> HIDE DEF found, p
<1>4. /\ call' \in CallsOf(KeyOrNot) /\ call'[t][k].mine = found /\ call'[t][k].pc = p
      /\ call'[t][k].theirs = call[t][k].theirs /\ OthersKept(call, call', t, k)
  BY <1>1, <1>2, <1>3, CallFound, CallsTyped DEF KInv, KeyCalls
<1>6. GoodCall(k, call'[t][k]) /\ call'[t][k].pc # "derive"
  BY <1>3, <1>4 DEF GoodCall
<1>7. UNCHANGED <<tabs, idb, srv, cache, pushes, nextKey, lost>>
  BY DEF IdbGet
<1> QED BY <1>4, <1>6, <1>7, CallStep DEF KeyCalls

\* The answer is there: the cached secret is good, or getSharedKey goes on.
LEMMA CheckStep ==
    ASSUME KInv, NEW t \in Tabs, CheckCache(t)
    PROVE  KInv'
<1> "get" \in Kinds
  BY DEF Kinds
<1>1. CASE /\ End(t, "get")
           /\ UNCHANGED <<tabs, idb, srv, cache, pushes, nextKey, logouts, lost>>
  <2>1. /\ call' \in KeyCalls /\ call'[t]["get"] = Idle
        /\ OthersKept(call, call', t, "get")
    BY <1>1, EndCall DEF KInv
  <2>2. Idle.pc = "idle"
    BY DEF Idle
  <2>3. GoodCall("get", call'[t]["get"]) /\ call'[t]["get"].pc # "derive"
    BY <2>1, <2>2 DEF GoodCall
  <2> QED BY <1>1, <2>1, <2>3, CallStep
<1>2. CASE call[t]["get"].theirs # None /\ IdbGet(t, "get")
  BY <1>2, IdbGetStep
<1> QED BY <1>1, <1>2 DEF CheckCache

\* IdbPut: one more key pair.
LEMMA IdbPutStep ==
    ASSUME KInv, NEW t \in Tabs, NEW k \in Kinds, IdbPut(t, k)
    PROVE  KInv'
<1>1. nextKey \in Nat /\ nextKey' = nextKey + 1
  BY DEF IdbPut, KInv, KeyTypeOK
<1>2. /\ Keys \subseteq Keys'
      /\ KeyOrNot \subseteq KeyOrNot'
      /\ (nextKey \in Keys' \/ nextKey = 0)
  BY <1>1 DEF Keys, KeyOrNot
<1>a. nextKey # 0 /\ nextKey # None
  <2>1. srv[Own(t)] \in Keys
    BY UsersOf DEF KInv, KeyTypeOK
  <2> QED BY <1>1, <2>1, KeyAssumption DEF Keys
<1>3. call \in CallsOf(KeyOrNot')
  <2>1. RecOf(KeyOrNot) \subseteq RecOf(KeyOrNot')
    BY <1>2, <1>a DEF RecOf
  <2> QED BY <2>1, CallsTyped DEF KInv, KeyCalls, CallsOf
<1>4. call' = FoundKey(call, t, k, nextKey, "upload")
  BY DEF IdbPut, FoundKey
<1>5. nextKey \in KeyOrNot' /\ "upload" \in CallPcs
  BY <1>2, <1>a DEF KeyOrNot, CallPcs
<1>6. /\ call' \in CallsOf(KeyOrNot') /\ call'[t][k].mine = nextKey /\ call'[t][k].pc = "upload"
      /\ call'[t][k].theirs = call[t][k].theirs /\ OthersKept(call, call', t, k)
  BY <1>3, <1>4, <1>5, CallFound
<1>7. GoodCall(k, call'[t][k])
  <2>1. GoodCall(k, call[t][k]) /\ call[t][k].pc = "put"
    BY DEF KInv, CallSteps, IdbPut
  <2> QED BY <2>1, <1>6, <1>a DEF GoodCall
<1>8. CallSteps'
  BY <1>6, <1>7, OneCallGood DEF KInv
<1>9. KeyTypeOK'
  <2>1. idb' \in [Browsers -> [Users -> KeyOrNot']]
    <3>1. idb' = [idb EXCEPT ![BrowserOf[t]][Own(t)] = nextKey]
      BY DEF IdbPut
    <3>2. idb \in [Browsers -> [Users -> KeyOrNot']]
      BY <1>2, <1>a DEF KInv, KeyTypeOK
    <3> QED BY <3>1, <3>2, <1>5
  <2>2. srv' \in [Users -> Keys']
    BY <1>2, <1>a DEF KInv, KeyTypeOK, IdbPut
  <2>3. cache' \in [Tabs -> [mine : Keys', theirs : Keys', late : BOOLEAN] \cup {None}]
    <3>1. /\ cache' = cache
          /\ cache \in [Tabs -> [mine : Keys, theirs : Keys, late : BOOLEAN] \cup {None}]
      BY DEF KInv, KeyTypeOK, IdbPut
    <3>2. [mine : Keys, theirs : Keys, late : BOOLEAN]
            \subseteq [mine : Keys', theirs : Keys', late : BOOLEAN]
      BY <1>2, <1>a
    <3> QED BY <3>1, <3>2
  <2>4. call' \in [Tabs -> [Kinds -> RecOf(KeyOrNot')]]
    BY <1>6 DEF CallsOf
  <2>5. \A s \in Tabs,
  l \in Kinds : call'[s][l].pc \in {"upload", "derive"} => call'[s][l].mine # None
    BY <1>8 DEF CallSteps, GoodCall
  <2>6. /\ UNCHANGED <<st, stored, wipe, pushes>> /\ nextKey' \in Nat
    BY <1>1 DEF IdbPut, tabs
  <2> QED BY <2>1, <2>2, <2>3, <2>4, <2>5, <2>6 DEF KInv, KeyTypeOK, RecOf, CallPcs
<1>10. ASSUME NEW s \in Tabs, HoldsSecret(s)' PROVE HoldsSecret(s)
  <2>1. UNCHANGED <<st, cache, pushes>>
    BY DEF IdbPut, tabs
  <2>2. CASE call'[s]["get"] = call[s]["get"]
    BY <2>1, <2>2, <1>10 DEF HoldsSecret
  <2>3. CASE s = t /\ k = "get"
    BY <2>1, <2>3, <1>6, <1>10 DEF HoldsSecret
  <2> QED BY <2>2, <2>3, <1>6 DEF Kinds, OthersKept
<1>11. OneSideHolds'
  BY <1>10, NobodyGains DEF KInv, IdbPut
<1> QED BY <1>8, <1>9, <1>11 DEF KInv

\* What follows uploadPublicKey: publishKey is done, getSharedKey goes on.
LEMMA AfterUploadCall ==
    ASSUME KInv, NEW t \in Tabs, NEW k \in Kinds, call[t][k].pc = "upload",
           AfterUpload(t, k)
    PROVE  call' \in KeyCalls /\ CallSteps' /\ OthersKept(call, call', t, k)
<1>0. GoodCall(k, call[t][k])
  BY DEF KInv, CallSteps
<1>1. CASE k = "pub"
  <2>1. call' \in KeyCalls /\ call'[t][k] = Idle /\ OthersKept(call, call', t, k)
    BY <1>1, EndCall DEF KInv, AfterUpload
  <2>2. GoodCall(k, call'[t][k])
    BY <2>1, <1>1 DEF GoodCall, Idle
  <2> QED BY <2>1, <2>2, OneCallGood DEF KInv
<1>2. CASE k # "pub"
  <2>1. call' = Continued(call, t, k, "derive") /\ "derive" \in CallPcs
    BY <1>2 DEF AfterUpload, Continue, Continued, CallPcs
  <2>2. /\ call' \in KeyCalls /\ call'[t][k].pc = "derive" /\ call'[t][k].mine = call[t][k].mine
        /\ call'[t][k].theirs = call[t][k].theirs /\ OthersKept(call, call', t, k)
    BY <2>1, CallContinued, CallsTyped DEF KInv, KeyCalls
  <2>3. GoodCall(k, call'[t][k])
    BY <1>0, <1>2, <2>2 DEF GoodCall
  <2> QED BY <2>2, <2>3, OneCallGood DEF KInv
<1> QED BY <1>1, <1>2

\* Upload: the other side's tabs are told, whoever of them holds a secret.
LEMMA UploadStep ==
    ASSUME KInv, NEW t \in Tabs, NEW k \in Kinds, Upload(t, k)
    PROVE  KInv'
<1>1. call' \in KeyCalls /\ CallSteps' /\ OthersKept(call, call', t, k)
  BY AfterUploadCall DEF Upload
<1>2. PICK reached \in SUBSET Followers(Own(t)) :
        pushes' = pushes \cup reached /\ lost' = (lost \/ reached # Followers(Own(t)))
  BY DEF Upload
<1>3. call[t][k].mine \in Keys
  <2>1. call[t][k].mine \in KeyOrNot
    BY CallsTyped DEF KInv, KeyCalls, CallsOf, RecOf
  <2>2. call[t][k].mine # None
    BY DEF KInv, CallSteps, GoodCall, Upload
  <2> QED BY <2>1, <2>2 DEF KeyOrNot
<1>4. KeyTypeOK'
  <2>1. srv' \in [Users -> Keys]
    BY <1>3, UsersOf DEF KInv, KeyTypeOK, Upload
  <2>2. pushes' \subseteq Tabs
    BY <1>2 DEF KInv, KeyTypeOK, Followers
  <2> QED BY <2>1, <2>2, <1>1, TypesStay DEF KInv, KeyTypeOK, Upload, tabs, CacheType
<1>5. ASSUME NEW a \in Tabs, NEW b \in Tabs, Own(b) = Peer(a), HoldsSecret(a)', HoldsSecret(b)', ~lost'
      PROVE  FALSE
  <2>1. reached = Followers(Own(t)) /\ ~lost
    BY <1>2, <1>5
  <2>2. UNCHANGED <<st, cache>>
    BY DEF Upload, tabs
  <2>3. \A s \in Tabs : HoldsSecret(s)' => Own(s) # PeerOf[Own(t)]
    BY <1>2, <2>1, <2>2 DEF HoldsSecret, Followers
  <2>4. \A s \in Tabs : s # t /\ HoldsSecret(s)' => HoldsSecret(s)
    <3> SUFFICES ASSUME NEW s \in Tabs, s # t, HoldsSecret(s)' PROVE HoldsSecret(s)
      OBVIOUS
    <3>1. call'[s]["get"] = call[s]["get"]
      BY <1>1 DEF OthersKept, Kinds
    <3> QED BY <3>1, <2>2, <1>2 DEF HoldsSecret
  <2>5. CASE a = t
    BY <2>3, <2>5, <1>5, UsersOf
  <2>6. CASE b = t
    <3>1. Own(a) = PeerOf[Own(t)]
      BY <2>6, <1>5, UsersOf
    <3> QED BY <3>1, <2>3, <1>5
  <2>7. CASE a # t /\ b # t
    BY <2>1, <2>4, <2>7, <1>5 DEF KInv, OneSideHolds
  <2> QED BY <2>5, <2>6, <2>7
<1>6. OneSideHolds'
  BY <1>5 DEF OneSideHolds, Own, Peer
<1> QED BY <1>1, <1>4, <1>6 DEF KInv

\* The upload fails: either it counts as lost, or the tab is out.
LEMMA UploadFailsStep ==
    ASSUME KInv, NEW t \in Tabs, NEW k \in Kinds, UploadFails(t, k)
    PROVE  KInv'
<1>1. call' \in KeyCalls /\ CallSteps' /\ OthersKept(call, call', t, k)
  BY AfterUploadCall DEF UploadFails
<1>2. /\ UNCHANGED <<st, stored, wipe, idb, srv, cache, pushes, nextKey>>
      /\ lost' = (lost \/ HasToken(t))
  BY DEF UploadFails, tabs
<1>3. KeyTypeOK'
  BY <1>1, <1>2, TypesStay DEF KInv, KeyTypeOK, CacheType
<1>4. ASSUME HasToken(t) PROVE OneSideHolds'
  BY <1>2, <1>4 DEF OneSideHolds
<1>5. ASSUME ~HasToken(t) PROVE OneSideHolds'
  <2>1. ASSUME NEW s \in Tabs, HoldsSecret(s)' PROVE HoldsSecret(s)
    <3>1. s # t
      BY <2>1, <1>2, <1>5 DEF HoldsSecret, HasToken
    <3>2. call'[s]["get"] = call[s]["get"]
      BY <3>1, <1>1 DEF OthersKept, Kinds
    <3> QED BY <3>2, <1>2, <2>1 DEF HoldsSecret
  <2> QED BY <2>1, <1>2, NobodyGains DEF KInv
<1>6. OneSideHolds'
  BY <1>4, <1>5
<1> QED BY <1>1, <1>3, <1>6 DEF KInv

\* deriveSharedKey: the secret is the one the call was about to derive.
LEMMA DeriveStep ==
    ASSUME KInv, NEW t \in Tabs, Derive(t)
    PROVE  KInv'
<1> DEFINE r == call[t]["get"]
<1> "get" \in Kinds
  BY DEF Kinds
<1>1. r \in RecOf(KeyOrNot) /\ GoodCall("get", r) /\ r.pc = "derive"
  BY CallsTyped DEF KInv, KeyCalls, CallsOf, CallSteps, Derive
<1>2. /\ call' \in KeyCalls /\ call'[t]["get"] = Idle /\ OthersKept(call, call', t, "get")
  BY EndCall DEF KInv, Derive
<1>3. CallSteps'
  <2>1. GoodCall("get", call'[t]["get"])
    BY <1>2 DEF GoodCall, Idle
  <2> QED BY <2>1, <1>2, OneCallGood DEF KInv
<1>4. UNCHANGED <<st, stored, wipe, idb, srv, pushes, nextKey, lost>>
  BY DEF Derive, tabs
<1>5. cache' = [cache EXCEPT ![t] = [mine |-> r.mine, theirs |-> r.theirs, late |-> r.told]]
  BY DEF Derive
<1>6. r.mine \in Keys /\ r.theirs \in Keys /\ r.told \in BOOLEAN
  BY <1>1 DEF RecOf, GoodCall, KeyOrNot
<1>7. cache' \in CacheType
  BY <1>5, <1>6 DEF KInv, KeyTypeOK, CacheType
<1>8. KeyTypeOK'
  BY <1>2, <1>3, <1>4, <1>7, TypesStay DEF KInv, KeyTypeOK
<1>9. ASSUME NEW s \in Tabs, HoldsSecret(s)' PROVE HoldsSecret(s)
  <2>1. CASE s = t
    <3>1. call'[t]["get"].pc # "derive"
      BY <1>2 DEF Idle
    <3>2. ~cache'[t].late
      BY <3>1, <2>1, <1>9 DEF HoldsSecret
    <3>3. cache'[t].late = r.told
      BY <1>5 DEF KInv, KeyTypeOK
    <3> QED BY <2>1, <3>2, <3>3, <1>1, <1>4, <1>9 DEF HoldsSecret
  <2>2. CASE s # t
    <3>1. call'[s]["get"] = call[s]["get"]
      BY <2>2, <1>2 DEF OthersKept
    <3>2. cache'[s] = cache[s]
      BY <2>2, <1>5 DEF KInv, KeyTypeOK
    <3> QED BY <3>1, <3>2, <1>4, <1>9 DEF HoldsSecret
  <2> QED BY <2>1, <2>2
<1>10. OneSideHolds'
  BY <1>4, <1>9, NobodyGains DEF KInv
<1> QED BY <1>3, <1>8, <1>10 DEF KInv

-----------------------------------------------------------------------------
\* Evictions.  A tab whose secret is evicted holds none, and a call that the
\* eviction overtakes derives a late one.
LEMMA EvictionStep ==
    ASSUME KInv, NEW t \in Tabs, cache' = Evicted(t), UNCHANGED <<srv, nextKey, lost>>,
           st' \in [Tabs -> {"out", "login", "in", "leaving"}],
           stored' \in [Browsers -> Users \cup {None}],
           wipe' \in [Tabs -> Users \cup {None}],
           idb' \in [Browsers -> [Users -> KeyOrNot]],
           call' \in KeyCalls, CallSteps', pushes' \subseteq Tabs,
           pushes \ {t} \subseteq pushes',
           call'[t]["get"].pc = "derive" => call'[t]["get"].told,
           \A s \in Tabs : s # t => call'[s] = call[s] /\ st'[s] = st[s]
    PROVE  KInv'
<1>1. cache' \in CacheType /\ cache'[t] = None /\ \A s \in Tabs : s # t => cache'[s] = cache[s]
  BY DEF KInv, KeyTypeOK, CacheType, Evicted
<1>2. KeyTypeOK'
  BY <1>1, TypesStay DEF KInv, KeyTypeOK
<1>3. ASSUME NEW s \in Tabs, HoldsSecret(s)' PROVE HoldsSecret(s)
  <2>1. s # t
    BY <1>1, <1>3 DEF HoldsSecret
  <2>2. cache'[s] = cache[s] /\ call'[s] = call[s] /\ st'[s] = st[s] /\ s \notin pushes
    BY <1>1, <1>3, <2>1 DEF HoldsSecret
  <2> QED BY <2>2, <1>3 DEF HoldsSecret
<1>4. OneSideHolds'
  BY <1>3, NobodyGains DEF KInv
<1> QED BY <1>2, <1>4 DEF KInv

\* What an eviction does to the calls of the tab.
LEMMA OvertakenCalls ==
    ASSUME KInv, NEW t \in Tabs, call' = Overtaken(t, call)
    PROVE  /\ call' \in KeyCalls /\ CallSteps'
           /\ call'[t]["get"].pc = "derive" => call'[t]["get"].told
           /\ \A s \in Tabs : s # t => call'[s] = call[s]
<1> "get" \in Kinds
  BY DEF Kinds
<1>1. CASE call[t]["get"].pc = "idle"
  <2>1. call' = call
    BY <1>1 DEF Overtaken
  <2> QED BY <2>1, <1>1, CallsTyped DEF KInv, CallSteps
<1>2. CASE call[t]["get"].pc # "idle"
  <2>1. call' = Told(call, t, "get")
    BY <1>2 DEF Overtaken, Told
  <2>2. /\ call' \in KeyCalls /\ call'[t]["get"].told /\ call'[t]["get"].pc = call[t]["get"].pc
        /\ call'[t]["get"].mine = call[t]["get"].mine
        /\ call'[t]["get"].theirs = call[t]["get"].theirs /\ OthersKept(call, call', t, "get")
    BY <2>1, CallTold, CallsTyped DEF KInv, KeyCalls
  <2>3. GoodCall("get", call'[t]["get"])
    BY <2>2 DEF KInv, CallSteps, GoodCall
  <2>4. CallSteps'
    BY <2>2, <2>3, OneCallGood DEF KInv
  <2>5. \A s \in Tabs : s # t => call'[s] = call[s]
    BY <2>1 DEF Told, KInv, KeyTypeOK
  <2> QED BY <2>2, <2>4, <2>5
<1> QED BY <1>1, <1>2

\* onKeyChanged evicts.
LEMMA KeyChangedStep ==
    ASSUME KInv, NEW t \in Tabs, OnKeyChanged(t)
    PROVE  KInv'
<1>1. UNCHANGED <<st, stored, wipe, idb, srv, nextKey, lost>> /\ cache' = Evicted(t)
  BY DEF OnKeyChanged, tabs
<1>2. pushes' \subseteq Tabs /\ pushes \ {t} \subseteq pushes'
  BY DEF OnKeyChanged, KInv, KeyTypeOK
<1>3. call' = Overtaken(t, call)
  BY DEF OnKeyChanged
<1> QED BY <1>1, <1>2, <1>3, OvertakenCalls, EvictionStep DEF KInv, KeyTypeOK

\* The effects of setUser evict.
LEMMA LoginDoneStep ==
    ASSUME KInv, NEW t \in Tabs, LoginDone(t)
    PROVE  KInv'
<1>1. /\ UNCHANGED <<wipe, idb, srv, pushes, nextKey, lost>>
      /\ cache' = Evicted(t) /\ call' = Overtaken(t, call)
  BY DEF LoginDone
<1>2. st' = [st EXCEPT ![t] = "in"] /\ st \in [Tabs -> {"out", "login", "in", "leaving"}]
  BY DEF LoginDone, KInv, KeyTypeOK
<1>3. /\ st' \in [Tabs -> {"out", "login", "in", "leaving"}]
      /\ \A s \in Tabs : s # t => st'[s] = st[s]
  BY <1>2
<1>4. stored' \in [Browsers -> Users \cup {None}]
  BY UsersOf DEF LoginDone, KInv, KeyTypeOK
<1> QED BY <1>1, <1>3, <1>4, OvertakenCalls, EvictionStep DEF KInv, KeyTypeOK

\* The end of a logout evicts.
LEMMA ClearKeyPairStep ==
    ASSUME KInv, NEW t \in Tabs, ClearKeyPair(t)
    PROVE  KInv'
<1>1. /\ UNCHANGED <<stored, srv, nextKey, lost>>
      /\ cache' = Evicted(t) /\ call' = Overtaken(t, call)
  BY DEF ClearKeyPair
<1>2. st' = [st EXCEPT ![t] = "out"] /\ st \in [Tabs -> {"out", "login", "in", "leaving"}]
  BY DEF ClearKeyPair, KInv, KeyTypeOK
<1>3. /\ st' \in [Tabs -> {"out", "login", "in", "leaving"}]
      /\ \A s \in Tabs : s # t => st'[s] = st[s]
  BY <1>2
<1>4. wipe' \in [Tabs -> Users \cup {None}] /\ wipe[t] \in Users \cup {None}
  BY DEF ClearKeyPair, KInv, KeyTypeOK
<1>5. idb' \in [Browsers -> [Users -> KeyOrNot]]
  <2>1. idb \in [Browsers -> [Users -> KeyOrNot]] /\ None \in KeyOrNot
    BY DEF KInv, KeyTypeOK, KeyOrNot
  <2>2. CASE wipe[t] = None
    BY <2>1, <2>2 DEF ClearKeyPair
  <2>3. CASE wipe[t] # None
    <3>1. idb' = [idb EXCEPT ![BrowserOf[t]][wipe[t]] = None] /\ wipe[t] \in Users
      BY <2>3, <1>4 DEF ClearKeyPair
    <3> QED BY <3>1, <2>1
  <2> QED BY <2>2, <2>3
<1>6. pushes' \subseteq Tabs /\ pushes \ {t} \subseteq pushes'
  BY DEF ClearKeyPair, KInv, KeyTypeOK
<1> QED BY <1>1, <1>3, <1>4, <1>5, <1>6, OvertakenCalls, EvictionStep DEF KInv, KeyTypeOK

\* A tab starts anew: no call, or publishKey, is under way.
LEMMA FreshCalls ==
    ASSUME KInv, NEW t \in Tabs, NEW r \in RecOf(KeyOrNot), r.pc \in {"idle", "idb"},
           call' = [call EXCEPT ![t] = [k \in Kinds |-> IF k = "pub" THEN r ELSE Idle]]
    PROVE  /\ call' \in KeyCalls /\ CallSteps' /\ call'[t]["get"].pc = "idle"
           /\ \A s \in Tabs : s # t => call'[s] = call[s]
<1>1. Idle \in RecOf(KeyOrNot) /\ Idle.pc = "idle"
  BY DEF Idle, RecOf, CallPcs, KeyOrNot
<1> DEFINE f == [k \in Kinds |-> IF k = "pub" THEN r ELSE Idle]
<1>2. f \in [Kinds -> RecOf(KeyOrNot)] /\ f["pub"] = r /\ f["get"] = Idle
  BY <1>1 DEF Kinds
<1>3. call' = [call EXCEPT ![t] = f]
  OBVIOUS
<1> HIDE DEF f
<1>4. /\ call' \in KeyCalls /\ call'[t] = f /\ \A s \in Tabs : s # t => call'[s] = call[s]
  BY <1>2, <1>3, CallsTyped DEF KInv, KeyCalls, CallsOf
<1>5. GoodCall("pub", f["pub"]) /\ GoodCall("get", f["get"])
  BY <1>1, <1>2 DEF GoodCall
<1>6. CallSteps'
  <2> SUFFICES ASSUME NEW s \in Tabs, NEW k \in Kinds PROVE GoodCall(k, call'[s][k])
    BY DEF CallSteps, GoodCall
  <2>1. CASE s = t
    BY <2>1, <1>4, <1>5 DEF Kinds
  <2>2. CASE s # t
    BY <2>2, <1>4 DEF KInv, CallSteps
  <2> QED BY <2>1, <2>2
<1> QED BY <1>1, <1>2, <1>4, <1>6

\* A reload evicts.
LEMMA ReloadStep ==
    ASSUME KInv, NEW t \in Tabs, Reload(t)
    PROVE  KInv'
<1>1. UNCHANGED <<st, stored, wipe, idb, srv, nextKey, lost>> /\ cache' = Evicted(t)
  BY DEF Reload, tabs
<1>2. pushes' \subseteq Tabs /\ pushes \ {t} \subseteq pushes'
  BY DEF Reload, KInv, KeyTypeOK
<1>3. Idle \in RecOf(KeyOrNot) /\ Idle.pc \in {"idle", "idb"}
  BY DEF Idle, RecOf, CallPcs, KeyOrNot
<1>4. call' = [call EXCEPT ![t] = [k \in Kinds |-> IF k = "pub" THEN Idle ELSE Idle]]
  BY DEF Reload
<1>5. /\ call' \in KeyCalls /\ CallSteps' /\ call'[t]["get"].pc = "idle"
      /\ \A s \in Tabs : s # t => call'[s] = call[s]
  BY <1>3, <1>4, FreshCalls
<1> QED BY <1>1, <1>2, <1>5, EvictionStep DEF KInv, KeyTypeOK

\* A tab that is opened has no secret.
LEMMA OpenTabStep ==
    ASSUME KInv, NEW t \in Tabs, OpenTab(t)
    PROVE  KInv'
<1>1. UNCHANGED <<stored, wipe, idb, srv, pushes, nextKey, lost>> /\ cache' = Evicted(t)
  BY DEF OpenTab
<1>2. st' = [st EXCEPT ![t] = "in"] /\ st \in [Tabs -> {"out", "login", "in", "leaving"}]
  BY DEF OpenTab, KInv, KeyTypeOK
<1>3. /\ st' \in [Tabs -> {"out", "login", "in", "leaving"}]
      /\ \A s \in Tabs : s # t => st'[s] = st[s]
  BY <1>2
<1>4. /\ call' \in KeyCalls /\ CallSteps' /\ call'[t]["get"].pc = "idle"
      /\ \A s \in Tabs : s # t => call'[s] = call[s]
  <2> DEFINE r == [Idle EXCEPT !.pc = "idb"]
  <2>1. r \in RecOf(KeyOrNot) /\ r.pc = "idb"
    BY DEF Idle, RecOf, CallPcs, KeyOrNot
  <2>2. call' = [call EXCEPT ![t] = [k \in Kinds |-> IF k = "pub" THEN r ELSE Idle]]
    BY DEF OpenTab
  <2> HIDE DEF r
  <2> QED BY <2>1, <2>2, FreshCalls
<1> QED BY <1>1, <1>3, <1>4, EvictionStep DEF KInv, KeyTypeOK

-----------------------------------------------------------------------------
\* Login: the tab was not in, and is not yet.
LEMMA LoginStep ==
    ASSUME KInv, NEW t \in Tabs, SignIn(t)
    PROVE  KInv'
<1> "pub" \in Kinds
  BY DEF Kinds
<1>1. UNCHANGED <<stored, wipe, idb, srv, cache, pushes, nextKey, lost>>
  BY DEF SignIn
<1>2. call' = Continued(call, t, "pub", "idb") /\ "idb" \in CallPcs
  BY DEF SignIn, Continued, CallPcs
<1>3. /\ call' \in KeyCalls /\ call'[t]["pub"].pc = "idb" /\ OthersKept(call, call', t, "pub")
  BY <1>2, CallContinued, CallsTyped DEF KInv, KeyCalls
<1>4. CallSteps'
  <2>1. GoodCall("pub", call'[t]["pub"])
    BY <1>3 DEF GoodCall
  <2> QED BY <2>1, <1>3, OneCallGood DEF KInv
<1>5. st' = [st EXCEPT ![t] = "login"] /\ st \in [Tabs -> {"out", "login", "in", "leaving"}]
  BY DEF SignIn, KInv, KeyTypeOK
<1>6. st' \in [Tabs -> {"out", "login", "in", "leaving"}]
  BY <1>5
<1>7. KeyTypeOK'
  BY <1>1, <1>3, <1>4, <1>6, TypesStay DEF KInv, KeyTypeOK, CacheType
<1>8. ASSUME NEW s \in Tabs, HoldsSecret(s)' PROVE HoldsSecret(s)
  <2>1. st[s] = "in"
    BY <1>5, <1>8 DEF HoldsSecret
  <2>2. call'[s]["get"] = call[s]["get"]
    BY <1>3 DEF OthersKept, Kinds
  <2> QED BY <2>1, <2>2, <1>1, <1>8 DEF HoldsSecret
<1>9. OneSideHolds'
  BY <1>1, <1>8, NobodyGains DEF KInv
<1> QED BY <1>4, <1>7, <1>9 DEF KInv

\* Logout: the tab is not in afterwards.
LEMMA LogoutStep ==
    ASSUME KInv, NEW t \in Tabs, Logout(t)
    PROVE  KInv'
<1>1. UNCHANGED <<idb, srv, cache, call, pushes, nextKey, lost>>
  BY DEF Logout
<1>2. CallSteps' /\ call' \in KeyCalls
  BY <1>1, CallsTyped DEF KInv, CallSteps
<1>3. st' = [st EXCEPT ![t] = "leaving"] /\ st \in [Tabs -> {"out", "login", "in", "leaving"}]
  BY DEF Logout, KInv, KeyTypeOK
<1>4. st' \in [Tabs -> {"out", "login", "in", "leaving"}]
  BY <1>3
<1>5. stored' \in [Browsers -> Users \cup {None}] /\ wipe' \in [Tabs -> Users \cup {None}]
  BY UsersOf DEF Logout, KInv, KeyTypeOK
<1>6. KeyTypeOK'
  BY <1>1, <1>2, <1>4, <1>5, TypesStay DEF KInv, KeyTypeOK, CacheType
<1>7. ASSUME NEW s \in Tabs, HoldsSecret(s)' PROVE HoldsSecret(s)
  <2>1. st[s] = "in"
    BY <1>3, <1>7 DEF HoldsSecret
  <2> QED BY <2>1, <1>1, <1>7 DEF HoldsSecret
<1>8. OneSideHolds'
  BY <1>1, <1>7, NobodyGains DEF KInv
<1> QED BY <1>2, <1>6, <1>8 DEF KInv

-----------------------------------------------------------------------------
\* KInv is inductive.
LEMMA KeyEveryStep ==
    ASSUME KInv, [KeyNext]_keyVars
    PROVE  KInv'
<1>0. "get" \in Kinds /\ "pub" \in Kinds
  BY DEF Kinds
<1>1. ASSUME NEW t \in Tabs,
             FetchPeerKey(t) \/ OnKeyChanged(t) \/ Reload(t) \/ OpenTab(t)
      PROVE  KInv'
  BY <1>1, FetchStep, KeyChangedStep, ReloadStep, OpenTabStep
<1>2. ASSUME NEW t \in Tabs, NEW k \in Kinds, KeyStep(t, k) PROVE KInv'
  BY <1>2, IdbPutStep, UploadStep, UploadFailsStep DEF KeyStep
<1>3. ASSUME NEW t \in Tabs, GetStep(t) PROVE KInv'
  BY <1>0, <1>2, <1>3, CheckStep, DeriveStep DEF GetStep
<1>4. ASSUME NEW t \in Tabs, PubStep(t) PROVE KInv'
  <2>1. CASE PublishKey(t)
    <3>1. IdbGet(t, "pub")
      BY <2>1 DEF PublishKey
    <3> QED BY <1>0, <3>1, IdbGetStep
  <2> QED BY <1>0, <1>2, <1>4, <2>1 DEF PubStep
<1>5. ASSUME NEW t \in Tabs, SignIn(t) \/ Logout(t) \/ TabStep(t) PROVE KInv'
  BY <1>5, LoginStep, LogoutStep, LoginDoneStep, ClearKeyPairStep DEF TabStep
<1>6. CASE UNCHANGED keyVars
  <2>1. UNCHANGED <<st, stored, wipe, idb, srv, cache, call, pushes, nextKey, lost>>
    BY <1>6 DEF keyVars, tabs
  <2>2. CallSteps' /\ call' \in KeyCalls
    BY <2>1, CallsTyped DEF KInv, CallSteps
  <2>3. KeyTypeOK'
    BY <2>1, <2>2, TypesStay DEF KInv, KeyTypeOK, CacheType
  <2>4. OneSideHolds'
    BY <2>1 DEF KInv, OneSideHolds, HoldsSecret
  <2> QED BY <2>2, <2>3, <2>4 DEF KInv
<1> QED BY <1>1, <1>3, <1>4, <1>5, <1>6 DEF KeyNext

\* Every user has a tab, so each has a peer who has one.
LEMMA PeerHasTab ==
    ASSUME NEW t \in Tabs
    PROVE  \E s \in Tabs : Own(s) = Peer(t)
  BY UsersOf DEF Users, Own

\* If one side holds no secret, the stale one of the other side is noticed.
LEMMA NoticedBecauseOneSideHolds ==
    ASSUME KInv
    PROVE  StaleKeyIsNoticed
<1> SUFFICES ASSUME NEW t \in Tabs, StaleHit(t), ~lost, ~ \E s \in Tabs : Late(s),
                    ~WillAnnounce(t)
             PROVE  \E s \in Tabs : Own(s) = Peer(t) /\ WillAnnounce(s)
  BY DEF StaleKeyIsNoticed
<1>1. HoldsSecret(t)
  BY DEF StaleHit, Hit, WillAnnounce, Late, HoldsSecret
<1>2. PICK s \in Tabs : Own(s) = Peer(t)
  BY PeerHasTab
<1>3. ~HoldsSecret(s)
  BY <1>1, <1>2 DEF KInv, OneSideHolds
<1>4. ASSUME ~WillAnnounce(s) PROVE HoldsSecret(s)
  BY <1>4 DEF WillAnnounce, Late, Hit, HoldsSecret
<1> QED BY <1>2, <1>3, <1>4

(* The variables of the key exchange have their types at any time: whatever the *)
(* tabs, sign-ins and faults, a call uploads or derives only with a key pair     *)
(* that was generated (crypto.ts), and each user's published key is one.         *)
THEOREM KeyTypes == KeySpec => []KeyTypeOK
<1>1. KeyInit => KInv
  BY KeyStart
<1>2. KInv /\ [KeyNext]_keyVars => KInv'
  BY KeyEveryStep
<1>3. KInv => KeyTypeOK
  BY DEF KInv
<1> QED BY <1>1, <1>2, <1>3, PTL DEF KeySpec

(* Unless an upload or a push is lost, no two tabs of two users who write to      *)
(* each other hold a secret at the same time: getSharedKey announces the tab's   *)
(* own key before it derives, because GET /keys/me is a 404 (ChatContext.tsx:     *)
(* 103-112, key_handlers.go), and so evicts the secret of the other side.         *)
THEOREM OneSideOnly == KeySpec => []OneSideHolds
<1>1. KeyInit => KInv
  BY KeyStart
<1>2. KInv /\ [KeyNext]_keyVars => KInv'
  BY KeyEveryStep
<1>3. KInv => OneSideHolds
  BY DEF KInv
<1> QED BY <1>1, <1>2, <1>3, PTL DEF KeySpec

(* A cached secret that the peer cannot have any more is noticed, for any number  *)
(* of tabs, browsers, sign-ins and calls under way: the exceptions are those of    *)
(* StaleKeyIsNoticed.                                                            *)
THEOREM StaleKeyNoticed == KeySpec => []StaleKeyIsNoticed
<1>1. KeyInit => KInv
  BY KeyStart
<1>2. KInv /\ [KeyNext]_keyVars => KInv'
  BY KeyEveryStep
<1>3. KInv => StaleKeyIsNoticed
  BY NoticedBecauseOneSideHolds
<1> QED BY <1>1, <1>2, <1>3, PTL DEF KeySpec

-----------------------------------------------------------------------------
(***************************************************************************)
(* The conversation list, for any number of operations under way, messages,  *)
(* texts and reconnects.  What the list shows is treated as the set of its   *)
(* entries, and once as the set of those that are there at most once; each   *)
(* action is first reduced to what it does to that set and to its own        *)
(* operation.  Two arguments rest on it.  A text that is not marked as       *)
(* failed has one request, so what a retry sends was not stored, unless its  *)
(* answer was lost.  And a message of the peer's is in the list, on its way  *)
(* to it, or beyond the last page, from the first page on.                   *)
(***************************************************************************)

\* The members of a set up to a number.
UpTo(S, i) == {k \in S : k <= i}

\* The least-number principle for sets.
LEMMA Least ==
    ASSUME NEW T \in SUBSET Nat, T # {}
    PROVE  \E m \in T : \A k \in T : m <= k
<1>1. IsWellFoundedOn(OpToRel(<, Nat), Nat)
  BY NatLessThanWellFounded
<1>2. \A a, b \in Nat : a < b => <<a, b>> \in OpToRel(<, Nat)
  BY DEF OpToRel
<1>3. PICK m \in T : \A y \in T : ~ (<<y, m>> \in OpToRel(<, Nat))
  BY <1>1, WFMin, Zenon
<1>4. \A k \in T : ~(k < m)
  BY <1>2, <1>3, Zenon
<1> QED BY <1>4

\* A bounded set of numbers is finite, and so is what it has up to a number.
LEMMA CountUpTo ==
    ASSUME NEW b \in Nat, NEW S \in SUBSET (1 .. b), NEW i
    PROVE  /\ IsFiniteSet(S) /\ Cardinality(S) \in Nat
           /\ IsFiniteSet(UpTo(S, i)) /\ Cardinality(UpTo(S, i)) \in Nat
           /\ Cardinality(UpTo(S, i)) <= Cardinality(S)
<1>1. IsFiniteSet(1 .. b)
  BY FS_Interval
<1>2. IsFiniteSet(S)
  BY <1>1, FS_Subset
<1>3. UpTo(S, i) \in SUBSET S
  BY DEF UpTo
<1> QED BY <1>2, <1>3, FS_Subset, FS_CardinalityType

\* The n-th member exists: it is the last of the smallest initial part with n members.
LEMMA NthExists ==
    ASSUME NEW b \in Nat, NEW S \in SUBSET (1 .. b), NEW n \in 1 .. Cardinality(S)
    PROVE  Nth(S, n) \in S /\ Cardinality(UpTo(S, Nth(S, n))) = n
<1>0. IsFiniteSet(S) /\ Cardinality(S) \in Nat
      /\ \A i : IsFiniteSet(UpTo(S, i)) /\ Cardinality(UpTo(S, i)) \in Nat
  BY CountUpTo
<1>a. \A k \in S : k \in Int /\ 1 <= k /\ k <= b
  OBVIOUS
<1>b. \A k, i : k \in UpTo(S, i) <=> k \in S /\ k <= i
  BY DEF UpTo
<1> DEFINE T == {m \in Nat : Cardinality(UpTo(S, m)) >= n}
<1>1. b \in T
  <2>1. UpTo(S, b) = S
    BY <1>a, <1>b
  <2> QED BY <2>1, <1>0
<1>2. PICK m \in T : \A k \in T : m <= k
  <2>1. T \in SUBSET Nat /\ T # {}
    BY <1>1
  <2> HIDE DEF T
  <2> QED BY <2>1, Least
<1>3. m # 0
  <2>1. ASSUME NEW k \in UpTo(S, 0) PROVE FALSE
    <3>1. k \in S /\ k <= 0
      BY <1>b
    <3>2. k \in Int /\ 1 <= k
      BY <3>1, <1>a
    <3> QED BY <3>1, <3>2
  <2>2. UpTo(S, 0) = {}
    BY <2>1
  <2> QED BY <2>2, FS_EmptySet
<1>4. m - 1 \in Nat /\ m - 1 \notin T
  BY <1>2, <1>3
<1>5. Cardinality(UpTo(S, m - 1)) < n
  BY <1>0, <1>4
<1>6. \A k \in S : (k <= m <=> k <= m - 1 \/ k = m) /\ (k <= m - 1 => k # m)
  BY <1>a, <1>4
<1>7. m \in S
  <2>1. ASSUME m \notin S PROVE FALSE
    <3>1. UpTo(S, m) = UpTo(S, m - 1)
      <4>1. \A k \in S : k <= m <=> k <= m - 1
        BY <2>1, <1>6
      <4> QED BY <4>1 DEF UpTo
    <3> QED BY <3>1, <1>5, <1>0
  <2> QED BY <2>1
<1>8. Cardinality(UpTo(S, m)) = n
  <2>1. UpTo(S, m) = UpTo(S, m - 1) \cup {m} /\ m \notin UpTo(S, m - 1)
    BY <1>7, <1>6, <1>b
  <2>2. Cardinality(UpTo(S, m)) = Cardinality(UpTo(S, m - 1)) + 1
    BY <2>1, <1>0, FS_AddElement
  <2> QED BY <2>2, <1>5, <1>0
<1>9. \E i \in S : Cardinality({k \in S : k <= i}) = n
  BY <1>7, <1>8 DEF UpTo
<1> QED BY <1>9 DEF Nth, UpTo

\* Counting up is strictly monotonic.
LEMMA CountGrows ==
    ASSUME NEW b \in Nat, NEW S \in SUBSET (1 .. b), NEW i \in S, NEW j \in S, i < j
    PROVE  Cardinality(UpTo(S, i)) < Cardinality(UpTo(S, j))
<1>a. \A k \in S : k \in Int
  OBVIOUS
<1>b. \A k, l : k \in UpTo(S, l) <=> k \in S /\ k <= l
  BY DEF UpTo
<1>1. UpTo(S, i) \in SUBSET UpTo(S, j) /\ j \in UpTo(S, j) /\ j \notin UpTo(S, i)
  <2>1. \A k \in S : k <= i => k <= j
    BY <1>a
  <2>2. j <= j /\ ~(j <= i)
    BY <1>a
  <2> QED BY <2>1, <2>2, <1>b
<1>2. IsFiniteSet(UpTo(S, j)) /\ Cardinality(UpTo(S, j)) \in Nat /\ Cardinality(UpTo(S, i)) \in Nat
  BY CountUpTo
<1>3. Cardinality(UpTo(S, i)) <= Cardinality(UpTo(S, j))
  BY <1>1, <1>2, FS_Subset
<1>4. Cardinality(UpTo(S, i)) # Cardinality(UpTo(S, j))
  BY <1>1, <1>2, FS_Subset
<1> QED BY <1>2, <1>3, <1>4

\* Nth counts S through in ascending order.
LEMMA NthAscends ==
    ASSUME NEW b \in Nat, NEW S \in SUBSET (1 .. b)
    PROVE  /\ Cardinality(S) \in Nat
           /\ \A n \in 1 .. Cardinality(S) : Nth(S, n) \in S
           /\ \A m, n \in 1 .. Cardinality(S) : m < n => Nth(S, m) < Nth(S, n)
           /\ \A i \in S : \E n \in 1 .. Cardinality(S) : Nth(S, n) = i
<1>1. Cardinality(S) \in Nat
  BY CountUpTo
<1>2. \A n \in 1 .. Cardinality(S) : Nth(S, n) \in S /\ Cardinality(UpTo(S, Nth(S, n))) = n
  BY NthExists
<1>3. ASSUME NEW m \in 1 .. Cardinality(S), NEW n \in 1 .. Cardinality(S), m < n
      PROVE  Nth(S, m) < Nth(S, n)
  <2>1. ASSUME Nth(S, n) < Nth(S, m) PROVE FALSE
    <3>1. Cardinality(UpTo(S, Nth(S, n))) < Cardinality(UpTo(S, Nth(S, m)))
      BY <1>2, <2>1, CountGrows
    <3> QED BY <1>1, <1>2, <1>3, <3>1
  <2>2. Nth(S, n) # Nth(S, m)
    BY <1>2, <1>3
  <2>3. Nth(S, n) \in 1 .. b /\ Nth(S, m) \in 1 .. b
    BY <1>2
  <2> QED BY <2>1, <2>2, <2>3
<1>4. ASSUME NEW i \in S PROVE \E n \in 1 .. Cardinality(S) : Nth(S, n) = i
  <2> DEFINE n == Cardinality(UpTo(S, i))
  <2>1. n \in Nat /\ n <= Cardinality(S)
    BY CountUpTo
  <2>2. n # 0
    <3>1. i \in UpTo(S, i) /\ IsFiniteSet(UpTo(S, i))
      <4>1. i \in Int /\ i <= i
        OBVIOUS
      <4> QED BY <4>1, CountUpTo DEF UpTo
    <3> QED BY <3>1, FS_EmptySet
  <2>3. n \in 1 .. Cardinality(S)
    BY <1>1, <2>1, <2>2
  <2>4. Nth(S, n) \in S /\ Cardinality(UpTo(S, Nth(S, n))) = n
    BY <1>2, <2>3
  <2>5. ~(Nth(S, n) < i) /\ ~(i < Nth(S, n))
    <3>1. Nth(S, n) < i => Cardinality(UpTo(S, Nth(S, n))) < Cardinality(UpTo(S, i))
      BY <2>4, CountGrows
    <3>2. i < Nth(S, n) => Cardinality(UpTo(S, i)) < Cardinality(UpTo(S, Nth(S, n)))
      BY <2>4, CountGrows
    <3> QED BY <3>1, <3>2, <2>1, <2>4
  <2>6. Nth(S, n) = i
    <3>1. Nth(S, n) \in 1 .. b /\ i \in 1 .. b
      BY <2>4
    <3> HIDE DEF n
    <3> QED BY <2>5, <3>1
  <2> QED BY <2>3, <2>6
<1> QED BY <1>1, <1>2, <1>3, <1>4

-----------------------------------------------------------------------------
Of(s)      == {s[j] : j \in 1 .. Len(s)}

Ascends(s) == \A i, j \in 1 .. Len(s) : i < j => s[i] < s[j]

\* Sorted has the members of the set, each once, in ascending order.
LEMMA SortedMembers ==
    ASSUME NEW b \in Nat, NEW S \in SUBSET (1 .. b)
    PROVE  /\ Sorted(S) \in Seq(S) /\ Of(Sorted(S)) = S /\ Ascends(Sorted(S))
           /\ Len(Sorted(S)) \in Nat
<1>1. /\ Cardinality(S) \in Nat
      /\ \A n \in 1 .. Cardinality(S) : Nth(S, n) \in S
      /\ \A m, n \in 1 .. Cardinality(S) : m < n => Nth(S, m) < Nth(S, n)
      /\ \A i \in S : \E n \in 1 .. Cardinality(S) : Nth(S, n) = i
  BY NthAscends
<1>2. /\ Sorted(S) \in Seq(S) /\ Len(Sorted(S)) = Cardinality(S)
      /\ \A n \in 1 .. Cardinality(S) : Sorted(S)[n] = Nth(S, n)
  BY <1>1 DEF Sorted
<1>4. Of(Sorted(S)) = S
  <2>1. \A x \in Of(Sorted(S)) : x \in S
    BY <1>1, <1>2 DEF Of
  <2>2. \A x \in S : x \in Of(Sorted(S))
    BY <1>1, <1>2 DEF Of
  <2> QED BY <2>1, <2>2
<1>5. Ascends(Sorted(S))
  BY <1>1, <1>2 DEF Ascends
<1> QED BY <1>1, <1>2, <1>4, <1>5

\* Keep keeps the entries at the positions, in their order.
LEMMA KeptEntries ==
    ASSUME NEW E, NEW l \in Seq(E), NEW S \in SUBSET (1 .. Len(l))
    PROVE  /\ Keep(l, S) \in Seq(E) /\ Len(Keep(l, S)) \in Nat
           /\ Of(Keep(l, S)) = {l[j] : j \in S}
           /\ \A n \in 1 .. Len(Keep(l, S)) : Keep(l, S)[n] = l[Nth(S, n)] /\ Nth(S, n) \in S
           /\ \A m, n \in 1 .. Len(Keep(l, S)) : m # n => Nth(S, m) # Nth(S, n)
<1>0. Len(l) \in Nat /\ \A j \in S : j \in 1 .. Len(l) /\ l[j] \in E
  OBVIOUS
<1>1. /\ Cardinality(S) \in Nat
      /\ \A n \in 1 .. Cardinality(S) : Nth(S, n) \in S
      /\ \A m, n \in 1 .. Cardinality(S) : m < n => Nth(S, m) < Nth(S, n)
      /\ \A i \in S : \E n \in 1 .. Cardinality(S) : Nth(S, n) = i
  BY <1>0, NthAscends
<1>2. \A n \in 1 .. Cardinality(S) : Nth(S, n) \in 1 .. Len(l) /\ l[Nth(S, n)] \in E
  BY <1>0, <1>1
<1>5. /\ Keep(l, S) \in Seq(E) /\ Len(Keep(l, S)) = Cardinality(S)
      /\ \A n \in 1 .. Cardinality(S) : Keep(l, S)[n] = l[Nth(S, n)]
  BY <1>1, <1>2 DEF Keep
<1>3. Of(Keep(l, S)) = {l[j] : j \in S}
  <2>1. \A x \in Of(Keep(l, S)) : \E j \in S : x = l[j]
    <3> SUFFICES ASSUME NEW n \in 1 .. Len(Keep(l, S)) PROVE \E j \in S : Keep(l, S)[n] = l[j]
      BY DEF Of
    <3>1. n \in 1 .. Cardinality(S)
      BY <1>5
    <3>2. Keep(l, S)[n] = l[Nth(S, n)] /\ Nth(S, n) \in S
      BY <3>1, <1>1, <1>5
    <3> QED BY <3>2
  <2>2. \A j \in S : l[j] \in Of(Keep(l, S))
    <3> SUFFICES ASSUME NEW j \in S PROVE l[j] \in Of(Keep(l, S))
      OBVIOUS
    <3>1. PICK n \in 1 .. Cardinality(S) : Nth(S, n) = j
      BY <1>1
    <3>2. Keep(l, S)[n] = l[j] /\ n \in 1 .. Len(Keep(l, S))
      BY <3>1, <1>5
    <3> QED BY <3>2 DEF Of
  <2> QED BY <2>1, <2>2
<1>4. \A m, n \in 1 .. Cardinality(S) : m # n => Nth(S, m) # Nth(S, n)
  <2> SUFFICES ASSUME NEW m \in 1 .. Cardinality(S), NEW n \in 1 .. Cardinality(S), m # n
               PROVE  Nth(S, m) # Nth(S, n)
    OBVIOUS
  <2>1. Nth(S, m) \in Int /\ Nth(S, n) \in Int
    BY <1>2
  <2>2. m < n \/ n < m
    BY <1>1
  <2> QED BY <1>1, <2>1, <2>2
<1> QED BY <1>1, <1>5, <1>3, <1>4

-----------------------------------------------------------------------------
(* The parts of the inductive invariant. *)

OpRecords == [kind : {"none", "select", "more", "send", "delete"},
              pc : {"idle", "get", "got", "post", "insert", "posted", "failed", "del"},
              target : (-MaxTexts) .. MaxId, id : 0 .. MaxId, raw : Seq(Ids), more : BOOLEAN]
Sending(o) == op[o].pc \in {"post", "insert", "posted", "failed"}

\* ChatTypeOK without what it says about single entries of the list.
ClientTypes ==
    /\ row \in [Ids -> (0 .. MaxTexts) \cup {None}] /\ deleted \subseteq Inserted
    /\ wire \in Seq([type : {"message", "deleted"}, id : Inserted])
    /\ unsent \subseteq [type : {"message", "deleted"}, id : Inserted] /\ untold \subseteq Inserted
    /\ reconnects \in 0 .. MaxReconnects /\ texts \in 0 .. MaxTexts
    /\ known \in BOOLEAN /\ active \in BOOLEAN /\ hasMore \in BOOLEAN
    /\ list \in Seq(Entries) \cup {None} /\ last \in 0 .. MaxId
    /\ decrypting \in [Ids -> Nat] /\ \A id \in Ids : decrypting[id] > 0 => id \in Inserted
    /\ op \in [Ops -> OpRecords]
    /\ faults \subseteq ChatFaultKinds /\ begun \in BOOLEAN /\ dropped \subseteq Ids
    /\ seq \in 1 .. MaxId + 1 /\ drawn \subseteq Ids \ Inserted

\* The ids the sequence has handed out: drawn, being inserted, or inserted, and each
\* one of these; a row holds a text that was composed.
IdsAreDrawn ==
    /\ drawn \cup Inserted \subseteq 1 .. seq - 1
    /\ \A id \in Inserted : row[id] \in 0 .. texts
    /\ \A o \in Ops : op[o].pc = "insert" => op[o].id \in (1 .. seq - 1) \ (drawn \cup Inserted)
    /\ \A o, q \in Ops : (op[o].pc = "insert" /\ op[q].pc = "insert" /\ o # q) => op[o].id # op[q].id

\* What an operation has read or is working on.
OpFits(r) ==
    /\ r.pc # "idle" => known
    /\ r.pc \in {"post", "insert", "posted", "failed"} =>
          r.kind = "send" /\ r.target \in (-texts) .. -1 /\ list # None
    /\ r.pc \in {"get", "got"} => r.kind \in {"select", "more", "delete"} /\ r.target >= 0
    /\ r.pc = "posted" => r.id \in Inserted /\ row[r.id] # 0
    /\ r.pc = "del" => r.kind = "delete" /\ r.target >= 0 /\ r.id \in Inserted /\ row[r.id] # 0
    /\ r.pc # "idle" /\ r.kind = "delete" => list # None
    /\ r.kind = "more" => list # None /\ ~begun
    /\ r.pc = "got" => Of(r.raw) \subseteq Inserted /\ Ascends(r.raw)
OpsFit == \A o \in Ops : OpFits(op[o])

\* Entries of the list are optimistic, or of messages that are stored.
EntryFits(e) == e.id \in (-texts) .. -1 \/ (e.id \in Inserted /\ ~e.failed)
EntriesFit == \A e \in Of(Listed) : EntryFits(e)

ClientFits ==
    /\ active \/ list # None \/ hasMore => known
    /\ \A id \in Ids : decrypting[id] > 0 => known
    /\ hasMore => list # None /\ ~begun
    /\ \A j \in 1 .. Len(wire) : wire[j].type = "deleted" => wire[j].id \in deleted
    /\ \A e \in unsent : e.type = "deleted" => e.id \in deleted

\* A text is sent by one request at a time, or is marked as failed.
OneSender ==
    /\ \A o, q \in Ops : (Sending(o) /\ Sending(q) /\ op[o].target = op[q].target) => o = q
    /\ \A o \in Ops : Sending(o) => \A e \in Of(Listed) : e.id = op[o].target => ~e.failed

\* An entry that waits for its answer has its request.
Pending == \A e \in Of(Listed) : (e.id < 0 /\ ~e.failed) => \E o \in Ops : Sending(o) /\ op[o].target = e.id

\* A stored text is neither being sent, before its insert or after its failure, nor
\* marked as failed.
StoredIsSettled ==
    "answer" \notin faults =>
        \A x \in Inserted : row[x] # 0 =>
            /\ \A o \in Ops : op[o].pc \in {"post", "insert", "failed"} => op[o].target # -row[x]
            /\ \A e \in Of(Listed) : e.id = -row[x] => ~e.failed

\* A message of the peer's that the client knows of, that it will, or that it has not
\* been told of.
Alive    == {id \in Inserted \ deleted : row[id] = 0}
Safe(id) == Holds(Listed, id) \/ id \in dropped \cup untold \/ OnWire(id) \/ decrypting[id] > 0

\* A page that is fetched continues at a message before which nothing is missing; one
\* that was read lacks only what is safe or what a later page has.
Beyond(r, id) == r.more /\ r.raw # <<>> /\ id > r.raw[Len(r.raw)]
PageMissesNothing ==
    \A o \in Ops : op[o].kind \in {"select", "more"} =>
        /\ op[o].pc = "get" => \A id \in Alive : id <= op[o].target => Safe(id)
        /\ op[o].pc = "got" => \A id \in Alive : Safe(id) \/ id \in Of(op[o].raw) \/ Beyond(op[o], id)
ListMissesNothing ==
    (list # None /\ ~begun) => \A id \in Alive : Safe(id) \/ (hasMore /\ id > last)

\* What a list has once, for the ids of a set.
Once(l, I) == \A i, j \in 1 .. Len(l) : (l[i].id = l[j].id /\ l[i].id \in I) => i = j
ShownOnce  == Once(Listed, {id \in Ids : row[id] = 0})

-----------------------------------------------------------------------------
(* Lists of entries. *)

\* The entries of a list are entries.
LEMMA ListEntries ==
    ASSUME NEW l \in Seq(Entries)
    PROVE  /\ Len(l) \in Nat /\ Of(l) \subseteq Entries
           /\ \A id : Holds(l, id) <=> \E e \in Of(l) : e.id = id
BY DEF Of, Holds

\* An entry is determined by its fields, and they have their types.
LEMMA EntryFields ==
    /\ \A e \in Entries : e.id \in Int /\ e.id \in (-MaxTexts) .. MaxId /\ e.failed \in BOOLEAN
    /\ \A id \in (-MaxTexts) .. MaxId :
          Entry(id) \in Entries /\ Entry(id).id = id /\ Entry(id).failed = FALSE
BY ChatClientAssumption DEF Entries, Entry

\* Appending an entry.
LEMMA Appended ==
    ASSUME NEW l \in Seq(Entries), NEW e \in Entries
    PROVE  /\ Append(l, e) \in Seq(Entries) /\ Of(Append(l, e)) = Of(l) \cup {e}
           /\ \A I : Once(l, I) /\ (e.id \notin I \/ ~Holds(l, e.id)) => Once(Append(l, e), I)
<1>1. /\ Append(l, e) \in Seq(Entries) /\ Len(Append(l, e)) = Len(l) + 1 /\ Len(l) \in Nat
      /\ \A j \in 1 .. Len(l) : Append(l, e)[j] = l[j]
      /\ Append(l, e)[Len(l) + 1] = e
  OBVIOUS
<1>2. \A j \in 1 .. Len(l) + 1 : j \in 1 .. Len(l) \/ j = Len(l) + 1
  BY <1>1
<1>3. Of(Append(l, e)) = Of(l) \cup {e}
  <2>1. \A x \in Of(Append(l, e)) : x \in Of(l) \cup {e}
    BY <1>1, <1>2 DEF Of
  <2>2. \A x \in Of(l) \cup {e} : x \in Of(Append(l, e))
    <3>1. 1 .. Len(l) \subseteq 1 .. Len(l) + 1 /\ Len(l) + 1 \in 1 .. Len(l) + 1
      BY <1>1
    <3> HIDE DEF Entries
    <3> QED BY <1>1, <3>1 DEF Of
  <2> QED BY <2>1, <2>2
<1>4. ASSUME NEW I, Once(l, I), e.id \notin I \/ ~Holds(l, e.id),
             NEW i \in 1 .. Len(l) + 1, NEW j \in 1 .. Len(l) + 1,
             Append(l, e)[i].id = Append(l, e)[j].id, Append(l, e)[i].id \in I
      PROVE  i = j
  <2>1. CASE i \in 1 .. Len(l) /\ j \in 1 .. Len(l)
    BY <2>1, <1>1, <1>4 DEF Once
  <2>2. CASE i = Len(l) + 1 /\ j \in 1 .. Len(l)
    BY <2>2, <1>1, <1>4 DEF Holds
  <2>3. CASE j = Len(l) + 1 /\ i \in 1 .. Len(l)
    BY <2>3, <1>1, <1>4 DEF Holds
  <2> QED BY <1>2, <2>1, <2>2, <2>3
<1> QED BY <1>1, <1>3, <1>4 DEF Once

\* Taking entries out.
LEMMA Removed ==
    ASSUME NEW l \in Seq(Entries), NEW id
    PROVE  /\ Without(l, id) \in Seq(Entries) /\ Of(Without(l, id)) = {e \in Of(l) : e.id # id}
           /\ \A I : Once(l, I) => Once(Without(l, id), I)
<1> DEFINE S == {j \in 1 .. Len(l) : l[j].id # id}
<1>1. S \in SUBSET (1 .. Len(l))
  OBVIOUS
<1>2. /\ Keep(l, S) \in Seq(Entries) /\ Len(Keep(l, S)) \in Nat
      /\ Of(Keep(l, S)) = {l[j] : j \in S}
      /\ \A n \in 1 .. Len(Keep(l, S)) : Keep(l, S)[n] = l[Nth(S, n)] /\ Nth(S, n) \in S
      /\ \A m, n \in 1 .. Len(Keep(l, S)) : m # n => Nth(S, m) # Nth(S, n)
  <2> HIDE DEF S
  <2> QED BY <1>1, KeptEntries
<1>3. {l[j] : j \in S} = {e \in Of(l) : e.id # id}
  BY DEF Of
<1>4. Without(l, id) = Keep(l, S)
  BY DEF Without
<1>5. ASSUME NEW I, Once(l, I), NEW m \in 1 .. Len(Keep(l, S)), NEW n \in 1 .. Len(Keep(l, S)),
             Keep(l, S)[m].id = Keep(l, S)[n].id, Keep(l, S)[m].id \in I
      PROVE  m = n
  <2>1. Nth(S, m) \in 1 .. Len(l) /\ Nth(S, n) \in 1 .. Len(l)
    BY <1>1, <1>2
  <2>2. Nth(S, m) = Nth(S, n)
    <3> HIDE DEF S
    <3> QED BY <1>2, <1>5, <2>1 DEF Once
  <2> QED BY <1>2, <2>2
<1> HIDE DEF S
<1> QED BY <1>2, <1>3, <1>4, <1>5 DEF Once

\* Marking the entries of an id.
LEMMA Marked ==
    ASSUME NEW l \in Seq(Entries), NEW id, NEW f \in BOOLEAN
    PROVE  /\ MarkFailed(l, id, f) \in Seq(Entries)
           /\ \A e \in Of(MarkFailed(l, id, f)) :
                 (e.id = id /\ e.failed = f) \/ (e \in Of(l) /\ e.id # id)
           /\ \A d \in Of(l) : \E e \in Of(MarkFailed(l, id, f)) : e.id = d.id
           /\ \A I : Once(l, I) => Once(MarkFailed(l, id, f), I)
<1> DEFINE M == MarkFailed(l, id, f)
<1>1. \A e \in Entries : [e EXCEPT !.failed = f] \in Entries /\ [e EXCEPT !.failed = f].id = e.id
                         /\ [e EXCEPT !.failed = f].failed = f
  BY DEF Entries
<1>2. Len(l) \in Nat /\ \A j \in 1 .. Len(l) : l[j] \in Entries
  OBVIOUS
<1>3. /\ M \in Seq(Entries) /\ Len(M) = Len(l)
      /\ \A j \in 1 .. Len(l) : M[j].id = l[j].id /\ (IF l[j].id = id THEN M[j].failed = f ELSE M[j] = l[j])
  <2> HIDE DEF Entries
  <2> QED BY <1>1, <1>2 DEF MarkFailed
<1> HIDE DEF M
<1> QED BY <1>2, <1>3 DEF Of, Once, M

\* The list with the optimistic entries of a text replaced by the saved message.
Settled(l, t, id) == [j \in 1 .. Len(l) |-> IF l[j].id = t THEN Entry(id) ELSE l[j]]
\* Confirming changes the entries of one text only, and shows no other message twice.
LEMMA Confirmed ==
    ASSUME NEW l \in Seq(Entries), NEW t, NEW id \in Ids, NEW C, C = Settled(l, t, id)
    PROVE  /\ C \in Seq(Entries)
           /\ \A e \in Of(C) : e = Entry(id) \/ (e \in Of(l) /\ e.id # t)
           /\ \A e \in Of(l) : e.id # t => e \in Of(C)
           /\ \A I : Once(l, I) /\ id \notin I => Once(C, I)
<1>1. Entry(id) \in Entries /\ Entry(id).id = id
  BY EntryFields, ChatClientAssumption DEF Ids
<1>2. Len(l) \in Nat /\ \A j \in 1 .. Len(l) : l[j] \in Entries
  OBVIOUS
<1>3. /\ C \in Seq(Entries) /\ Len(C) = Len(l)
      /\ \A j \in 1 .. Len(l) : C[j] = (IF l[j].id = t THEN Entry(id) ELSE l[j])
  <2> HIDE DEF Entries
  <2> QED BY <1>1, <1>2 DEF Settled
<1>4. /\ \A e \in Of(C) : e = Entry(id) \/ (e \in Of(l) /\ e.id # t)
      /\ \A e \in Of(l) : e.id # t => e \in Of(C)
  BY ONLY <1>2, <1>3 DEF Of
<1>5. \A I : Once(l, I) /\ id \notin I => Once(C, I)
  BY ONLY <1>1, <1>2, <1>3 DEF Once
<1> QED BY <1>3, <1>4, <1>5

\* The entries that show a page.
PageOf(raw) == [j \in 1 .. Len(raw) |-> Entry(raw[j])]
\* They are an entry for each message of the page, and one only.
LEMMA Page ==
    ASSUME NEW raw \in Seq(Ids)
    PROVE  LET P == PageOf(raw) IN
           /\ P \in Seq(Entries) /\ Len(P) = Len(raw)
           /\ \A j \in 1 .. Len(raw) : P[j].id = raw[j]
           /\ \A e \in Of(P) : e.id \in Of(raw) /\ e.failed = FALSE
           /\ \A id : Holds(P, id) <=> id \in Of(raw)
           /\ Ascends(raw) => \A I : Once(P, I)
<1> DEFINE P == PageOf(raw)
<1>1. Len(raw) \in Nat /\ \A j \in 1 .. Len(raw) : raw[j] \in Ids /\ raw[j] \in Int
  BY ChatClientAssumption DEF Ids
<1>2. \A id \in Ids : Entry(id) \in Entries /\ Entry(id).id = id /\ Entry(id).failed = FALSE
  BY EntryFields, ChatClientAssumption DEF Ids
<1>3. /\ P \in Seq(Entries) /\ Len(P) = Len(raw)
      /\ \A j \in 1 .. Len(raw) : P[j].id = raw[j] /\ P[j].failed = FALSE
  <2> HIDE DEF Entries, Ids
  <2> QED BY <1>1, <1>2 DEF PageOf
<1> HIDE DEF P
<1>4. /\ \A e \in Of(P) : e.id \in Of(raw) /\ e.failed = FALSE
      /\ \A id : Holds(P, id) <=> id \in Of(raw)
  BY <1>3 DEF Of, Holds
<1>5. ASSUME Ascends(raw), NEW i \in 1 .. Len(raw), NEW j \in 1 .. Len(raw), raw[i] = raw[j]
      PROVE  i = j
  <2>1. ~(i < j) /\ ~(j < i)
    BY <1>1, <1>5 DEF Ascends
  <2> QED BY <2>1, <1>1
<1>6. Ascends(raw) => \A I : Once(P, I)
  BY <1>3, <1>5 DEF Once
<1> QED BY <1>3, <1>4, <1>6 DEF P

\* One list after another: it has the entries of both, and shows twice only what both show.
LEMMA Joined ==
    ASSUME NEW l \in Seq(Entries), NEW F \in Seq(Entries)
    PROVE  /\ l \o F \in Seq(Entries) /\ Of(l \o F) = Of(l) \cup Of(F)
           /\ (/\ \A n \in 1 .. Len(F) : ~Holds(l, F[n].id)
               /\ \A m, n \in 1 .. Len(F) : F[m].id = F[n].id => m = n)
              => \A I : Once(l, I) => Once(l \o F, I)
<1> DEFINE C == l \o F
<1>1. /\ C \in Seq(Entries) /\ Len(C) = Len(l) + Len(F) /\ Len(l) \in Nat /\ Len(F) \in Nat
      /\ \A j \in 1 .. Len(l) : C[j] = l[j]
      /\ \A j \in 1 .. Len(F) : C[Len(l) + j] = F[j]
  OBVIOUS
<1> HIDE DEF C
<1>2. \A i \in 1 .. Len(C) : \/ i \in 1 .. Len(l) /\ C[i] = l[i]
                             \/ \E k \in 1 .. Len(F) : i = Len(l) + k /\ C[i] = F[k]
  <2> SUFFICES ASSUME NEW i \in 1 .. Len(C), ~(i \in 1 .. Len(l))
               PROVE  \E k \in 1 .. Len(F) : i = Len(l) + k /\ C[i] = F[k]
    BY <1>1
  <2> DEFINE k == i - Len(l)
  <2>1. k \in 1 .. Len(F) /\ i = Len(l) + k
    BY <1>1
  <2> HIDE DEF k
  <2>2. C[Len(l) + k] = F[k]
    BY <1>1, <2>1
  <2> QED BY <2>1, <2>2
<1>3. /\ \A i \in 1 .. Len(l) : i \in 1 .. Len(C) /\ C[i] = l[i]
      /\ \A k \in 1 .. Len(F) : \E i \in 1 .. Len(C) : C[i] = F[k]
  <2>1. \A k \in 1 .. Len(F) : Len(l) + k \in 1 .. Len(C)
    BY <1>1
  <2>2. \A i \in 1 .. Len(l) : i \in 1 .. Len(C)
    BY <1>1
  <2> QED BY <1>1, <2>1, <2>2
<1>4. Of(C) = Of(l) \cup Of(F)
  <2>1. \A x \in Of(C) : x \in Of(l) \cup Of(F)
    BY <1>2 DEF Of
  <2>2. \A x \in Of(l) \cup Of(F) : x \in Of(C)
    BY <1>3 DEF Of
  <2> QED BY <2>1, <2>2
<1>5. ASSUME \A n \in 1 .. Len(F) : ~Holds(l, F[n].id),
              \A m, n \in 1 .. Len(F) : F[m].id = F[n].id => m = n,
              NEW I, Once(l, I), NEW i \in 1 .. Len(C), NEW j \in 1 .. Len(C),
              C[i].id = C[j].id, C[i].id \in I
       PROVE  i = j
  <2>1. CASE i \in 1 .. Len(l) /\ C[i] = l[i] /\ j \in 1 .. Len(l) /\ C[j] = l[j]
    BY <2>1, <1>5 DEF Once
  <2>2. CASE i \in 1 .. Len(l) /\ C[i] = l[i] /\ \E k \in 1 .. Len(F) : C[j] = F[k]
    BY <2>2, <1>5 DEF Holds
  <2>3. CASE j \in 1 .. Len(l) /\ C[j] = l[j] /\ \E k \in 1 .. Len(F) : C[i] = F[k]
    BY <2>3, <1>5 DEF Holds
  <2>4. ASSUME NEW k \in 1 .. Len(F), i = Len(l) + k, C[i] = F[k],
               NEW m \in 1 .. Len(F), j = Len(l) + m, C[j] = F[m]
        PROVE  i = j
    <3>1. F[k].id = F[m].id
      BY <1>5, <2>4
    <3> QED BY <1>5, <2>4, <3>1
  <2> QED BY <1>2, <2>1, <2>2, <2>3, <2>4
<1> QED BY <1>1, <1>4, <1>5 DEF Once, C

\* Where a page has what a list does not show.
NewOn(l, raw) == {j \in 1 .. Len(raw) : ~Holds(l, raw[j])}
\* Appending what is new of a page shows all of the page and nothing twice.
LEMMA PageAppended ==
    ASSUME NEW l \in Seq(Entries), NEW raw \in Seq(Ids), Ascends(raw), NEW P, NEW F,
           P = PageOf(raw), F = Keep(P, NewOn(l, raw))
    PROVE  /\ F \in Seq(Entries) /\ l \o F \in Seq(Entries)
           /\ \A e \in Of(l \o F) : e \in Of(l) \/ (e.id \in Of(raw) /\ e.failed = FALSE)
           /\ \A id \in Of(raw) : Holds(l \o F, id)
           /\ \A e \in Of(l) : e \in Of(l \o F)
           /\ \A I : Once(l, I) => Once(l \o F, I)
<1> DEFINE S == NewOn(l, raw)
<1>1. /\ P \in Seq(Entries) /\ Len(P) = Len(raw)
      /\ \A j \in 1 .. Len(raw) : P[j].id = raw[j]
      /\ \A e \in Of(P) : e.id \in Of(raw) /\ e.failed = FALSE
      /\ \A I : Once(P, I)
  BY Page
<1>2. S \in SUBSET (1 .. Len(P))
  BY <1>1 DEF NewOn
<1>3. /\ F \in Seq(Entries) /\ Len(F) \in Nat
      /\ Of(F) = {P[j] : j \in S}
      /\ \A n \in 1 .. Len(F) : F[n] = P[Nth(S, n)] /\ Nth(S, n) \in S
      /\ \A m, n \in 1 .. Len(F) : m # n => Nth(S, m) # Nth(S, n)
  <2>1. F = Keep(P, S)
    OBVIOUS
  <2> HIDE DEF S
  <2>2. /\ Keep(P, S) \in Seq(Entries) /\ Len(Keep(P, S)) \in Nat
        /\ Of(Keep(P, S)) = {P[j] : j \in S}
        /\ \A n \in 1 .. Len(Keep(P, S)) : Keep(P, S)[n] = P[Nth(S, n)] /\ Nth(S, n) \in S
        /\ \A m, n \in 1 .. Len(Keep(P, S)) : m # n => Nth(S, m) # Nth(S, n)
    <3>1. P \in Seq(Entries)
      BY <1>1
    <3> QED BY ONLY <3>1, <1>2, KeptEntries
  <2> QED BY <2>1, <2>2
<1>4. \A n \in 1 .. Len(F) : ~Holds(l, F[n].id)
  BY <1>1, <1>3 DEF NewOn
<1>5. \A m, n \in 1 .. Len(F) : F[m].id = F[n].id => m = n
  <2> SUFFICES ASSUME NEW m \in 1 .. Len(F), NEW n \in 1 .. Len(F), F[m].id = F[n].id PROVE m = n
    OBVIOUS
  <2>1. Nth(S, m) \in 1 .. Len(P) /\ Nth(S, n) \in 1 .. Len(P)
    BY <1>2, <1>3
  <2>2. Nth(S, m) = Nth(S, n)
    <3>1. Once(P, {F[m].id})
      BY <1>1
    <3> HIDE DEF S
    <3> QED BY <1>3, <2>1, <3>1 DEF Once
  <2> QED BY <1>3, <2>2
<1>6. \A id \in Of(raw) : Holds(l, id) \/ \E n \in 1 .. Len(F) : F[n].id = id
  <2> SUFFICES ASSUME NEW j \in 1 .. Len(raw), ~Holds(l, raw[j]) PROVE \E n \in 1 .. Len(F) : F[n].id = raw[j]
    BY DEF Of
  <2>1. P[j] \in Of(F)
    BY <1>3 DEF NewOn
  <2> QED BY <2>1, <1>1 DEF Of
<1>7. /\ l \o F \in Seq(Entries) /\ Of(l \o F) = Of(l) \cup Of(F)
      /\ \A I : Once(l, I) => Once(l \o F, I)
  BY <1>3, <1>4, <1>5, Joined
<1>8. Of(F) \subseteq Of(P)
  BY <1>2, <1>3 DEF Of
<1>9. ASSUME NEW id \in Of(raw) PROVE Holds(l \o F, id)
  <2>1. CASE Holds(l, id)
    BY <2>1, <1>7, ListEntries
  <2>2. CASE \E n \in 1 .. Len(F) : F[n].id = id
    <3>1. \E e \in Of(F) : e.id = id
      BY <2>2 DEF Of
    <3> QED BY <3>1, <1>7, ListEntries
  <2> QED BY <2>1, <2>2, <1>6
<1> QED BY <1>1, <1>3, <1>7, <1>8, <1>9

\* The first messages of an ascending list, and what lies beyond them.
LEMMA FirstOf ==
    ASSUME NEW rows \in Seq(Ids), Ascends(rows), NEW n,
           n = (IF Len(rows) > PageSize THEN PageSize ELSE Len(rows))
    PROVE  LET raw == SubSeq(rows, 1, n) IN
           /\ raw \in Seq(Ids) /\ Of(raw) \subseteq Of(rows) /\ Ascends(raw)
           /\ \A id \in Of(rows) :
                 id \in Of(raw) \/ (Len(rows) > PageSize /\ raw # <<>> /\ id > raw[Len(raw)])
<1> DEFINE raw == SubSeq(rows, 1, n)
<1>1. Len(rows) \in Nat /\ n \in Nat /\ n <= Len(rows) /\ (Len(rows) > PageSize => n = PageSize /\ n >= 1)
  BY ChatClientAssumption
<1>2. raw \in Seq(Ids) /\ Len(raw) = n /\ \A j \in 1 .. n : raw[j] = rows[j]
  BY <1>1
<1>3. 1 .. n \subseteq 1 .. Len(rows)
  BY <1>1
<1> HIDE DEF raw
<1>4. Of(raw) \subseteq Of(rows) /\ Ascends(raw)
  BY <1>1, <1>2, <1>3 DEF Of, Ascends
<1>5. ASSUME NEW j \in 1 .. Len(rows), rows[j] \notin Of(raw)
      PROVE  Len(rows) > PageSize /\ raw # <<>> /\ rows[j] > raw[Len(raw)]
  <2>1. j \notin 1 .. n
    BY <1>2, <1>5 DEF Of
  <2>2. j > n /\ Len(rows) > PageSize /\ n >= 1
    BY <1>1, <2>1, <1>5
  <2>3. rows[n] < rows[j] /\ n \in 1 .. n
    BY <2>2, <1>1 DEF Ascends
  <2>4. rows[n] \in Int /\ rows[j] \in Int
    <3>1. n \in 1 .. Len(rows) /\ \A i \in Ids : i \in Int
      BY <1>1, <2>2, ChatClientAssumption DEF Ids
    <3> QED BY <3>1
  <2> QED BY <1>1, <1>2, <2>2, <2>3, <2>4
<1> QED BY <1>2, <1>4, <1>5 DEF Of, raw

-----------------------------------------------------------------------------
(* What the actions do to the operations. *)

\* o gets these values, and no other operation is touched.
Becomes(o, kind, pc, target, id) ==
    /\ op' \in [Ops -> OpRecords]
    /\ \A q \in Ops : q # o => op'[q] = op[q]
    /\ op'[o].kind = kind /\ op'[o].pc = pc /\ op'[o].target = target /\ op'[o].id = id

\* Resetting an operation, or starting one.
LEMMA OpStarts ==
    ASSUME op \in [Ops -> OpRecords], NEW o \in Ops, NEW r \in OpRecords,
           op' = [op EXCEPT ![o] = r]
    PROVE  Becomes(o, r.kind, r.pc, r.target, r.id)
BY DEF Becomes

\* NoOp is an operation.
LEMMA NoOpFits ==
    NoOp \in OpRecords /\ NoOp.kind = "none" /\ NoOp.pc = "idle" /\ NoOp.target = 0 /\ NoOp.id = 0
<1>1. <<>> \in Seq(Ids) /\ 0 \in 0 .. MaxId /\ 0 \in (-MaxTexts) .. MaxId
  BY ChatClientAssumption
<1> QED BY <1>1 DEF NoOp, OpRecords

\* An operation moves on.
LEMMA OpMoves ==
    ASSUME op \in [Ops -> OpRecords], NEW o \in Ops,
           NEW pc \in {"idle", "get", "got", "post", "insert", "posted", "failed", "del"},
           op' = [op EXCEPT ![o].pc = pc]
    PROVE  Becomes(o, op[o].kind, pc, op[o].target, op[o].id)
<1>1. op[o] \in OpRecords
  OBVIOUS
<1>2. \A r \in OpRecords : [r EXCEPT !.pc = pc] \in OpRecords
  BY DEF OpRecords
<1>3. \A r \in OpRecords : LET s == [r EXCEPT !.pc = pc] IN
         s.kind = r.kind /\ s.pc = pc /\ s.target = r.target /\ s.id = r.id
  BY DEF OpRecords
<1> QED BY <1>1, <1>2, <1>3 DEF Becomes

\* It moves on with the id that was drawn for its row ...
LEMMA OpDraws ==
    ASSUME op \in [Ops -> OpRecords], NEW o \in Ops, NEW id \in 0 .. MaxId,
           op' = [op EXCEPT ![o].pc = "insert", ![o].id = id]
    PROVE  Becomes(o, op[o].kind, "insert", op[o].target, id)
<1>1. op[o] \in OpRecords
  OBVIOUS
<1>2. \A r \in OpRecords : LET s == [[r EXCEPT !.pc = "insert"] EXCEPT !.id = id] IN
         /\ s \in OpRecords
         /\ s.kind = r.kind /\ s.pc = "insert" /\ s.target = r.target /\ s.id = id
  BY DEF OpRecords
<1>3. op' = [op EXCEPT ![o] = [[op[o] EXCEPT !.pc = "insert"] EXCEPT !.id = id]]
  OBVIOUS
<1> QED BY <1>1, <1>2, <1>3 DEF Becomes

\* ... or with a page.
LEMMA OpReads ==
    ASSUME op \in [Ops -> OpRecords], NEW o \in Ops, NEW raw \in Seq(Ids), NEW more \in BOOLEAN,
           op' = [op EXCEPT ![o].pc = "got", ![o].more = more, ![o].raw = raw]
    PROVE  /\ Becomes(o, op[o].kind, "got", op[o].target, op[o].id)
           /\ op'[o].raw = raw /\ op'[o].more = more
<1>1. op[o] \in OpRecords
  OBVIOUS
<1>2. \A r \in OpRecords : LET s == [[[r EXCEPT !.pc = "got"] EXCEPT !.more = more] EXCEPT !.raw = raw] IN
         /\ s \in OpRecords /\ s.raw = raw /\ s.more = more
         /\ s.kind = r.kind /\ s.pc = "got" /\ s.target = r.target /\ s.id = r.id
  BY DEF OpRecords
<1>3. op' = [op EXCEPT ![o] = [[[op[o] EXCEPT !.pc = "got"] EXCEPT !.more = more] EXCEPT !.raw = raw]]
  OBVIOUS
<1> QED BY <1>1, <1>2, <1>3 DEF Becomes

\* A list over a set is one over a larger set.
LEMMA WiderSeq ==
    ASSUME NEW A, NEW B, A \subseteq B, NEW s \in Seq(A)
    PROVE  s \in Seq(B)
<1>1. Len(s) \in Nat /\ s = [j \in 1 .. Len(s) |-> s[j]] /\ \A j \in 1 .. Len(s) : s[j] \in B
  OBVIOUS
<1> QED BY <1>1

\* What each operation is after an action of its own.
LEMMA OpsAfter ==
    ASSUME ClientTypes, NEW o \in Ops
    PROVE  /\ SelectPeer(o) => UNCHANGED op \/ Becomes(o, "select", "get", 0, 0)
           /\ LoadMore(o) => Becomes(o, "more", "get", last, 0)
           /\ Send(o) => Becomes(o, "send", "post", -(texts + 1), 0)
           /\ ShowFirstPage(o) \/ ShowNextPage(o) \/ Confirm(o) \/ SendFailed(o)
              => Becomes(o, "none", "idle", 0, 0)
           /\ Post(o) =>
                \/ seq' = seq /\ Becomes(o, op[o].kind, "failed", op[o].target, op[o].id)
                \/ seq \in Ids /\ seq' = seq + 1 /\ Becomes(o, op[o].kind, "insert", op[o].target, seq)
           /\ Insert(o) =>
                \/ faults' = faults /\ Becomes(o, op[o].kind, "posted", op[o].target, op[o].id)
                \/ "answer" \in faults' /\ Becomes(o, op[o].kind, "failed", op[o].target, op[o].id)
           /\ DeleteRow(o) =>
                \/ Becomes(o, "none", "idle", 0, 0)
                \/ Becomes(o, op[o].kind, "get", op[o].target, op[o].id)
<1>0. /\ op \in [Ops -> OpRecords] /\ last \in 0 .. MaxId /\ texts \in 0 .. MaxTexts /\ seq \in 1 .. MaxId + 1
      /\ MaxId \in Nat /\ MaxTexts \in Nat
  BY ChatClientAssumption DEF ClientTypes
<1>1. Becomes(o, "none", "idle", 0, 0) \/ op' # [op EXCEPT ![o] = NoOp]
  BY <1>0, NoOpFits, OpStarts
<1>2. ASSUME SelectPeer(o) PROVE UNCHANGED op \/ Becomes(o, "select", "get", 0, 0)
  <2> DEFINE r == [NoOp EXCEPT !.kind = "select", !.pc = "get"]
  <2>1. r \in OpRecords /\ r.kind = "select" /\ r.pc = "get" /\ r.target = 0 /\ r.id = 0
    BY NoOpFits DEF OpRecords
  <2>2. UNCHANGED op \/ op' = [op EXCEPT ![o] = r]
    BY <1>2 DEF SelectPeer
  <2> HIDE DEF r
  <2> QED BY <1>0, <2>1, <2>2, OpStarts
<1>3. ASSUME LoadMore(o) PROVE Becomes(o, "more", "get", last, 0)
  <2> DEFINE r == [NoOp EXCEPT !.kind = "more", !.pc = "get", !.target = last]
  <2>1. r \in OpRecords /\ r.kind = "more" /\ r.pc = "get" /\ r.target = last /\ r.id = 0
    <3>1. last \in (-MaxTexts) .. MaxId
      BY <1>0
    <3> QED BY <3>1, NoOpFits DEF OpRecords
  <2>2. op' = [op EXCEPT ![o] = r]
    BY <1>3 DEF LoadMore
  <2> HIDE DEF r
  <2> QED BY <1>0, <2>1, <2>2, OpStarts
<1>4. ASSUME Send(o) PROVE Becomes(o, "send", "post", -(texts + 1), 0)
  <2> DEFINE r == [NoOp EXCEPT !.kind = "send", !.pc = "post", !.target = -(texts + 1)]
  <2>1. r \in OpRecords /\ r.kind = "send" /\ r.pc = "post" /\ r.target = -(texts + 1) /\ r.id = 0
    <3>1. texts < MaxTexts
      BY <1>4 DEF Send
    <3>2. -(texts + 1) \in (-MaxTexts) .. MaxId
      BY <1>0, <3>1
    <3> QED BY <3>2, NoOpFits DEF OpRecords
  <2>2. op' = [op EXCEPT ![o] = r]
    BY <1>4 DEF Send
  <2> HIDE DEF r
  <2> QED BY <1>0, <2>1, <2>2, OpStarts
<1>5. ASSUME ShowFirstPage(o) \/ ShowNextPage(o) \/ Confirm(o) \/ SendFailed(o)
      PROVE  Becomes(o, "none", "idle", 0, 0)
  BY <1>1, <1>5 DEF ShowFirstPage, ShowNextPage, Confirm, SendFailed
<1>6. \A pc \in {"get", "failed", "posted"} :
         op' = [op EXCEPT ![o].pc = pc] => Becomes(o, op[o].kind, pc, op[o].target, op[o].id)
  BY <1>0, OpMoves
<1>7. ASSUME Post(o)
      PROVE  \/ seq' = seq /\ Becomes(o, op[o].kind, "failed", op[o].target, op[o].id)
             \/ seq \in Ids /\ seq' = seq + 1 /\ Becomes(o, op[o].kind, "insert", op[o].target, seq)
  <2>1. CASE seq' = seq /\ op' = [op EXCEPT ![o].pc = "failed"]
    BY <1>6, <2>1
  <2>2. CASE seq \in Ids /\ seq' = seq + 1 /\ op' = [op EXCEPT ![o].pc = "insert", ![o].id = seq]
    <3>1. seq \in 0 .. MaxId
      BY <1>0, <2>2 DEF Ids
    <3> QED BY <1>0, <2>2, <3>1, OpDraws
  <2> QED BY <1>7, <2>1, <2>2 DEF Post
<1>8. ASSUME Insert(o)
      PROVE  \/ faults' = faults /\ Becomes(o, op[o].kind, "posted", op[o].target, op[o].id)
             \/ "answer" \in faults' /\ Becomes(o, op[o].kind, "failed", op[o].target, op[o].id)
  BY <1>6, <1>8 DEF Insert, Works, Fails
<1>9. ASSUME DeleteRow(o)
      PROVE  \/ Becomes(o, "none", "idle", 0, 0)
             \/ Becomes(o, op[o].kind, "get", op[o].target, op[o].id)
  BY <1>1, <1>6, <1>9 DEF DeleteRow
<1> QED BY <1>2, <1>3, <1>4, <1>5, <1>7, <1>8, <1>9

\* A page holds the messages after the target, or the first of them.
LEMMA PageIsRead ==
    ASSUME ClientTypes, NEW o \in Ops, GetPage(o)
    PROVE  \/ Becomes(o, "none", "idle", 0, 0)
           \/ /\ Becomes(o, op[o].kind, "got", op[o].target, op[o].id)
              /\ op'[o].raw \in Seq(Ids) /\ Of(op'[o].raw) \subseteq Inserted /\ Ascends(op'[o].raw)
              /\ \A id \in Inserted : id > op[o].target => id \in Of(op'[o].raw) \/ Beyond(op'[o], id)
<1> DEFINE S == {id \in Inserted : id > op[o].target}
           rows == Sorted(S)
           n == IF Len(rows) > PageSize THEN PageSize ELSE Len(rows)
           raw == SubSeq(rows, 1, n)
<1>0. op \in [Ops -> OpRecords] /\ MaxId \in Nat /\ MaxTexts \in Nat
  BY ChatClientAssumption DEF ClientTypes
<1>1. S \in SUBSET (1 .. MaxId) /\ S \subseteq Ids
  BY DEF Inserted, Ids
<1>2. rows \in Seq(S) /\ Of(rows) = S /\ Ascends(rows) /\ Len(rows) \in Nat
  <2> HIDE DEF S
  <2> QED BY <1>0, <1>1, SortedMembers
<1>3. rows \in Seq(Ids)
  <2> HIDE DEF S, rows
  <2> QED BY <1>1, <1>2, WiderSeq
<1>4. /\ raw \in Seq(Ids) /\ Of(raw) \subseteq Of(rows) /\ Ascends(raw)
      /\ \A id \in Of(rows) :
            id \in Of(raw) \/ (Len(rows) > PageSize /\ raw # <<>> /\ id > raw[Len(raw)])
  <2> HIDE DEF rows
  <2> QED BY <1>2, <1>3, FirstOf
<1>5. \/ op' = [op EXCEPT ![o].pc = "got", ![o].more = Len(rows) > PageSize, ![o].raw = raw]
      \/ op' = [op EXCEPT ![o] = NoOp]
  BY DEF GetPage
<1>6. CASE op' = [op EXCEPT ![o] = NoOp]
  BY <1>0, <1>6, NoOpFits, OpStarts
<1>7. CASE op' = [op EXCEPT ![o].pc = "got", ![o].more = Len(rows) > PageSize, ![o].raw = raw]
  <2>1. (Len(rows) > PageSize) \in BOOLEAN
    OBVIOUS
  <2>2. /\ Becomes(o, op[o].kind, "got", op[o].target, op[o].id)
        /\ op'[o].raw = raw /\ op'[o].more = (Len(rows) > PageSize)
    <3> HIDE DEF rows, raw
    <3> QED BY <1>0, <1>4, <1>7, <2>1, OpReads
  <2>3. Of(raw) \subseteq Inserted
    BY <1>2, <1>4
  <2>4. \A id \in Inserted : id > op[o].target => id \in Of(rows)
    <3> HIDE DEF rows
    <3> QED BY <1>2
  <2> HIDE DEF rows, raw
  <2> QED BY <1>4, <2>2, <2>3, <2>4 DEF Beyond
<1> QED BY <1>5, <1>6, <1>7

-----------------------------------------------------------------------------
(* What the actions do to the list. *)

\* The parts together are inductive.
ChatInv ==
    /\ ClientTypes /\ IdsAreDrawn /\ OpsFit /\ EntriesFit /\ ClientFits
    /\ OneSender /\ Pending /\ StoredIsSettled /\ StoredOnceUnlessAnswerLost
    /\ PageMissesNothing /\ ListMissesNothing /\ ShownOnce

\* The list stays one, still has each message of the peer at most once, and loses no
\* message of the peer that a page has not replaced.
ListGood ==
    /\ list' \in Seq(Entries) \cup {None}
    /\ list # None => list' # None
    /\ \A id \in Alive : Holds(Listed, id) => Holds(Listed', id) \/ id \in dropped'
    /\ Once(Listed', {id \in Ids : row[id] = 0})
\* What is new in it is stored.
NoNews == \A e \in Of(Listed') : e \in Of(Listed) \/ (e.id \in Inserted /\ e.failed = FALSE)
\* Only the marks of a text change.
Marks(id, f) == \A e \in Of(Listed') : (e.id = id /\ e.failed = f) \/ (e \in Of(Listed) /\ e.id # id)

\* The list, or the empty one.
LEMMA ListIs ==
    ASSUME ClientTypes
    PROVE  /\ Listed \in Seq(Entries) /\ Of(Listed) \subseteq Entries
           /\ list # None => Listed = list
           /\ list = None => Of(Listed) = {}
           /\ \A id : Holds(Listed, id) <=> \E e \in Of(Listed) : e.id = id
<1>1. list \in Seq(Entries) \cup {None}
  BY DEF ClientTypes
<1>2. Listed \in Seq(Entries) /\ (list # None => Listed = list) /\ (list = None => Listed = <<>>)
  <2>1. <<>> \in Seq(Entries)
    OBVIOUS
  <2> QED BY <1>1, <2>1 DEF Listed
<1>3. list = None => Of(Listed) = {}
  <2>1. 1 .. Len(<<>>) = {}
    OBVIOUS
  <2> QED BY <1>2, <2>1 DEF Of
<1> QED BY <1>2, <1>3, ListEntries

\* The list after an action that has set it.
LEMMA ListBecomes ==
    ASSUME NEW l \in Seq(Entries), list' = l
    PROVE  /\ Listed' = l /\ list' # None /\ list' \in Seq(Entries) \cup {None}
           /\ \A id : Holds(l, id) <=> \E e \in Of(l) : e.id = id
<1>1. list' # None
  BY ChatClientAssumption
<1> QED BY <1>1, ListEntries DEF Listed

\* A message that was decrypted is in the list.
LEMMA DecryptedList ==
    ASSUME ChatInv, NEW id \in Ids, Decrypted(id)
    PROVE  ListGood /\ NoNews /\ Holds(Listed', id) /\ list' # None
<1>0. ClientTypes /\ ShownOnce /\ id \in Inserted
  BY DEF ChatInv, ClientTypes, Decrypted
<1>1. /\ Listed \in Seq(Entries) /\ (list # None => Listed = list) /\ (list = None => Of(Listed) = {})
      /\ \A i : Holds(Listed, i) <=> \E e \in Of(Listed) : e.id = i
  BY <1>0, ListIs
<1>2. CASE Holds(Listed, id)
  <2>1. list' = list /\ list # None
    BY <1>1, <1>2 DEF Decrypted, AfterMessage
  <2>2. Listed' = Listed
    BY <2>1 DEF Listed
  <2> QED BY <1>0, <1>1, <1>2, <2>1, <2>2 DEF ListGood, NoNews, ShownOnce
<1>3. CASE ~Holds(Listed, id)
  <2> DEFINE l == Append(Listed, Entry(id))
  <2>1. Entry(id) \in Entries /\ Entry(id).id = id /\ Entry(id).failed = FALSE
    BY EntryFields, ChatClientAssumption DEF Ids
  <2>2. /\ l \in Seq(Entries) /\ Of(l) = Of(Listed) \cup {Entry(id)}
        /\ \A I : Once(Listed, I) => Once(l, I)
    BY <1>1, <1>3, <2>1, Appended
  <2>3. list' = l
    BY <1>3 DEF Decrypted, AfterMessage
  <2> HIDE DEF l
  <2>4. /\ Listed' = l /\ list' # None /\ list' \in Seq(Entries) \cup {None}
        /\ \A i : Holds(l, i) <=> \E e \in Of(l) : e.id = i
    BY <2>2, <2>3, ListBecomes
  <2>5. \A i : Holds(Listed, i) => Holds(l, i)
    BY <1>1, <2>2, <2>4
  <2>6. Holds(l, id)
    BY <2>1, <2>2, <2>4
  <2>7. Once(l, {i \in Ids : row[i] = 0})
    BY <1>0, <2>2 DEF ShownOnce
  <2>8. \A e \in Of(l) : e \in Of(Listed) \/ (e.id \in Inserted /\ e.failed = FALSE)
    BY <1>0, <2>1, <2>2
  <2> QED BY <2>4, <2>5, <2>6, <2>7, <2>8 DEF ListGood, NoNews
<1> QED BY <1>2, <1>3

\* A deleted message goes.
LEMMA MessageDeletedList ==
    ASSUME ChatInv, OnMessageDeleted
    PROVE  ListGood /\ NoNews /\ (list = None => list' = None)
<1>0. /\ ClientTypes /\ ShownOnce /\ list \in Seq(Entries) \cup {None}
      /\ wire \in Seq([type : {"message", "deleted"}, id : Inserted])
      /\ \A j \in 1 .. Len(wire) : wire[j].type = "deleted" => wire[j].id \in deleted
  BY DEF ChatInv, ClientTypes, ClientFits
<1>1. /\ Listed \in Seq(Entries) /\ (list # None => Listed = list) /\ (list = None => Of(Listed) = {})
      /\ \A i : Holds(Listed, i) <=> \E e \in Of(Listed) : e.id = i
  BY <1>0, ListIs
<1>2. Head(wire).id \in deleted
  <2>1. wire # <<>> /\ Head(wire).type = "deleted"
    BY DEF OnMessageDeleted
  <2>2. Len(wire) \in Nat /\ Len(wire) # 0 /\ Head(wire) = wire[1]
    BY <1>0, <2>1
  <2> QED BY <1>0, <2>1, <2>2
<1>3. CASE list = None
  <2>1. list' = None /\ Listed' = Listed
    BY <1>3 DEF OnMessageDeleted, Listed
  <2> QED BY <1>0, <1>1, <1>3, <2>1 DEF ListGood, NoNews, ShownOnce
<1>4. CASE list # None
  <2> DEFINE l == Without(Listed, Head(wire).id)
  <2>1. /\ l \in Seq(Entries) /\ Of(l) = {e \in Of(Listed) : e.id # Head(wire).id}
        /\ \A I : Once(Listed, I) => Once(l, I)
    BY <1>1, Removed
  <2>2. list' = l
    BY <1>1, <1>4 DEF OnMessageDeleted
  <2> HIDE DEF l
  <2>3. /\ Listed' = l /\ list' # None /\ list' \in Seq(Entries) \cup {None}
        /\ \A i : Holds(l, i) <=> \E e \in Of(l) : e.id = i
    BY <2>1, <2>2, ListBecomes
  <2>4. \A i \in Alive : Holds(Listed, i) => Holds(l, i)
    <3>1. \A i \in Alive : i # Head(wire).id
      BY <1>2 DEF Alive
    <3> QED BY <1>1, <2>1, <2>3, <3>1
  <2>5. Once(l, {i \in Ids : row[i] = 0})
    BY <1>0, <2>1 DEF ShownOnce
  <2> QED BY <1>4, <2>1, <2>3, <2>4, <2>5 DEF ListGood, NoNews
<1> QED BY <1>3, <1>4

\* Sending puts a new optimistic entry at the end.
LEMMA SendList ==
    ASSUME ChatInv, NEW o \in Ops, Send(o)
    PROVE  /\ ListGood /\ list' # None
           /\ \A e \in Of(Listed') : e \in Of(Listed) \/ (e.id = -(texts + 1) /\ e.failed = FALSE)
<1> DEFINE t == -(texts + 1)
           l == Append(Listed, Entry(t))
<1>0. ClientTypes /\ ShownOnce /\ texts \in 0 .. MaxTexts /\ texts < MaxTexts
  BY DEF ChatInv, ClientTypes, Send
<1>1. /\ Listed \in Seq(Entries)
      /\ \A i : Holds(Listed, i) <=> \E e \in Of(Listed) : e.id = i
  BY <1>0, ListIs
<1>2. t \in (-MaxTexts) .. MaxId /\ t \notin Ids
  BY <1>0, ChatClientAssumption DEF Ids
<1>3. list' = l
  BY DEF Send
<1> HIDE DEF t
<1>4. Entry(t) \in Entries /\ Entry(t).id = t /\ Entry(t).failed = FALSE
  BY <1>2, EntryFields
<1>5. /\ l \in Seq(Entries) /\ Of(l) = Of(Listed) \cup {Entry(t)}
      /\ Once(Listed, {i \in Ids : row[i] = 0}) => Once(l, {i \in Ids : row[i] = 0})
  <2>1. t \notin {i \in Ids : row[i] = 0}
    BY <1>2
  <2> QED BY <1>1, <1>4, <2>1, Appended
<1> HIDE DEF l
<1>6. /\ Listed' = l /\ list' # None /\ list' \in Seq(Entries) \cup {None}
      /\ \A i : Holds(l, i) <=> \E e \in Of(l) : e.id = i
  BY <1>3, <1>5, ListBecomes
<1>7. \A i : Holds(Listed, i) => Holds(l, i)
  BY <1>1, <1>5, <1>6
<1>8. \A e \in Of(l) : e \in Of(Listed) \/ (e.id = t /\ e.failed = FALSE)
  BY <1>4, <1>5
<1>9. ListGood
  BY <1>0, <1>5, <1>6, <1>7 DEF ListGood, ShownOnce
<1> QED BY <1>6, <1>8, <1>9 DEF t

\* Marking a list.
LEMMA MarkedList ==
    ASSUME ChatInv, NEW id, NEW f \in BOOLEAN, list' = MarkFailed(Listed, id, f)
    PROVE  ListGood /\ list' # None /\ Marks(id, f)
<1> DEFINE l == MarkFailed(Listed, id, f)
<1>0. ClientTypes /\ ShownOnce
  BY DEF ChatInv
<1>1. /\ Listed \in Seq(Entries)
      /\ \A i : Holds(Listed, i) <=> \E e \in Of(Listed) : e.id = i
  BY <1>0, ListIs
<1>2. /\ l \in Seq(Entries)
      /\ \A e \in Of(l) : (e.id = id /\ e.failed = f) \/ (e \in Of(Listed) /\ e.id # id)
      /\ \A d \in Of(Listed) : \E e \in Of(l) : e.id = d.id
      /\ \A I : Once(Listed, I) => Once(l, I)
  BY <1>1, Marked
<1>3. list' = l
  OBVIOUS
<1> HIDE DEF l
<1>4. /\ Listed' = l /\ list' # None /\ list' \in Seq(Entries) \cup {None}
      /\ \A i : Holds(l, i) <=> \E e \in Of(l) : e.id = i
  BY <1>2, <1>3, ListBecomes
<1>5. \A i : Holds(Listed, i) => Holds(l, i)
  BY <1>1, <1>2, <1>4
<1> QED BY <1>0, <1>2, <1>4, <1>5 DEF ListGood, ShownOnce, Marks

\* A retry takes the mark of a failed text away and sends that text.
LEMMA RetryList ==
    ASSUME ChatInv, NEW o \in Ops, Retry(o)
    PROVE  \E d \in Of(Listed) :
              /\ d.failed /\ d.id \in (-texts) .. -1
              /\ ListGood /\ list' # None /\ Marks(d.id, FALSE)
              /\ Becomes(o, "send", "post", d.id, 0)
<1>0. /\ ClientTypes /\ EntriesFit /\ op \in [Ops -> OpRecords] /\ texts \in 0 .. MaxTexts
      /\ MaxTexts \in Nat /\ MaxId \in Nat
  BY ChatClientAssumption DEF ChatInv, ClientTypes
<1>1. /\ Listed \in Seq(Entries) /\ Of(Listed) \subseteq Entries
      /\ (list # None => Listed = list) /\ (list = None => Of(Listed) = {})
  BY <1>0, ListIs
<1>2. PICK j \in 1 .. Len(Listed) :
        /\ list[j].failed
        /\ list' = MarkFailed(list, list[j].id, FALSE)
        /\ op' = [op EXCEPT ![o] = [NoOp EXCEPT !.kind = "send", !.pc = "post", !.target = list[j].id]]
  BY DEF Retry
<1>3. Listed[j] \in Of(Listed) /\ Listed = list
  BY <1>1 DEF Of
<1>4. PICK d \in Of(Listed) : d = Listed[j]
  BY <1>3
<1>5. d.failed /\ d.id \in (-texts) .. -1
  BY <1>0, <1>2, <1>3, <1>4 DEF EntriesFit, EntryFits
<1>6. ListGood /\ list' # None /\ Marks(d.id, FALSE)
  BY <1>2, <1>3, <1>4, MarkedList
<1>7. Becomes(o, "send", "post", d.id, 0)
  <2> DEFINE r == [NoOp EXCEPT !.kind = "send", !.pc = "post", !.target = d.id]
  <2>1. r \in OpRecords /\ r.kind = "send" /\ r.pc = "post" /\ r.target = d.id /\ r.id = 0
    <3>1. d.id \in (-MaxTexts) .. MaxId
      BY <1>0, <1>5
    <3> QED BY <3>1, NoOpFits DEF OpRecords
  <2>2. op' = [op EXCEPT ![o] = r]
    BY <1>2, <1>3, <1>4
  <2> HIDE DEF r
  <2> QED BY <1>0, <2>1, <2>2, OpStarts
<1> QED BY <1>5, <1>6, <1>7

\* A saved message takes the place of the optimistic entries of its text.
LEMMA ConfirmList ==
    ASSUME ChatInv, NEW o \in Ops, Confirm(o)
    PROVE  /\ ListGood /\ NoNews /\ list' # None
           /\ \A e \in Of(Listed') : e.id # op[o].target
<1> DEFINE t == op[o].target
           id == op[o].id
<1>a. PICK l : l = Settled(Listed, t, id)
  OBVIOUS
<1>0. /\ ClientTypes /\ ShownOnce /\ id \in Inserted /\ id \in Ids /\ row[id] # 0 /\ t \in (-texts) .. -1
      /\ texts \in 0 .. MaxTexts
  BY DEF ChatInv, ClientTypes, OpsFit, OpFits, Confirm, Inserted
<1>1. /\ Listed \in Seq(Entries) /\ Of(Listed) \subseteq Entries
      /\ \A i : Holds(Listed, i) <=> \E e \in Of(Listed) : e.id = i
  BY <1>0, ListIs
<1>2. list' = l
  BY <1>a DEF Confirm, Settled
<1>3. Entry(id).id = id /\ Entry(id).failed = FALSE
  BY <1>0, EntryFields, ChatClientAssumption DEF Ids
<1>4. t \notin Ids
  BY <1>0, ChatClientAssumption DEF Ids
<1> HIDE DEF t, id
<1>5. /\ l \in Seq(Entries)
      /\ \A e \in Of(l) : e = Entry(id) \/ (e \in Of(Listed) /\ e.id # t)
      /\ \A e \in Of(Listed) : e.id # t => e \in Of(l)
      /\ \A I : Once(Listed, I) /\ id \notin I => Once(l, I)
  <2>1. Listed \in Seq(Entries) /\ id \in Ids
    BY <1>0, <1>1
  <2> QED BY ONLY <2>1, <1>a, Confirmed
<1>6. /\ Listed' = l /\ list' # None /\ list' \in Seq(Entries) \cup {None}
      /\ \A i : Holds(l, i) <=> \E e \in Of(l) : e.id = i
  BY <1>2, <1>5, ListBecomes
<1>7. \A i \in Alive : Holds(Listed, i) => Holds(l, i)
  <2>1. \A i \in Alive : i # t
    BY <1>4 DEF Alive, Inserted
  <2> QED BY <1>1, <1>5, <1>6, <2>1
<1>8. Once(l, {i \in Ids : row[i] = 0})
  BY <1>0, <1>5 DEF ShownOnce
<1>9. \A e \in Of(l) : e.id # t /\ (e \in Of(Listed) \/ (e.id \in Inserted /\ e.failed = FALSE))
  BY <1>0, <1>3, <1>4, <1>5
<1> QED BY <1>6, <1>7, <1>8, <1>9 DEF ListGood, NoNews, t

\* Deleting takes an own message out.
LEMMA DeleteList ==
    ASSUME ChatInv, NEW o \in Ops, Delete(o)
    PROVE  /\ ListGood /\ NoNews /\ list' # None
           /\ \E id \in Inserted : row[id] # 0 /\ Becomes(o, "delete", "del", 0, id)
<1>0. /\ ClientTypes /\ ShownOnce /\ EntriesFit /\ op \in [Ops -> OpRecords] /\ texts \in 0 .. MaxTexts
      /\ MaxTexts \in Nat /\ MaxId \in Nat
  BY ChatClientAssumption DEF ChatInv, ClientTypes
<1>1. /\ Listed \in Seq(Entries) /\ Of(Listed) \subseteq Entries
      /\ (list # None => Listed = list) /\ (list = None => Of(Listed) = {})
      /\ \A i : Holds(Listed, i) <=> \E e \in Of(Listed) : e.id = i
  BY <1>0, ListIs
<1>2. PICK j \in 1 .. Len(Listed) :
        /\ list[j].id > 0 /\ row[list[j].id] # 0
        /\ list' = Without(list, list[j].id)
        /\ op' = [op EXCEPT ![o] = [NoOp EXCEPT !.kind = "delete", !.pc = "del", !.id = list[j].id]]
  BY DEF Delete
<1>3. Listed[j] \in Of(Listed) /\ Listed = list
  BY <1>1 DEF Of
<1>4. PICK id : id = list[j].id
  OBVIOUS
<1>5. id \in Inserted /\ row[id] # 0 /\ id \in 0 .. MaxId
  <2>1. id \in Inserted
    BY <1>0, <1>2, <1>3, <1>4 DEF EntriesFit, EntryFits
  <2> QED BY <1>0, <1>2, <1>4, <2>1 DEF Inserted, Ids
<1> DEFINE l == Without(Listed, id)
<1>6. /\ l \in Seq(Entries) /\ Of(l) = {e \in Of(Listed) : e.id # id}
      /\ \A I : Once(Listed, I) => Once(l, I)
  BY <1>1, Removed
<1>7. list' = l
  BY <1>2, <1>3, <1>4
<1> HIDE DEF l
<1>8. /\ Listed' = l /\ list' # None /\ list' \in Seq(Entries) \cup {None}
      /\ \A i : Holds(l, i) <=> \E e \in Of(l) : e.id = i
  BY <1>6, <1>7, ListBecomes
<1>9. \A i \in Alive : Holds(Listed, i) => Holds(l, i)
  <2>1. \A i \in Alive : i # id
    BY <1>5 DEF Alive
  <2> QED BY <1>1, <1>6, <1>8, <2>1
<1>10. ListGood /\ NoNews
  BY <1>0, <1>6, <1>8, <1>9 DEF ListGood, NoNews, ShownOnce
<1>11. Becomes(o, "delete", "del", 0, id)
  <2> DEFINE r == [NoOp EXCEPT !.kind = "delete", !.pc = "del", !.id = id]
  <2>1. r \in OpRecords /\ r.kind = "delete" /\ r.pc = "del" /\ r.target = 0 /\ r.id = id
    BY <1>5, NoOpFits DEF OpRecords
  <2>2. op' = [op EXCEPT ![o] = r]
    BY <1>2, <1>4
  <2> HIDE DEF r
  <2> QED BY <1>0, <2>1, <2>2, OpStarts
<1> QED BY <1>5, <1>8, <1>10, <1>11

\* A page that replaces the list shows its messages, and a gone entry is recorded as dropped.
LEMMA FirstPageList ==
    ASSUME ChatInv, NEW o \in Ops, ShowFirstPage(o)
    PROVE  /\ ListGood /\ NoNews /\ list' # None /\ dropped' \subseteq Ids /\ dropped \subseteq dropped'
           /\ \A id \in Of(op[o].raw) : Holds(Listed', id)
<1> DEFINE raw == op[o].raw
<1>0. /\ ClientTypes /\ ShownOnce /\ raw \in Seq(Ids) /\ Of(raw) \subseteq Inserted /\ Ascends(raw)
      /\ dropped \subseteq Ids
  BY DEF ChatInv, ClientTypes, OpsFit, OpFits, ShowFirstPage, OpRecords
<1>1. PICK l : l = PageEntries(o)
  OBVIOUS
<1>2. /\ l \in Seq(Entries)
      /\ \A e \in Of(l) : e.id \in Of(raw) /\ e.failed = FALSE
      /\ \A id : Holds(l, id) <=> id \in Of(raw)
      /\ \A I : Once(l, I)
  <2>1. l = PageOf(raw)
    BY <1>1 DEF PageEntries, PageOf
  <2> HIDE DEF raw
  <2> QED BY <1>0, <2>1, Page
<1>3. list' = l /\ dropped' = dropped \cup {id \in Ids : Holds(Listed, id) /\ ~Holds(l, id)}
  BY <1>1 DEF ShowFirstPage
<1>4. Listed' = l /\ list' # None /\ list' \in Seq(Entries) \cup {None}
  BY <1>2, <1>3, ListBecomes
<1>5. \A id \in Alive : Holds(Listed, id) => Holds(l, id) \/ id \in dropped'
  BY <1>3 DEF Alive, Inserted
<1> QED BY <1>0, <1>2, <1>3, <1>4, <1>5 DEF ListGood, NoNews

\* A page that is appended shows its messages and takes no entry away.
LEMMA NextPageList ==
    ASSUME ChatInv, NEW o \in Ops, ShowNextPage(o), op[o].raw # <<>>
    PROVE  /\ ListGood /\ NoNews
           /\ \A id \in Of(op[o].raw) : Holds(Listed', id)
<1> DEFINE raw == op[o].raw
<1>0. /\ ClientTypes /\ ShownOnce /\ raw \in Seq(Ids) /\ Of(raw) \subseteq Inserted /\ Ascends(raw)
      /\ dropped \subseteq Ids
  BY DEF ChatInv, ClientTypes, OpsFit, OpFits, ShowNextPage, OpRecords
<1>1. /\ Listed \in Seq(Entries) /\ (list # None => Listed = list) /\ (list = None => Of(Listed) = {})
      /\ \A i : Holds(Listed, i) <=> \E e \in Of(Listed) : e.id = i
  BY <1>0, ListIs
<1>2. PICK P : P = PageEntries(o)
  OBVIOUS
<1>3. PICK F : F = Fresh(o)
  OBVIOUS
<1> DEFINE l == Listed \o F
<1>4. /\ F \in Seq(Entries) /\ l \in Seq(Entries)
      /\ \A e \in Of(l) : e \in Of(Listed) \/ (e.id \in Of(raw) /\ e.failed = FALSE)
      /\ \A id \in Of(raw) : Holds(l, id)
      /\ \A e \in Of(Listed) : e \in Of(l)
      /\ \A I : Once(Listed, I) => Once(l, I)
  <2>1. P = PageOf(raw) /\ F = Keep(P, NewOn(Listed, raw))
    BY <1>2, <1>3 DEF PageEntries, Fresh, PageOf, NewOn
  <2> HIDE DEF raw
  <2>2. Listed \in Seq(Entries) /\ raw \in Seq(Ids) /\ Ascends(raw)
    BY <1>0, <1>1
  <2> QED BY ONLY <2>1, <2>2, PageAppended
<1>5. list' = IF F = <<>> THEN list ELSE l
  BY <1>3 DEF ShowNextPage
<1>6. CASE F = <<>> /\ list = None
  <2>1. l = <<>>
    BY <1>6 DEF Listed
  <2>2. Of(raw) = {}
    <3>1. \A id : ~Holds(<<>>, id)
      BY DEF Holds
    <3> QED BY <1>4, <2>1, <3>1
  <2>3. list' = None /\ Listed' = Listed
    BY <1>5, <1>6 DEF Listed
  <2> QED BY <1>0, <1>6, <2>2, <2>3, <1>1 DEF ListGood, NoNews, ShownOnce
<1>7. CASE ~(F = <<>> /\ list = None)
  <2>1. list' = l
    BY <1>1, <1>4, <1>5, <1>7
  <2> HIDE DEF l
  <2>2. /\ Listed' = l /\ list' # None /\ list' \in Seq(Entries) \cup {None}
        /\ \A i : Holds(l, i) <=> \E e \in Of(l) : e.id = i
    BY <1>4, <2>1, ListBecomes
  <2>3. \A i : Holds(Listed, i) => Holds(l, i)
    BY <1>1, <1>4, <2>2
  <2> QED BY <1>0, <1>4, <2>2, <2>3 DEF ListGood, NoNews, ShownOnce
<1> QED BY <1>6, <1>7

-----------------------------------------------------------------------------
(* The steps, by the variables they change. *)

RowsChange    == PeerDraw \/ PeerSend \/ \E o \in Ops : Post(o) \/ Insert(o)
DeletedChange == PeerDelete \/ \E o \in Ops : DeleteRow(o)
WireChange    == PushEvent \/ Reconnect \/ OnMessage \/ OnMessageDeleted
UnsentChange  == PeerSend \/ PeerDelete \/ PushEvent \/ LoseEvent \/ \E o \in Ops : DeleteRow(o)
ListChange    == \/ OnMessageDeleted \/ \E id \in Ids : Decrypted(id)
                 \/ \E o \in Ops : \/ Send(o) \/ Retry(o) \/ Delete(o) \/ Confirm(o) \/ SendFailed(o)
                                   \/ ShowFirstPage(o) \/ ShowNextPage(o)
OpChange      == \E o \in Ops : SelectPeer(o) \/ LoadMore(o) \/ Send(o) \/ Retry(o) \/ Delete(o) \/ OpStep(o)

\* A step changes each variable by one of the actions that write it.
LEMMA Changes ==
    ASSUME [ChatNext]_chatVars
    PROVE  /\ UNCHANGED <<row, drawn, seq>> \/ RowsChange
           /\ UNCHANGED deleted \/ DeletedChange
           /\ UNCHANGED wire \/ WireChange
           /\ UNCHANGED unsent \/ UnsentChange
           /\ \/ UNCHANGED untold \/ PeerSend \/ PushEvent \/ Reconnect
              \/ \E o \in Ops : ShowFirstPage(o) \/ ShowNextPage(o)
           /\ UNCHANGED list \/ ListChange
           /\ UNCHANGED op \/ OpChange
           /\ UNCHANGED reconnects \/ Reconnect
           /\ UNCHANGED decrypting \/ OnMessage \/ \E id \in Ids : Decrypted(id)
           /\ UNCHANGED begun \/ (\E id \in Ids : Decrypted(id)) \/ \E o \in Ops : Send(o) \/ ShowFirstPage(o)
           /\ UNCHANGED dropped \/ \E o \in Ops : ShowFirstPage(o)
           /\ UNCHANGED page \/ \E o \in Ops : ShowFirstPage(o) \/ ShowNextPage(o)
           /\ UNCHANGED texts \/ \E o \in Ops : Send(o)
           /\ \/ UNCHANGED faults \/ Reconnect \/ LoseEvent
              \/ \E o \in Ops : GetPage(o) \/ Post(o) \/ Insert(o) \/ DeleteRow(o)
           /\ UNCHANGED known \/ LoadContacts
           /\ UNCHANGED active \/ \E o \in Ops : SelectPeer(o)
<1> USE DEF RowsChange, DeletedChange, WireChange, UnsentChange, ListChange, OpChange, OpStep,
            table, socket, page, past, Begins, Works
<1>1. CASE PeerDraw
  BY <1>1 DEF PeerDraw
<1>2. CASE PeerSend
  BY <1>2 DEF PeerSend
<1>3. CASE PeerDelete
  BY <1>3 DEF PeerDelete
<1>4. CASE Reconnect
  BY <1>4 DEF Reconnect
<1>5. CASE OnMessage
  BY <1>5 DEF OnMessage
<1>6. CASE OnMessageDeleted
  BY <1>6 DEF OnMessageDeleted
<1>7. CASE LoadContacts
  BY <1>7 DEF LoadContacts
<1>8. CASE \E id \in Ids : Decrypted(id)
  BY <1>8 DEF Decrypted
<1>9. CASE \E o \in Ops : SelectPeer(o)
  BY <1>9 DEF SelectPeer
<1>10. CASE \E o \in Ops : LoadMore(o)
  BY <1>10 DEF LoadMore
<1>11. CASE \E o \in Ops : Send(o)
  BY <1>11 DEF Send
<1>12. CASE \E o \in Ops : Retry(o)
  BY <1>12 DEF Retry
<1>13. CASE \E o \in Ops : Delete(o)
  BY <1>13 DEF Delete
<1>14. CASE \E o \in Ops : GetPage(o)
  BY <1>14 DEF GetPage
<1>15. CASE \E o \in Ops : ShowFirstPage(o)
  BY <1>15 DEF ShowFirstPage
<1>16. CASE \E o \in Ops : ShowNextPage(o)
  BY <1>16 DEF ShowNextPage
<1>17. CASE \E o \in Ops : Post(o)
  BY <1>17 DEF Post
<1>18. CASE \E o \in Ops : Insert(o)
  BY <1>18 DEF Insert
<1>19. CASE \E o \in Ops : Confirm(o)
  BY <1>19 DEF Confirm
<1>20. CASE \E o \in Ops : SendFailed(o)
  BY <1>20 DEF SendFailed
<1>21. CASE \E o \in Ops : DeleteRow(o)
  BY <1>21 DEF DeleteRow
<1>22. CASE UNCHANGED chatVars
  BY <1>22 DEF chatVars
<1>23. CASE PushEvent
  BY <1>23 DEF PushEvent
<1>24. CASE LoseEvent
  BY <1>24 DEF LoseEvent
<1> QED
  BY <1>1, <1>2, <1>3, <1>4, <1>5, <1>6, <1>7, <1>8, <1>9, <1>10, <1>11, <1>12, <1>13, <1>14,
     <1>15, <1>16, <1>17, <1>18, <1>19, <1>20, <1>21, <1>22, <1>23, <1>24 DEF ChatNext

-----------------------------------------------------------------------------
(* Every step preserves the invariant. *)

\* Intervals grow with their ends.
LEMMA Wider ==
    ASSUME NEW a \in Int, NEW b \in Int, a <= b
    PROVE  /\ \A k \in 1 .. a - 1 : k \in 1 .. b - 1
           /\ \A k \in (-a) .. -1 : k \in (-b) .. -1
OBVIOUS

\* An insert: its id is new, and its text is being sent.
LEMMA InsertFacts ==
    ASSUME ChatInv, NEW o \in Ops, Insert(o)
    PROVE  /\ op[o].id \in Ids \ (drawn \cup Inserted) /\ op[o].id \in 1 .. seq - 1
           /\ -op[o].target \in 1 .. texts /\ -op[o].target # 0 /\ Sending(o)
           /\ row' = [row EXCEPT ![op[o].id] = -op[o].target]
<1>1. /\ op[o].pc = "insert" /\ seq \in 1 .. MaxId + 1 /\ texts \in 0 .. MaxTexts
      /\ op[o].id \in (1 .. seq - 1) \ (drawn \cup Inserted)
      /\ op[o].target \in (-texts) .. -1
  BY DEF Insert, ChatInv, ClientTypes, IdsAreDrawn, OpsFit, OpFits
<1>2. op[o].id \in Ids
  BY <1>1, ChatClientAssumption DEF Ids
<1>3. -op[o].target \in 1 .. texts /\ -op[o].target # 0
  BY <1>1
<1> QED BY <1>1, <1>2, <1>3 DEF Insert, Sending

\* Rows are only added, with an id that was drawn and a text that was composed.
RowsGrow ==
    /\ row' \in [Ids -> (0 .. MaxTexts) \cup {None}]
    /\ Inserted \subseteq Inserted'
    /\ \A id \in Inserted : row'[id] = row[id]
    /\ \A id \in Inserted' \ Inserted : row'[id] \in 0 .. texts
    /\ drawn' \cup Inserted' \subseteq 1 .. seq' - 1
    /\ seq \in Int /\ seq' \in 1 .. MaxId + 1 /\ seq <= seq'
    /\ drawn' \subseteq Ids \ Inserted'

\* So they are by every step.
LEMMA RowsAfter ==
    ASSUME ChatInv, [ChatNext]_chatVars
    PROVE  RowsGrow
<1>0. /\ row \in [Ids -> (0 .. MaxTexts) \cup {None}] /\ seq \in 1 .. MaxId + 1 /\ texts \in 0 .. MaxTexts
      /\ drawn \subseteq Ids \ Inserted /\ drawn \cup Inserted \subseteq 1 .. seq - 1
      /\ MaxId \in Nat /\ MaxTexts \in Nat /\ None \notin Nat
  BY ChatClientAssumption DEF ChatInv, ClientTypes, IdsAreDrawn
<1>1. CASE UNCHANGED <<row, drawn, seq>>
  BY <1>0, <1>1 DEF RowsGrow, Inserted
<1>2. ASSUME seq' = seq + 1, UNCHANGED row, seq \in Ids,
             drawn' \in {drawn, drawn \cup {seq}} PROVE RowsGrow
  <2>1. Inserted' = Inserted /\ seq \notin Inserted
    BY <1>0, <1>2 DEF Inserted
  <2>2. seq' \in 1 .. MaxId + 1 /\ seq \in Int /\ seq <= seq' /\ seq \in 1 .. seq' - 1
        /\ 1 .. seq - 1 \subseteq 1 .. seq' - 1
    BY <1>0, <1>2 DEF Ids
  <2> QED BY <1>0, <1>2, <2>1, <2>2 DEF RowsGrow
<1>3. CASE PeerDraw
  BY <1>2, <1>3 DEF PeerDraw
<1>4. ASSUME NEW id \in Ids \ Inserted, NEW t \in 0 .. texts, row' = [row EXCEPT ![id] = t],
             id \in 1 .. seq - 1, drawn' \subseteq drawn \ {id}, UNCHANGED seq
      PROVE  RowsGrow
  <2>1. row' \in [Ids -> (0 .. MaxTexts) \cup {None}]
    BY <1>0, <1>4
  <2>2. row'[id] = t /\ t # None /\ \A i \in Ids : i # id => row'[i] = row[i]
    BY <1>0, <1>4
  <2>a. Inserted \subseteq Ids
    BY DEF Inserted
  <2>3. Inserted' = Inserted \cup {id}
    BY <2>2, <1>4 DEF Inserted
  <2>4. (\A i \in Inserted : row'[i] = row[i]) /\ \A i \in Inserted' \ Inserted : row'[i] \in 0 .. texts
    BY <1>4, <2>2, <2>3, <2>a
  <2>5. drawn' \cup Inserted' \subseteq 1 .. seq' - 1 /\ drawn' \subseteq Ids \ Inserted'
    BY <1>0, <1>4, <2>3
  <2>6. seq \in Int /\ seq' \in 1 .. MaxId + 1 /\ seq <= seq'
    BY <1>0, <1>4
  <2> QED BY <2>1, <2>3, <2>4, <2>5, <2>6 DEF RowsGrow
<1>5. CASE PeerSend
  <2>1. PICK id \in drawn : row' = [row EXCEPT ![id] = 0] /\ drawn' = drawn \ {id} /\ UNCHANGED seq
    BY <1>5 DEF PeerSend
  <2>2. 0 \in 0 .. texts /\ id \in Ids \ Inserted /\ id \in 1 .. seq - 1
    BY <1>0
  <2> QED BY <1>4, <2>1, <2>2
<1>6. CASE \E o \in Ops : Post(o)
  <2>1. PICK o \in Ops : Post(o)
    BY <1>6
  <2>2. UNCHANGED <<row, drawn>> /\ (seq' = seq \/ (seq \in Ids /\ seq' = seq + 1))
    BY <2>1 DEF Post
  <2>3. CASE seq' = seq
    BY <1>1, <2>2, <2>3
  <2>4. CASE seq \in Ids /\ seq' = seq + 1
    BY <1>2, <2>2, <2>4
  <2> QED BY <2>2, <2>3, <2>4
<1>7. CASE \E o \in Ops : Insert(o)
  <2>1. PICK o \in Ops : Insert(o)
    BY <1>7
  <2>2. /\ op[o].id \in Ids \ (drawn \cup Inserted) /\ op[o].id \in 1 .. seq - 1
        /\ -op[o].target \in 1 .. texts
        /\ row' = [row EXCEPT ![op[o].id] = -op[o].target]
    BY <2>1, InsertFacts
  <2>3. -op[o].target \in 0 .. texts /\ drawn' = drawn /\ UNCHANGED seq
    BY <1>0, <2>1, <2>2 DEF Insert
  <2>4. drawn' \subseteq drawn \ {op[o].id}
    BY <2>2, <2>3
  <2> QED BY <1>4, <2>2, <2>3, <2>4
<1> QED BY <1>1, <1>3, <1>5, <1>6, <1>7, Changes DEF RowsChange

\* No step spoils the list, and what is new in it is stored, is a text that is being
\* sent, or is a mark.
LEMMA ListAfter ==
    ASSUME ChatInv, [ChatNext]_chatVars
    PROVE  ListGood
<1>0. ClientTypes /\ ShownOnce
  BY DEF ChatInv
<1>1. CASE UNCHANGED list
  <2>1. Listed' = Listed /\ list \in Seq(Entries) \cup {None}
    BY <1>0, <1>1 DEF Listed, ClientTypes
  <2> QED BY <1>0, <1>1, <2>1 DEF ListGood, ShownOnce
<1>2. CASE OnMessageDeleted
  BY <1>2, MessageDeletedList
<1>3. CASE \E id \in Ids : Decrypted(id)
  BY <1>3, DecryptedList
<1>4. ASSUME NEW o \in Ops,
             Send(o) \/ Retry(o) \/ Delete(o) \/ Confirm(o) \/ SendFailed(o) \/ ShowFirstPage(o) \/ ShowNextPage(o)
      PROVE  ListGood
  <2>1. CASE Send(o)
    BY <2>1, SendList
  <2>2. CASE Retry(o)
    BY <2>2, RetryList
  <2>3. CASE Delete(o)
    BY <2>3, DeleteList
  <2>4. CASE Confirm(o)
    BY <2>4, ConfirmList
  <2>5. CASE SendFailed(o)
    <3>1. list' = MarkFailed(Listed, op[o].target, TRUE)
      BY <2>5 DEF SendFailed, AfterFailure
    <3> QED BY <3>1, MarkedList
  <2>6. CASE ShowFirstPage(o)
    BY <2>6, FirstPageList
  <2>7. CASE ShowNextPage(o)
    <3>1. CASE op[o].raw # <<>>
      BY <2>7, <3>1, NextPageList
    <3>2. CASE op[o].raw = <<>>
      BY <1>1, <2>7, <3>2 DEF ShowNextPage
    <3> QED BY <3>1, <3>2
  <2> QED BY <1>4, <2>1, <2>2, <2>3, <2>4, <2>5, <2>6, <2>7
<1> QED BY <1>1, <1>2, <1>3, <1>4, Changes DEF ListChange

\* The operations stay operations.
LEMMA OpsTyped ==
    ASSUME ChatInv, [ChatNext]_chatVars
    PROVE  op' \in [Ops -> OpRecords]
<1>0. ClientTypes /\ op \in [Ops -> OpRecords]
  BY DEF ChatInv, ClientTypes
<1>1. CASE UNCHANGED op
  BY <1>0, <1>1
<1>2. ASSUME NEW o \in Ops,
             SelectPeer(o) \/ LoadMore(o) \/ Send(o) \/ Retry(o) \/ Delete(o) \/ OpStep(o)
      PROVE  op' \in [Ops -> OpRecords]
  <2>1. CASE GetPage(o)
    BY <1>0, <2>1, PageIsRead DEF Becomes
  <2>2. CASE Retry(o)
    BY <1>0, <2>2, RetryList DEF Becomes
  <2>3. CASE Delete(o)
    BY <1>0, <2>3, DeleteList DEF Becomes
  <2>4. CASE SelectPeer(o) \/ LoadMore(o) \/ Send(o)
    BY <1>0, <1>1, <2>4, OpsAfter DEF Becomes
  <2>5. CASE ShowFirstPage(o) \/ ShowNextPage(o) \/ Confirm(o) \/ SendFailed(o)
    BY <1>0, <2>5, OpsAfter DEF Becomes
  <2>6. CASE Post(o) \/ Insert(o) \/ DeleteRow(o)
    BY <1>0, <2>6, OpsAfter DEF Becomes
  <2> QED BY <1>2, <2>1, <2>2, <2>3, <2>4, <2>5, <2>6 DEF OpStep
<1> QED BY <1>1, <1>2, Changes DEF OpChange

\* The events about some messages.
Events(I) == [type : {"message", "deleted"}, id : I]
\* Events on a socket are events about a larger set too, one can be appended and one taken.
LEMMA WireMoves ==
    ASSUME NEW I, NEW J, I \subseteq J, NEW w \in Seq(Events(I))
    PROVE  /\ w \in Seq(Events(J)) /\ Len(w) \in Nat /\ Events(I) \subseteq Events(J)
           /\ \A e \in Events(J) : Append(w, e) \in Seq(Events(J))
           /\ w # <<>> => Tail(w) \in Seq(Events(J)) /\ Head(w).id \in I /\ Head(w) = w[1] /\ Len(w) >= 1
<1>1. Events(I) \subseteq Events(J) /\ \A e \in Events(I) : e.id \in I
  BY DEF Events
<1>3. w \in Seq(Events(J)) /\ Len(w) \in Nat
  BY <1>1, WiderSeq
<1>4. \A e \in Events(J) : Append(w, e) \in Seq(Events(J))
  BY <1>3
<1>5. ASSUME w # <<>> PROVE Tail(w) \in Seq(Events(J)) /\ Head(w).id \in I /\ Head(w) = w[1] /\ Len(w) >= 1
  <2>1. Head(w) \in Events(I) /\ Head(w) = w[1] /\ Len(w) >= 1
    BY <1>5
  <2>2. Tail(w) \in Seq(Events(J))
    BY <1>3, <1>5
  <2> QED BY <1>1, <2>1, <2>2
<1> QED BY <1>1, <1>3, <1>4, <1>5

\* What is on the socket, or will be, is of messages that are stored.
LEMMA WireTyped ==
    ASSUME ChatInv, [ChatNext]_chatVars
    PROVE  /\ wire' \in Seq(Events(Inserted')) /\ unsent' \subseteq Events(Inserted')
           /\ untold' \subseteq Inserted' /\ Inserted \subseteq Inserted'
           /\ deleted' \subseteq Inserted' /\ deleted \subseteq deleted'
<1>0. /\ wire \in Seq(Events(Inserted)) /\ deleted \subseteq Inserted /\ drawn \subseteq Ids /\ OpsFit
      /\ unsent \subseteq Events(Inserted) /\ untold \subseteq Inserted
      /\ row \in [Ids -> (0 .. MaxTexts) \cup {None}] /\ None \notin Nat
  BY ChatClientAssumption DEF ChatInv, ClientTypes, Events
<1>1. Inserted \subseteq Inserted'
  BY RowsAfter DEF RowsGrow
<1>a. PICK J : J = Inserted'
  OBVIOUS
<1>b. Inserted \subseteq J
  BY <1>1, <1>a
<1>2. /\ wire \in Seq(Events(J)) /\ Events(Inserted) \subseteq Events(J)
      /\ \A e \in Events(J) : Append(wire, e) \in Seq(Events(J))
      /\ wire # <<>> => Tail(wire) \in Seq(Events(J))
  BY <1>0, <1>b, WireMoves
<1>3. /\ unsent \subseteq Events(J) /\ untold \subseteq J
      /\ \A id \in J : Event("message", id) \in Events(J) /\ Event("deleted", id) \in Events(J)
  <2>1. \A id \in J : Event("message", id) \in Events(J) /\ Event("deleted", id) \in Events(J)
    BY DEF Events, Event
  <2> QED BY <1>0, <1>2, <1>b, <2>1
<1>7. ASSUME PeerSend PROVE unsent' \subseteq Events(J) /\ untold' \subseteq J
  <2>1. PICK id \in drawn : /\ row' = [row EXCEPT ![id] = 0] /\ unsent' = unsent \cup {Event("message", id)}
                            /\ untold' = untold \cup {id}
    BY <1>7 DEF PeerSend
  <2>2. id \in J
    BY <1>0, <1>a, <2>1 DEF Inserted
  <2> QED BY <1>3, <2>1, <2>2
<1>8. ASSUME PeerDelete
      PROVE  unsent' \subseteq Events(J) /\ deleted' \subseteq J /\ deleted \subseteq deleted'
  <2>1. PICK id \in Inserted : unsent' = unsent \cup {Event("deleted", id)} /\ deleted' = deleted \cup {id}
    BY <1>8 DEF PeerDelete
  <2>2. id \in J
    BY <1>b
  <2>3. deleted' \subseteq J /\ deleted \subseteq deleted'
    BY <1>0, <1>b, <2>1
  <2> QED BY <1>3, <2>1, <2>2, <2>3
<1>9. ASSUME Reconnect PROVE wire' \in Seq(Events(J)) /\ untold' \subseteq J
  <2> DEFINE S == {id \in Inserted \ deleted : row[id] = 0}
  <2>1. S \in SUBSET (1 .. MaxId) /\ MaxId \in Nat /\ S \subseteq Inserted
    BY ChatClientAssumption DEF Inserted, Ids
  <2>2. Sorted(S) \in Seq(S) /\ Len(Sorted(S)) \in Nat
    <3> HIDE DEF S
    <3> QED BY <2>1, SortedMembers
  <2>3. Replayed = Sorted(S)
    BY DEF Replayed
  <2> HIDE DEF S
  <2>a. Replayed \in Seq(S) /\ Len(Replayed) \in Nat
    BY <2>2, <2>3
  <2>b. \A j \in 1 .. Len(Replayed) : Replayed[j] \in S
    BY <2>a
  <2>5. \A j \in 1 .. Len(Replayed) : Event("message", Replayed[j]) \in Events(J)
    BY <1>3, <1>b, <2>1, <2>b
  <2>6. CASE wire' = [j \in 1 .. Len(Replayed) |-> Event("message", Replayed[j])] /\ untold' = {}
    BY <2>a, <2>5, <2>6
  <2>7. CASE wire' = <<>> /\ untold' = untold \cup {id \in Ids : OnWire(id) /\ ~Holds(Listed, id)}
    <3>1. \A id \in Ids : OnWire(id) => id \in J
      <4>1. \A j \in 1 .. Len(wire) : wire[j] \in Events(J)
        BY <1>2
      <4>2. \A id : Event("message", id) \in Events(J) => id \in J
        BY DEF Events, Event
      <4> QED BY <4>1, <4>2 DEF OnWire
    <3>2. wire' \in Seq(Events(J))
      BY <2>7
    <3> QED BY <1>3, <2>7, <3>1, <3>2
  <2> QED BY <1>9, <2>6, <2>7 DEF Reconnect
<1>10. ASSUME NEW o \in Ops, DeleteRow(o)
       PROVE  unsent' \subseteq Events(J) /\ deleted' \subseteq J /\ deleted \subseteq deleted'
  <2>1. op[o].id \in Inserted /\ op[o].id \in J
    BY <1>0, <1>10, <1>b DEF DeleteRow, OpsFit, OpFits
  <2>2. CASE UNCHANGED <<deleted, unsent>>
    BY <1>0, <1>3, <1>b, <2>2
  <2>3. CASE deleted' = deleted \cup {op[o].id} /\ unsent' = unsent \cup {Event("deleted", op[o].id)}
    <3>1. deleted' \subseteq J /\ deleted \subseteq deleted'
      BY <1>0, <1>b, <2>1, <2>3
    <3> QED BY <1>3, <2>1, <2>3, <3>1
  <2> QED BY <1>10, <2>2, <2>3 DEF DeleteRow
<1>11. ASSUME PushEvent
       PROVE  wire' \in Seq(Events(J)) /\ unsent' \subseteq Events(J) /\ untold' \subseteq J
  <2>1. PICK e \in unsent : /\ unsent' = unsent \ {e} /\ wire' = Append(wire, e)
                            /\ untold' \in {untold, untold \ {e.id}}
    BY <1>11 DEF PushEvent
  <2> QED BY <1>2, <1>3, <2>1
<1>12. wire' \in Seq(Events(J))
  <2>1. CASE OnMessage \/ OnMessageDeleted
    BY <1>2, <2>1 DEF OnMessage, OnMessageDeleted
  <2>2. CASE UNCHANGED wire
    BY <1>2, <2>2
  <2> QED BY <1>9, <1>11, <2>1, <2>2, Changes DEF WireChange
<1>13. deleted' \subseteq J /\ deleted \subseteq deleted'
  <2>1. CASE UNCHANGED deleted
    BY <1>0, <1>b, <2>1
  <2> QED BY <1>8, <1>10, <2>1, Changes DEF DeletedChange
<1>14. unsent' \subseteq Events(J)
  <2>1. CASE LoseEvent
    <3>1. unsent' \subseteq unsent
      BY <2>1 DEF LoseEvent
    <3> QED BY <1>3, <3>1
  <2>2. CASE UNCHANGED unsent
    BY <1>3, <2>2
  <2> QED BY <1>7, <1>8, <1>10, <1>11, <2>1, <2>2, Changes DEF UnsentChange
<1>15. untold' \subseteq J
  <2>1. CASE UNCHANGED untold
    BY <1>3, <2>1
  <2>2. ASSUME NEW o \in Ops, ShowFirstPage(o) \/ ShowNextPage(o) PROVE untold' \subseteq J
    <3>1. Brings(o)
      BY <2>2 DEF ShowFirstPage, ShowNextPage
    <3> QED BY <1>3, <3>1 DEF Brings
  <2> QED BY <1>7, <1>9, <1>11, <2>1, <2>2, Changes
<1> QED BY <1>1, <1>a, <1>12, <1>13, <1>14, <1>15

\* What is being decrypted is stored.
LEMMA DecryptingTyped ==
    ASSUME ChatInv, [ChatNext]_chatVars
    PROVE  decrypting' \in [Ids -> Nat] /\ \A id \in Ids : decrypting'[id] > 0 => id \in Inserted'
<1>0. /\ decrypting \in [Ids -> Nat] /\ \A id \in Ids : decrypting[id] > 0 => id \in Inserted
      /\ wire \in Seq(Events(Inserted)) /\ Inserted \subseteq Ids
  BY DEF ChatInv, ClientTypes, Inserted, Events
<1>1. Inserted \subseteq Inserted'
  BY RowsAfter DEF RowsGrow
<1>2. CASE UNCHANGED decrypting
  BY <1>0, <1>1, <1>2
<1>3. CASE OnMessage
  <2>1. /\ wire # <<>>
        /\ decrypting' \in {decrypting, [decrypting EXCEPT ![Head(wire).id] = @ + 1]}
    BY <1>3 DEF OnMessage
  <2>2. PICK i \in Inserted : Head(wire).id = i
    BY <1>0, <2>1, WireMoves
  <2>3. i \in Ids /\ decrypting[i] + 1 \in Nat
    BY <1>0
  <2>4. decrypting' \in {decrypting, [decrypting EXCEPT ![i] = decrypting[i] + 1]}
    BY <2>1, <2>2
  <2>5. CASE decrypting' = decrypting
    BY <1>2, <2>5
  <2>6. CASE decrypting' = [decrypting EXCEPT ![i] = decrypting[i] + 1]
    BY <1>0, <1>1, <2>3, <2>6
  <2> QED BY <2>4, <2>5, <2>6
<1>4. CASE \E id \in Ids : Decrypted(id)
  <2>1. PICK id \in Ids : decrypting[id] > 0 /\ decrypting' = [decrypting EXCEPT ![id] = @ - 1]
    BY <1>4 DEF Decrypted
  <2>2. decrypting[id] \in Nat /\ decrypting[id] - 1 \in Nat
    BY <1>0, <2>1
  <2> QED BY <1>0, <1>1, <2>1, <2>2
<1> QED BY <1>2, <1>3, <1>4, Changes

\* The other variables.
LEMMA RestTyped ==
    ASSUME ChatInv, [ChatNext]_chatVars
    PROVE  /\ texts' \in 0 .. MaxTexts /\ texts <= texts' /\ reconnects' \in 0 .. MaxReconnects
           /\ known' \in BOOLEAN /\ active' \in BOOLEAN /\ hasMore' \in BOOLEAN /\ begun' \in BOOLEAN
           /\ (known => known') /\ (list # None /\ ~begun => ~begun') /\ last' \in 0 .. MaxId
           /\ dropped \subseteq dropped' /\ dropped' \subseteq Ids
           /\ faults \subseteq faults' /\ faults' \subseteq ChatFaultKinds
<1>0. /\ reconnects \in 0 .. MaxReconnects /\ texts \in 0 .. MaxTexts
      /\ known \in BOOLEAN /\ active \in BOOLEAN /\ hasMore \in BOOLEAN /\ begun \in BOOLEAN
      /\ last \in 0 .. MaxId /\ dropped \subseteq Ids /\ faults \subseteq ChatFaultKinds
      /\ op \in [Ops -> OpRecords] /\ ChatFaults \subseteq ChatFaultKinds
      /\ MaxTexts \in Nat /\ MaxId \in Nat /\ MaxReconnects \in Nat
  BY ChatClientAssumption DEF ChatInv, ClientTypes
<1>1. texts' \in 0 .. MaxTexts /\ texts <= texts'
  <2>1. UNCHANGED texts \/ (texts < MaxTexts /\ texts' = texts + 1)
    BY Changes DEF Send
  <2> QED BY <1>0, <2>1
<1>2. reconnects' \in 0 .. MaxReconnects
  <2>1. UNCHANGED reconnects \/ (reconnects < MaxReconnects /\ reconnects' = reconnects + 1)
    BY Changes DEF Reconnect
  <2> QED BY <1>0, <2>1
<1>3. known' \in BOOLEAN /\ (known => known')
  <2>1. UNCHANGED known \/ known' = TRUE
    BY Changes DEF LoadContacts
  <2> QED BY <1>0, <2>1
<1>4. active' \in BOOLEAN
  <2>1. UNCHANGED active \/ active' = TRUE
    BY Changes DEF SelectPeer
  <2> QED BY <1>0, <2>1
<1>5. begun' \in BOOLEAN /\ (list # None /\ ~begun => ~begun')
  <2>1. UNCHANGED begun \/ begun' = (begun \/ list = None) \/ begun' = FALSE
    BY Changes DEF Send, ShowFirstPage, Decrypted, Begins
  <2>2. CASE UNCHANGED begun
    <3>1. begun' = begun /\ begun \in BOOLEAN
      BY <1>0, <2>2
    <3> QED BY <3>1, Zenon
  <2>4. CASE begun' = FALSE
    BY <2>4, Zenon
  <2>3. CASE begun' = (begun \/ list = None)
    BY <2>3, Zenon
  <2> QED BY <2>1, <2>2, <2>3, <2>4
<1>6. hasMore' \in BOOLEAN /\ last' \in 0 .. MaxId
  <2>1. ASSUME NEW o \in Ops, op[o].raw # <<>> PROVE Last(op[o].raw) \in 0 .. MaxId
    <3>1. op[o].raw \in Seq(Ids)
      BY <1>0 DEF OpRecords
    <3>2. Len(op[o].raw) \in Nat /\ Len(op[o].raw) >= 1
      BY <2>1, <3>1
    <3>3. op[o].raw[Len(op[o].raw)] \in Ids
      BY <3>1, <3>2
    <3> QED BY <1>0, <3>3 DEF Last, Ids
  <2>2. \A o \in Ops : op[o].more \in BOOLEAN
    BY <1>0 DEF OpRecords
  <2>3. \/ UNCHANGED <<hasMore, last>>
        \/ \E o \in Ops : /\ hasMore' = op[o].more
                          /\ last' = last \/ (op[o].raw # <<>> /\ last' = Last(op[o].raw))
    BY Changes DEF ShowFirstPage, ShowNextPage, page
  <2> QED BY <1>0, <2>1, <2>2, <2>3
<1>7. dropped \subseteq dropped' /\ dropped' \subseteq Ids
  BY <1>0, FirstPageList, Changes
<1>8. faults \subseteq faults' /\ faults' \subseteq ChatFaultKinds
  <2>1. UNCHANGED faults \/ \E k \in ChatFaults : faults' = faults \cup {k}
    BY Changes DEF GetPage, Post, Insert, DeleteRow, Reconnect, LoseEvent, Works, Fails
  <2> QED BY <1>0, <2>1
<1> QED BY <1>1, <1>2, <1>3, <1>4, <1>5, <1>6, <1>7, <1>8

\* Every step keeps the types.
LEMMA TypesKept ==
    ASSUME ChatInv, [ChatNext]_chatVars
    PROVE  ClientTypes'
<1>1. /\ row' \in [Ids -> (0 .. MaxTexts) \cup {None}] /\ seq' \in 1 .. MaxId + 1
      /\ drawn' \subseteq Ids \ Inserted'
  BY RowsAfter DEF RowsGrow
<1>2. /\ wire' \in Seq([type : {"message", "deleted"}, id : Inserted']) /\ deleted' \subseteq Inserted'
      /\ unsent' \subseteq [type : {"message", "deleted"}, id : Inserted'] /\ untold' \subseteq Inserted'
  BY WireTyped DEF Events
<1>3. list' \in Seq(Entries) \cup {None}
  BY ListAfter DEF ListGood
<1>4. decrypting' \in [Ids -> Nat] /\ \A id \in Ids : decrypting'[id] > 0 => id \in Inserted'
  BY DecryptingTyped
<1>5. op' \in [Ops -> OpRecords]
  BY OpsTyped
<1>6. /\ texts' \in 0 .. MaxTexts /\ reconnects' \in 0 .. MaxReconnects
      /\ known' \in BOOLEAN /\ active' \in BOOLEAN /\ hasMore' \in BOOLEAN /\ begun' \in BOOLEAN
      /\ last' \in 0 .. MaxId /\ dropped' \subseteq Ids /\ faults' \subseteq ChatFaultKinds
  BY RestTyped
<1> QED BY <1>1, <1>2, <1>3, <1>4, <1>5, <1>6, Zenon DEF ClientTypes

\* The ids of inserts.
LEMMA IdsKept ==
    ASSUME ChatInv, [ChatNext]_chatVars
    PROVE  IdsAreDrawn'
<1>0. /\ IdsAreDrawn /\ seq \in Int /\ texts \in 0 .. MaxTexts
  BY DEF ChatInv, ClientTypes
<1>1. RowsGrow /\ texts <= texts' /\ texts' \in 0 .. MaxTexts
  BY RowsAfter, RestTyped
<1>2. drawn' \cup Inserted' \subseteq 1 .. seq' - 1
  BY <1>1 DEF RowsGrow
<1>3. \A id \in Inserted' : row'[id] \in 0 .. texts'
  <2>1. \A id \in Inserted' : row'[id] \in 0 .. texts
    BY <1>0, <1>1 DEF RowsGrow, IdsAreDrawn
  <2> QED BY <1>0, <1>1, <2>1
<1> DEFINE Good == /\ \A q \in Ops : op'[q].pc = "insert" => op'[q].id \in (1 .. seq' - 1) \ (drawn' \cup Inserted')
                   /\ \A p, q \in Ops : (op'[p].pc = "insert" /\ op'[q].pc = "insert" /\ p # q)
                                        => op'[p].id # op'[q].id
<1>4. /\ \A q \in Ops : op[q].pc = "insert" => op[q].id \in (1 .. seq - 1) \ (drawn \cup Inserted)
      /\ \A p, q \in Ops : (op[p].pc = "insert" /\ op[q].pc = "insert" /\ p # q) => op[p].id # op[q].id
  BY <1>0 DEF IdsAreDrawn
<1>a. /\ 1 .. seq - 1 \subseteq 1 .. seq' - 1 /\ seq \notin 1 .. seq - 1
      /\ (seq' = seq + 1 /\ seq \in Ids => seq \in 1 .. seq' - 1)
  <2>1. seq \in Int /\ seq' \in Int /\ seq <= seq'
    BY <1>1, ChatClientAssumption DEF RowsGrow
  <2>2. \A k \in 1 .. seq - 1 : k \in 1 .. seq' - 1
    BY ONLY <2>1, Wider
  <2>3. seq \in Ids => 1 <= seq
    BY ChatClientAssumption DEF Ids
  <2>4. (seq' = seq + 1 /\ seq \in Ids) => seq \in 1 .. seq' - 1
    BY <2>1, <2>3
  <2>5. seq \notin 1 .. seq - 1
    BY <2>1
  <2> QED BY <2>2, <2>4, <2>5
<1>5. ASSUME \A q \in Ops : op'[q].pc = "insert" => op[q].pc = "insert" /\ op'[q].id = op[q].id,
             \A q \in Ops : op'[q].pc = "insert" => op[q].id \notin drawn' \cup Inserted'
      PROVE  Good
  BY <1>4, <1>5, <1>a
<1>6. ASSUME NEW o \in Ops, Post(o) PROVE Good
  <2>1. UNCHANGED <<row, drawn>> /\ Inserted' = Inserted
    BY <1>6 DEF Post, Inserted
  <2>2. CASE Becomes(o, op[o].kind, "failed", op[o].target, op[o].id)
    BY <1>4, <1>5, <2>1, <2>2 DEF Becomes
  <2>3. CASE seq \in Ids /\ seq' = seq + 1 /\ Becomes(o, op[o].kind, "insert", op[o].target, seq)
    <3>1. \A q \in Ops : op'[q].pc = "insert" =>
             (q = o /\ op'[q].id = seq) \/ (q # o /\ op[q].pc = "insert" /\ op'[q].id = op[q].id)
      BY <2>3 DEF Becomes
    <3>2. seq \notin drawn \cup Inserted
      BY <1>0, <1>a DEF IdsAreDrawn
    <3>3. \A q \in Ops : op[q].pc = "insert" => op[q].id # seq
      BY <1>4, <1>a
    <3> QED BY <1>4, <1>a, <2>1, <2>3, <3>1, <3>2, <3>3
  <2> QED BY <1>0, <1>6, <2>2, <2>3, OpsAfter DEF ChatInv
<1>7. ASSUME NEW o \in Ops, Insert(o) PROVE Good
  <2>1. op[o].pc = "insert" /\ drawn' = drawn
    BY <1>7 DEF Insert
  <2>2. Inserted' \subseteq Inserted \cup {op[o].id}
    <3>1. row' = [row EXCEPT ![op[o].id] = -op[o].target] /\ row \in [Ids -> (0 .. MaxTexts) \cup {None}]
      BY <1>7, InsertFacts DEF ChatInv, ClientTypes
    <3> QED BY <3>1 DEF Inserted
  <2>3. \A q \in Ops : op'[q].pc = "insert" => q # o /\ op[q].pc = "insert" /\ op'[q].id = op[q].id
    BY <1>7, OpsAfter DEF Becomes, ChatInv
  <2> QED BY <1>4, <1>5, <2>1, <2>2, <2>3
<1>8. ASSUME ~\E o \in Ops : Post(o) \/ Insert(o) PROVE Good
  <2>1. drawn' \subseteq drawn \cup {seq} /\ Inserted' \subseteq Inserted \cup drawn
    <3>1. CASE UNCHANGED <<row, drawn, seq>>
      BY <3>1 DEF Inserted
    <3>2. CASE PeerDraw
      BY <3>2 DEF PeerDraw, Inserted
    <3>3. CASE PeerSend
      <4>1. PICK id \in drawn : row' = [row EXCEPT ![id] = 0] /\ drawn' = drawn \ {id}
        BY <3>3 DEF PeerSend
      <4>2. row \in [Ids -> (0 .. MaxTexts) \cup {None}]
        BY DEF ChatInv, ClientTypes
      <4> QED BY <4>1, <4>2 DEF Inserted
    <3> QED BY <1>8, <3>1, <3>2, <3>3, Changes DEF RowsChange
  <2>2. \A q \in Ops : op[q].pc = "insert" => op[q].id \notin drawn' \cup Inserted'
    BY <1>4, <1>a, <2>1
  <2>3. ASSUME NEW o \in Ops,
               SelectPeer(o) \/ LoadMore(o) \/ Send(o) \/ Retry(o) \/ Delete(o) \/ OpStep(o)
        PROVE  \A q \in Ops : op'[q].pc = "insert" => op[q].pc = "insert" /\ op'[q].id = op[q].id
    <3>0. ClientTypes
      BY DEF ChatInv
    <3>1. CASE GetPage(o)
      BY <3>0, <3>1, PageIsRead DEF Becomes
    <3>2. CASE Retry(o)
      BY <3>2, RetryList DEF Becomes
    <3>3. CASE Delete(o)
      BY <3>3, DeleteList DEF Becomes
    <3>4. CASE SelectPeer(o) \/ LoadMore(o) \/ Send(o)
      BY <3>0, <3>4, OpsAfter DEF Becomes
    <3>5. CASE ShowFirstPage(o) \/ ShowNextPage(o) \/ Confirm(o) \/ SendFailed(o)
      BY <3>0, <3>5, OpsAfter DEF Becomes
    <3>6. CASE DeleteRow(o)
      BY <3>0, <3>6, OpsAfter DEF Becomes
    <3> QED BY <1>8, <2>3, <3>1, <3>2, <3>3, <3>4, <3>5, <3>6 DEF OpStep
  <2>4. \A q \in Ops : op'[q].pc = "insert" => op[q].pc = "insert" /\ op'[q].id = op[q].id
    <3>1. CASE UNCHANGED op
      BY <3>1
    <3> QED BY <2>3, <3>1, Changes DEF OpChange
  <2> QED BY <1>5, <2>2, <2>4
<1>9. Good
  BY <1>6, <1>7, <1>8
<1> QED BY <1>2, <1>3, <1>9 DEF IdsAreDrawn

\* What has been established of an operation stays so while it waits ...
LEMMA FitsStays ==
    ASSUME ChatInv, [ChatNext]_chatVars, NEW q \in Ops, op'[q] = op[q]
    PROVE  OpFits(op[q])'
<1>0. OpFits(op[q]) /\ texts \in 0 .. MaxTexts
  BY DEF ChatInv, OpsFit, ClientTypes
<1>1. /\ Inserted \subseteq Inserted' /\ \A id \in Inserted : row'[id] = row[id]
  BY RowsAfter DEF RowsGrow
<1>2. /\ (known => known') /\ texts <= texts' /\ texts' \in 0 .. MaxTexts /\ (list # None => list' # None)
      /\ (list # None /\ ~begun => ~begun')
  BY RestTyped, ListAfter DEF ListGood
<1>3. \A t : t \in (-texts) .. -1 => t \in (-texts') .. -1
  <2>1. texts \in Int /\ texts' \in Int
    BY <1>0, <1>2, ChatClientAssumption
  <2> QED BY ONLY <1>2, <2>1, Wider
<1> QED BY <1>0, <1>1, <1>2, <1>3 DEF OpFits

\* ... and is established by its steps.
LEMMA OpsKept ==
    ASSUME ChatInv, [ChatNext]_chatVars
    PROVE  OpsFit'
<1>0. /\ ClientTypes /\ OpsFit /\ op \in [Ops -> OpRecords] /\ texts \in 0 .. MaxTexts /\ last \in 0 .. MaxId
      /\ (active \/ list # None \/ hasMore => known) /\ (hasMore => list # None /\ ~begun)
  BY DEF ChatInv, ClientTypes, ClientFits
<1>1. CASE UNCHANGED op
  BY <1>1, FitsStays DEF OpsFit
<1>2. ASSUME NEW o \in Ops, \A q \in Ops : q # o => op'[q] = op[q], OpFits(op[o])' PROVE OpsFit'
  BY <1>2, FitsStays DEF OpsFit
<1>3. /\ Inserted \subseteq Inserted' /\ \A id \in Inserted : row'[id] = row[id]
  BY RowsAfter DEF RowsGrow
<1>4. /\ (known => known') /\ texts <= texts' /\ texts' \in 0 .. MaxTexts /\ (list # None => list' # None)
      /\ (list # None /\ ~begun => ~begun')
  BY RestTyped, ListAfter DEF ListGood
<1>a. \A t : t \in (-texts) .. -1 => t \in (-texts') .. -1
  <2>1. texts \in Int /\ texts' \in Int
    BY <1>0, <1>4, ChatClientAssumption
  <2> QED BY ONLY <1>4, <2>1, Wider
<1>5. ASSUME NEW o \in Ops, Becomes(o, "none", "idle", 0, 0) PROVE OpsFit'
  BY <1>2, <1>5 DEF Becomes, OpFits
<1>6. ASSUME NEW o \in Ops, SelectPeer(o) PROVE OpsFit'
  <2>1. CASE Becomes(o, "select", "get", 0, 0)
    <3>1. known'
      BY <1>4, <1>6 DEF SelectPeer
    <3> QED BY <1>2, <2>1, <3>1 DEF Becomes, OpFits
  <2> QED BY <1>0, <1>1, <1>6, <2>1, OpsAfter
<1>7. ASSUME NEW o \in Ops, LoadMore(o) PROVE OpsFit'
  <2>1. Becomes(o, "more", "get", last, 0)
    BY <1>0, <1>7, OpsAfter
  <2>2. known' /\ last >= 0 /\ list' # None /\ ~begun'
    BY <1>0, <1>4, <1>7 DEF LoadMore
  <2> QED BY <1>2, <2>1, <2>2 DEF Becomes, OpFits
<1>8. ASSUME NEW o \in Ops, Send(o) PROVE OpsFit'
  <2>1. Becomes(o, "send", "post", -(texts + 1), 0)
    BY <1>0, <1>8, OpsAfter
  <2>2. known' /\ texts' = texts + 1 /\ list' # None
    BY <1>0, <1>4, <1>8, SendList DEF Send
  <2>3. -(texts + 1) \in (-texts') .. -1
    BY <1>0, <2>2
  <2> QED BY <1>2, <2>1, <2>2, <2>3 DEF Becomes, OpFits
<1>9. ASSUME NEW o \in Ops, Retry(o) PROVE OpsFit'
  <2>1. PICK d \in Of(Listed) :
          d.id \in (-texts) .. -1 /\ list' # None /\ Becomes(o, "send", "post", d.id, 0)
    BY <1>9, RetryList
  <2>2. known' /\ d.id \in (-texts') .. -1
    BY <1>0, <1>4, <1>9, <1>a, <2>1 DEF Retry
  <2> QED BY <1>2, <2>1, <2>2 DEF Becomes, OpFits
<1>10. ASSUME NEW o \in Ops, Delete(o) PROVE OpsFit'
  <2>1. PICK id \in Inserted : row[id] # 0 /\ Becomes(o, "delete", "del", 0, id)
    BY <1>10, DeleteList
  <2>2. known' /\ list' # None
    BY <1>0, <1>4, <1>10, DeleteList DEF Delete
  <2> QED BY <1>2, <1>3, <2>1, <2>2 DEF Becomes, OpFits
<1>11. ASSUME NEW o \in Ops, GetPage(o) PROVE OpsFit'
  <2>1. CASE /\ Becomes(o, op[o].kind, "got", op[o].target, op[o].id)
             /\ Of(op'[o].raw) \subseteq Inserted /\ Ascends(op'[o].raw)
    <3>1. op[o].pc = "get" /\ OpFits(op[o])
      BY <1>0, <1>11 DEF GetPage, OpsFit
    <3> QED BY <1>2, <1>3, <1>4, <2>1, <3>1 DEF Becomes, OpFits
  <2> QED BY <1>0, <1>5, <1>11, <2>1, PageIsRead
<1>12. ASSUME NEW o \in Ops, Post(o) PROVE OpsFit'
  <2>1. op[o].pc = "post" /\ OpFits(op[o])
    BY <1>0, <1>12 DEF Post, OpsFit
  <2>2. \/ Becomes(o, op[o].kind, "failed", op[o].target, op[o].id)
        \/ Becomes(o, op[o].kind, "insert", op[o].target, seq)
    BY <1>0, <1>12, OpsAfter
  <2> QED BY <1>2, <1>4, <1>a, <2>1, <2>2 DEF Becomes, OpFits
<1>13. ASSUME NEW o \in Ops, Insert(o) PROVE OpsFit'
  <2>1. op[o].pc = "insert" /\ OpFits(op[o])
    BY <1>0, <1>13 DEF Insert, OpsFit
  <2>2. \/ Becomes(o, op[o].kind, "posted", op[o].target, op[o].id)
        \/ Becomes(o, op[o].kind, "failed", op[o].target, op[o].id)
    BY <1>0, <1>13, OpsAfter
  <2>3. op[o].id \in Inserted' /\ row'[op[o].id] # 0
    <3>1. /\ op[o].id \in Ids /\ -op[o].target \in 1 .. texts /\ -op[o].target # 0
          /\ row' = [row EXCEPT ![op[o].id] = -op[o].target]
      BY <1>13, InsertFacts
    <3>2. row \in [Ids -> (0 .. MaxTexts) \cup {None}] /\ None \notin Nat /\ -op[o].target \in Nat
      BY <1>0, <3>1, ChatClientAssumption DEF ClientTypes
    <3>3. row'[op[o].id] = -op[o].target /\ -op[o].target # None
      BY <3>1, <3>2
    <3> QED BY <3>1, <3>3 DEF Inserted
  <2> QED BY <1>2, <1>4, <1>a, <2>1, <2>2, <2>3 DEF Becomes, OpFits
<1>14. ASSUME NEW o \in Ops,
              ShowFirstPage(o) \/ ShowNextPage(o) \/ Confirm(o) \/ SendFailed(o) PROVE OpsFit'
  BY <1>0, <1>5, <1>14, OpsAfter
<1>15. ASSUME NEW o \in Ops, DeleteRow(o) PROVE OpsFit'
  <2>1. op[o].pc = "del" /\ OpFits(op[o]) /\ op[o].target \in Int
    BY <1>0, <1>15 DEF DeleteRow, OpsFit, OpRecords
  <2>2. CASE Becomes(o, op[o].kind, "get", op[o].target, op[o].id)
    BY <1>2, <1>4, <2>1, <2>2 DEF Becomes, OpFits
  <2> QED BY <1>0, <1>5, <1>15, <2>2, OpsAfter
<1> QED
  BY <1>1, <1>6, <1>7, <1>8, <1>9, <1>10, <1>11, <1>12, <1>13, <1>14, <1>15,
     Changes DEF OpChange, OpStep

\* What a step adds to the list is stored, unless the user sends or a text is marked.
LEMMA NewsAfter ==
    ASSUME ChatInv, [ChatNext]_chatVars
    PROVE  NoNews \/ \E o \in Ops : Send(o) \/ Retry(o) \/ SendFailed(o)
<1>1. ASSUME UNCHANGED list PROVE NoNews
  BY <1>1 DEF Listed, NoNews
<1>2. CASE OnMessageDeleted \/ \E id \in Ids : Decrypted(id)
  BY <1>2, MessageDeletedList, DecryptedList
<1>3. ASSUME NEW o \in Ops, Delete(o) \/ Confirm(o) \/ ShowFirstPage(o) PROVE NoNews
  BY <1>3, DeleteList, ConfirmList, FirstPageList
<1>4. ASSUME NEW o \in Ops, ShowNextPage(o) PROVE NoNews
  <2>1. CASE op[o].raw # <<>>
    BY <1>4, <2>1, NextPageList
  <2>2. CASE op[o].raw = <<>>
    <3>1. UNCHANGED list
      BY <1>4, <2>2 DEF ShowNextPage
    <3> QED BY <1>1, <3>1
  <2> QED BY <2>1, <2>2
<1> QED BY <1>1, <1>2, <1>3, <1>4, Changes DEF ListChange

\* A failed send marks its text.
LEMMA FailedList ==
    ASSUME ChatInv, NEW o \in Ops, SendFailed(o)
    PROVE  ListGood /\ list' # None /\ Marks(op[o].target, TRUE) /\ op[o].target \in (-texts) .. -1
<1>1. list' = MarkFailed(Listed, op[o].target, TRUE)
  BY DEF SendFailed, AfterFailure
<1>2. op[o].target \in (-texts) .. -1
  BY DEF SendFailed, ChatInv, OpsFit, OpFits
<1> QED BY <1>1, <1>2, MarkedList

\* Ids of stored messages are positive, and those of texts that are not are negative.
LEMMA Signs ==
    ASSUME ChatInv
    PROVE  /\ \A id \in Ids : id > 0 /\ id \in Int
           /\ \A id \in Inserted : id \in Ids /\ id > 0 /\ id \in Int
           /\ \A t \in (-texts) .. -1 : t < 0 /\ t \notin Ids /\ t \notin Inserted /\ t \in Int
           /\ texts \in Nat
<1>1. \A id \in Ids : id > 0 /\ id \in Int
  BY ChatClientAssumption DEF Ids
<1>2. texts \in Nat
  BY ChatClientAssumption DEF ChatInv, ClientTypes
<1>3. \A t \in (-texts) .. -1 : t < 0 /\ t \in Int
  BY <1>2
<1> QED BY <1>1, <1>2, <1>3 DEF Inserted

\* Every entry stays one of an own text or of a stored message that is not marked.
LEMMA EntriesKept ==
    ASSUME ChatInv, [ChatNext]_chatVars
    PROVE  EntriesFit'
<1>0. EntriesFit /\ texts \in 0 .. MaxTexts
  BY DEF ChatInv, ClientTypes
<1>1. /\ Inserted \subseteq Inserted' /\ texts <= texts' /\ texts' \in 0 .. MaxTexts
  BY RowsAfter, RestTyped DEF RowsGrow
<1>2. \A t : t \in (-texts) .. -1 => t \in (-texts') .. -1
  <2>1. texts \in Int /\ texts' \in Int
    BY <1>0, <1>1, ChatClientAssumption
  <2> QED BY ONLY <1>1, <2>1, Wider
<1>3. CASE NoNews
  BY <1>0, <1>1, <1>2, <1>3 DEF NoNews, EntriesFit, EntryFits
<1>4. ASSUME NEW o \in Ops, Send(o) PROVE EntriesFit'
  <2>1. texts' = texts + 1
    BY <1>4 DEF Send
  <2>2. -(texts + 1) \in (-texts') .. -1
    BY <2>1, Signs
  <2> QED BY <1>0, <1>1, <1>2, <1>4, <2>2, SendList DEF EntriesFit, EntryFits
<1>5. ASSUME NEW t \in (-texts) .. -1, NEW f \in BOOLEAN, Marks(t, f) PROVE EntriesFit'
  <2>1. t \notin Inserted
    BY Signs
  <2> QED BY <1>0, <1>1, <1>2, <1>5, <2>1 DEF EntriesFit, EntryFits, Marks
<1>6. ASSUME NEW o \in Ops, Retry(o) \/ SendFailed(o) PROVE EntriesFit'
  BY <1>5, <1>6, RetryList, FailedList
<1> QED BY <1>3, <1>4, <1>6, NewsAfter

\* A row that is added is of no entry yet.
LEMMA ShownOnceKept ==
    ASSUME ChatInv, [ChatNext]_chatVars
    PROVE  ShownOnce'
<1> DEFINE I == {id \in Ids : row[id] = 0}
           J == {id \in Ids : row'[id] = 0}
<1>1. Once(Listed', I)
  BY ListAfter DEF ListGood
<1>2. CASE UNCHANGED row
  BY <1>1, <1>2 DEF ShownOnce
<1>3. CASE UNCHANGED list
  <2>1. Listed' = Listed /\ ClientTypes /\ EntriesFit
    BY <1>3 DEF Listed, ChatInv
  <2>2. \A id \in Inserted : row'[id] = row[id] /\ id \in Ids
    BY RowsAfter DEF RowsGrow, Inserted
  <2>3. \A j \in 1 .. Len(Listed) : Listed[j].id \in J => Listed[j].id \in I
    <3> SUFFICES ASSUME NEW j \in 1 .. Len(Listed), Listed[j].id \in J PROVE Listed[j].id \in I
      OBVIOUS
    <3>1. Listed[j] \in Of(Listed)
      BY DEF Of
    <3>2. Listed[j].id \in Ids
      OBVIOUS
    <3>3. Listed[j].id \in Inserted
      BY <2>1, <3>1, <3>2, Signs DEF EntriesFit, EntryFits
    <3> QED BY <2>2, <3>3
  <2>4. Once(Listed, I)
    BY <1>1, <2>1
  <2>5. Once(Listed, J)
    <3> HIDE DEF I, J
    <3> QED BY <2>3, <2>4 DEF Once
  <2> QED BY <2>1, <2>5 DEF ShownOnce
<1>4. UNCHANGED row \/ UNCHANGED list
  BY Changes DEF RowsChange, PeerDraw, PeerSend, Post, Insert
<1> QED BY <1>2, <1>3, <1>4

\* The list, its page and its events stay those of a peer the client knows.
LEMMA ClientKept ==
    ASSUME ChatInv, [ChatNext]_chatVars
    PROVE  ClientFits'
<1>0. /\ ClientFits /\ ClientTypes /\ OpsFit /\ wire \in Seq(Events(Inserted))
      /\ decrypting \in [Ids -> Nat] /\ unsent \subseteq Events(Inserted)
  BY DEF ChatInv, ClientTypes, Events
<1>1. (known => known') /\ (list # None => list' # None) /\ (list # None /\ ~begun => ~begun')
  BY RestTyped, ListAfter DEF ListGood
<1>2. \A o \in Ops : op[o].pc # "idle" => known
  BY <1>0 DEF OpsFit, OpFits
<1>3. list' # None => known'
  <2>1. CASE UNCHANGED list \/ OnMessageDeleted
    <3>1. list' # None => list # None
      BY <2>1 DEF OnMessageDeleted
    <3> QED BY <1>0, <1>1, <3>1 DEF ClientFits
  <2>2. CASE \E id \in Ids : Decrypted(id)
    BY <1>0, <1>1, <2>2 DEF ClientFits, Decrypted
  <2>3. ASSUME NEW o \in Ops,
               Send(o) \/ Retry(o) \/ Delete(o) \/ Confirm(o) \/ SendFailed(o) \/ ShowFirstPage(o) \/ ShowNextPage(o)
        PROVE  known'
    <3>1. active \/ op[o].pc # "idle"
      BY <2>3 DEF Send, Retry, Delete, Confirm, SendFailed, ShowFirstPage, ShowNextPage
    <3> QED BY <1>0, <1>1, <1>2, <3>1 DEF ClientFits
  <2> QED BY <2>1, <2>2, <2>3, Changes DEF ListChange
<1>4. active' => known'
  <2>1. UNCHANGED active \/ known
    BY Changes DEF SelectPeer
  <2> QED BY <1>0, <1>1, <2>1 DEF ClientFits
<1>5. hasMore' => list' # None /\ ~begun'
  <2>1. CASE UNCHANGED page
    BY <1>0, <1>1, <2>1 DEF ClientFits, page
  <2>2. ASSUME NEW o \in Ops, ShowFirstPage(o) PROVE hasMore' => list' # None /\ ~begun'
    <3>1. list' # None
      BY <2>2, FirstPageList
    <3>2. CASE op[o].kind = "select"
      BY <2>2, <3>1, <3>2 DEF ShowFirstPage
    <3>3. CASE op[o].kind # "select"
      <4>1. UNCHANGED <<page, begun>>
        BY <2>2, <3>3 DEF ShowFirstPage
      <4> QED BY <2>1, <4>1
    <3> QED BY <3>2, <3>3
  <2>3. ASSUME NEW o \in Ops, ShowNextPage(o) PROVE list' # None /\ ~begun'
    BY <1>0, <1>1, <2>3 DEF ShowNextPage, OpsFit, OpFits
  <2> QED BY <2>1, <2>2, <2>3, Changes
<1>6. ASSUME NEW id \in Ids, decrypting'[id] > 0 PROVE known'
  <2>1. CASE UNCHANGED decrypting
    BY <1>0, <1>1, <1>6, <2>1 DEF ClientFits
  <2>2. CASE OnMessage
    <3>1. known \/ UNCHANGED decrypting
      BY <2>2 DEF OnMessage
    <3> QED BY <1>1, <2>1, <3>1
  <2>3. CASE \E i \in Ids : Decrypted(i)
    <3>1. PICK i \in Ids : decrypting[i] > 0
      BY <2>3 DEF Decrypted
    <3> QED BY <1>0, <1>1, <3>1 DEF ClientFits
  <2> QED BY <2>1, <2>2, <2>3, Changes
<1>7. \A j \in 1 .. Len(wire') : wire'[j].type = "deleted" => wire'[j].id \in deleted'
  <2>1. deleted \subseteq deleted'
    BY WireTyped
  <2>2. \A j \in 1 .. Len(wire) : wire[j].type = "deleted" => wire[j].id \in deleted'
    BY <1>0, <2>1 DEF ClientFits
  <2>3. CASE UNCHANGED wire
    BY <2>2, <2>3
  <2>4. CASE OnMessage \/ OnMessageDeleted
    <3>1. wire # <<>> /\ wire' = Tail(wire)
      BY <2>4 DEF OnMessage, OnMessageDeleted
    <3>2. /\ Len(wire) \in Nat /\ Len(wire') = Len(wire) - 1
          /\ \A j \in 1 .. Len(wire') : j + 1 \in 1 .. Len(wire) /\ wire'[j] = wire[j + 1]
      BY <1>0, <3>1
    <3> QED BY <2>2, <3>2
  <2>5. ASSUME NEW e, wire' = Append(wire, e), e.type = "deleted" => e.id \in deleted'
        PROVE  \A j \in 1 .. Len(wire') : wire'[j].type = "deleted" => wire'[j].id \in deleted'
    <3>1. /\ Len(wire) \in Nat /\ Len(wire') = Len(wire) + 1
          /\ \A j \in 1 .. Len(wire) : wire'[j] = wire[j]
          /\ wire'[Len(wire) + 1] = e
      BY <1>0, <2>5
    <3>2. \A j \in 1 .. Len(wire') : j \in 1 .. Len(wire) \/ j = Len(wire) + 1
      BY <3>1
    <3> QED BY <2>2, <2>5, <3>1, <3>2
  <2>6. CASE PushEvent
    <3>1. PICK e \in unsent : wire' = Append(wire, e)
      BY <2>6 DEF PushEvent
    <3>2. e.type = "deleted" => e.id \in deleted'
      BY <1>0, <2>1 DEF ClientFits
    <3> QED BY <2>5, <3>1, <3>2
  <2>7. CASE Reconnect
    <3>1. CASE wire' = <<>>
      <4>1. 1 .. Len(wire') = {}
        BY <3>1
      <4> QED BY <4>1
    <3>2. CASE wire' = [j \in 1 .. Len(Replayed) |-> Event("message", Replayed[j])]
      <4> DEFINE S == {id \in Inserted \ deleted : row[id] = 0}
      <4>2. S \in SUBSET (1 .. MaxId) /\ MaxId \in Nat
        BY ChatClientAssumption DEF Inserted, Ids
      <4>3. Len(Replayed) \in Nat
        <5>1. Replayed = Sorted(S)
          BY DEF Replayed
        <5> HIDE DEF S
        <5> QED BY <4>2, <5>1, SortedMembers
      <4>4. Len(wire') = Len(Replayed)
        BY <3>2, <4>3
      <4> QED BY <3>2, <4>4 DEF Event
    <3> QED BY <2>7, <3>1, <3>2 DEF Reconnect
  <2> QED BY <2>3, <2>4, <2>6, <2>7, Changes DEF WireChange
<1>9. \A e \in unsent' : e.type = "deleted" => e.id \in deleted'
  <2>1. deleted \subseteq deleted'
    BY WireTyped
  <2>2. \A e \in unsent : e.type = "deleted" => e.id \in deleted'
    BY <1>0, <2>1 DEF ClientFits
  <2>3. ASSUME NEW e, unsent' = unsent \cup {e}, e.type = "deleted" => e.id \in deleted'
        PROVE  \A f \in unsent' : f.type = "deleted" => f.id \in deleted'
    BY <2>2, <2>3
  <2>4. CASE unsent' \subseteq unsent
    BY <2>2, <2>4
  <2>5. CASE PeerSend
    <3>1. PICK id \in drawn : unsent' = unsent \cup {Event("message", id)}
      BY <2>5 DEF PeerSend
    <3>2. Event("message", id).type # "deleted"
      BY DEF Event
    <3> QED BY <2>3, <3>1, <3>2
  <2>6. CASE PeerDelete
    <3>1. PICK id \in Inserted : unsent' = unsent \cup {Event("deleted", id)} /\ id \in deleted'
      BY <2>6 DEF PeerDelete
    <3>2. Event("deleted", id).id = id
      BY DEF Event
    <3> QED BY <2>3, <3>1, <3>2
  <2>7. ASSUME NEW o \in Ops, DeleteRow(o)
        PROVE  \A f \in unsent' : f.type = "deleted" => f.id \in deleted'
    <3>1. CASE UNCHANGED unsent
      BY <2>4, <3>1
    <3>2. CASE deleted' = deleted \cup {op[o].id} /\ unsent' = unsent \cup {Event("deleted", op[o].id)}
      <4>1. Event("deleted", op[o].id).id = op[o].id
        BY DEF Event
      <4> QED BY <2>3, <3>2, <4>1
    <3> QED BY <2>7, <3>1, <3>2 DEF DeleteRow
  <2>8. CASE PushEvent \/ LoseEvent
    BY <2>4, <2>8 DEF PushEvent, LoseEvent
  <2>9. CASE UNCHANGED unsent
    BY <2>4, <2>9
  <2> QED BY <2>5, <2>6, <2>7, <2>8, <2>9, Changes DEF UnsentChange
<1>8. hasMore' => known'
  BY <1>3, <1>5
<1> QED BY <1>3, <1>4, <1>5, <1>6, <1>7, <1>8, <1>9 DEF ClientFits

\* Nothing that sends begins or ends, and no request is unsettled that was not.
Unsettled(q) == op[q].pc \in {"post", "insert", "failed"}
SendersStay ==
    \A q \in Ops : /\ Sending(q)' <=> Sending(q)
                   /\ Sending(q) => op'[q].target = op[q].target
                   /\ Unsettled(q)' => Unsettled(q)

\* Only sending, retrying and the two outcomes of a request change who sends.
LEMMA SendersAfter ==
    ASSUME ChatInv, [ChatNext]_chatVars
    PROVE  SendersStay \/ \E o \in Ops : Send(o) \/ Retry(o) \/ Confirm(o) \/ SendFailed(o)
<1>0. ClientTypes
  BY DEF ChatInv
<1>1. ASSUME UNCHANGED op PROVE SendersStay
  BY <1>1 DEF SendersStay, Sending, Unsettled
<1>2. ASSUME NEW o \in Ops, ~Sending(o), \A q \in Ops : q # o => op'[q] = op[q], ~Sending(o)'
      PROVE  SendersStay
  BY <1>2 DEF SendersStay, Sending, Unsettled
<1>3. ASSUME NEW o \in Ops, SelectPeer(o) PROVE SendersStay
  BY <1>0, <1>1, <1>2, <1>3, OpsAfter DEF SelectPeer, Becomes, Sending
<1>4. ASSUME NEW o \in Ops, LoadMore(o) PROVE SendersStay
  BY <1>0, <1>2, <1>4, OpsAfter DEF LoadMore, Becomes, Sending
<1>5. ASSUME NEW o \in Ops, Delete(o) PROVE SendersStay
  BY <1>2, <1>5, DeleteList DEF Delete, Becomes, Sending
<1>6. ASSUME NEW o \in Ops, GetPage(o) PROVE SendersStay
  BY <1>0, <1>2, <1>6, PageIsRead DEF GetPage, Becomes, Sending
<1>7. ASSUME NEW o \in Ops, ShowFirstPage(o) \/ ShowNextPage(o) PROVE SendersStay
  BY <1>0, <1>2, <1>7, OpsAfter DEF ShowFirstPage, ShowNextPage, Becomes, Sending
<1>8. ASSUME NEW o \in Ops, DeleteRow(o) PROVE SendersStay
  BY <1>0, <1>2, <1>8, OpsAfter DEF DeleteRow, Becomes, Sending
<1>9. ASSUME NEW o \in Ops, Post(o) \/ Insert(o) PROVE SendersStay
  <2>1. op[o].pc \in {"post", "insert"}
    BY <1>9 DEF Post, Insert
  <2>2. \E pc \in {"insert", "failed", "posted"}, id \in {op[o].id, seq} :
           Becomes(o, op[o].kind, pc, op[o].target, id)
    BY <1>0, <1>9, OpsAfter
  <2> QED BY <2>1, <2>2 DEF SendersStay, Becomes, Sending, Unsettled
<1> QED BY <1>1, <1>3, <1>4, <1>5, <1>6, <1>7, <1>8, <1>9, Changes DEF OpChange, OpStep

\* The steps that begin or end a send.
LEMMA SendSteps ==
    ASSUME ChatInv, NEW o \in Ops
    PROVE  /\ Send(o) => Becomes(o, "send", "post", -(texts + 1), 0) /\ ~Sending(o)
           /\ Confirm(o) \/ SendFailed(o) => Becomes(o, "none", "idle", 0, 0) /\ Sending(o)
           /\ Retry(o) => ~Sending(o)
           /\ Sending(o) => op[o].target \in (-texts) .. -1
           /\ SendFailed(o) => op[o].pc = "failed"
<1>1. ClientTypes /\ OpFits(op[o])
  BY DEF ChatInv, OpsFit
<1>2. Sending(o) => op[o].target \in (-texts) .. -1
  BY <1>1 DEF Sending, OpFits
<1>3. Send(o) \/ Retry(o) => ~Sending(o)
  BY DEF Send, Retry, Sending
<1>4. Confirm(o) \/ SendFailed(o) => Sending(o)
  BY DEF Confirm, SendFailed, Sending
<1>5. SendFailed(o) => op[o].pc = "failed"
  BY DEF SendFailed
<1> QED BY <1>1, <1>2, <1>3, <1>4, <1>5, OpsAfter

\* No step gives a text two requests, and none marks a text that is being sent: a retry
\* needs the mark that only the end of the last request sets.
LEMMA OneSenderKept ==
    ASSUME ChatInv, [ChatNext]_chatVars
    PROVE  OneSender'
<1>0. OneSender /\ EntriesFit
  BY DEF ChatInv
<1>1. ASSUME NEW q \in Ops, Sending(q) PROVE op[q].target \in (-texts) .. -1
  BY <1>1, SendSteps
<1>2. ASSUME NoNews,
             \A q \in Ops : Sending(q)' => Sending(q) /\ op'[q].target = op[q].target PROVE OneSender'
  BY <1>0, <1>2 DEF OneSender, NoNews
<1>3. CASE NoNews /\ SendersStay
  BY <1>2, <1>3 DEF SendersStay
<1>4. ASSUME NEW o \in Ops, Becomes(o, "none", "idle", 0, 0)
      PROVE  \A q \in Ops : Sending(q)' => q # o /\ Sending(q) /\ op'[q].target = op[q].target
  BY <1>4 DEF Becomes, Sending
<1>5. ASSUME NEW o \in Ops, Confirm(o) PROVE OneSender'
  BY <1>2, <1>4, <1>5, SendSteps, ConfirmList
<1>6. ASSUME NEW o \in Ops, SendFailed(o) PROVE OneSender'
  <2>1. \A q \in Ops : Sending(q)' => q # o /\ Sending(q) /\ op'[q].target = op[q].target
    BY <1>4, <1>6, SendSteps
  <2>2. Sending(o) /\ Marks(op[o].target, TRUE)
    BY <1>6, SendSteps, FailedList
  <2>3. \A q \in Ops : Sending(q)' => op[q].target # op[o].target
    BY <1>0, <2>1, <2>2 DEF OneSender
  <2> QED BY <1>0, <2>1, <2>2, <2>3 DEF OneSender, Marks
<1>7. ASSUME NEW o \in Ops, NEW t, Becomes(o, "send", "post", t, 0)
      PROVE  \A q \in Ops : Sending(q)' => (q = o /\ op'[q].target = t)
                                          \/ (q # o /\ Sending(q) /\ op'[q].target = op[q].target)
  BY <1>7 DEF Becomes, Sending
<1>8. ASSUME NEW o \in Ops, Send(o) PROVE OneSender'
  <2> DEFINE t == -(texts + 1)
  <2>1. \A q \in Ops : Sending(q)' => (q = o /\ op'[q].target = t)
                                     \/ (q # o /\ Sending(q) /\ op'[q].target = op[q].target)
    BY <1>7, <1>8, SendSteps
  <2>2. t \notin (-texts) .. -1 /\ t < 0
    BY Signs
  <2>3. \A q \in Ops : Sending(q) => op[q].target # t
    BY <1>1, <2>2
  <2>4. \A e \in Of(Listed') : e \in Of(Listed) \/ (e.id = t /\ e.failed = FALSE)
    BY <1>8, SendList
  <2>5. \A e \in Of(Listed) : e.id # t
    BY <1>0, <2>2, Signs DEF EntriesFit, EntryFits
  <2> HIDE DEF t
  <2> QED BY <1>0, <2>1, <2>3, <2>4, <2>5 DEF OneSender
<1>9. ASSUME NEW o \in Ops, Retry(o) PROVE OneSender'
  <2>1. PICK d \in Of(Listed) : d.failed /\ Marks(d.id, FALSE) /\ Becomes(o, "send", "post", d.id, 0)
    BY <1>9, RetryList
  <2>2. \A q \in Ops : Sending(q)' => (q = o /\ op'[q].target = d.id)
                                     \/ (q # o /\ Sending(q) /\ op'[q].target = op[q].target)
    BY <1>7, <2>1
  <2>3. \A q \in Ops : Sending(q) => op[q].target # d.id
    BY <1>0, <2>1 DEF OneSender
  <2> QED BY <1>0, <2>1, <2>2, <2>3 DEF OneSender, Marks
<1> QED BY <1>3, <1>5, <1>6, <1>8, <1>9, NewsAfter, SendersAfter

\* No step leaves an unmarked own entry without its request.
LEMMA PendingKept ==
    ASSUME ChatInv, [ChatNext]_chatVars
    PROVE  Pending'
<1>0. Pending
  BY DEF ChatInv
<1>1. CASE NoNews /\ SendersStay
  BY <1>0, <1>1, Signs DEF Pending, NoNews, SendersStay
<1>2. ASSUME NEW o \in Ops, Becomes(o, "none", "idle", 0, 0)
      PROVE  \A q \in Ops : (q # o /\ Sending(q)) => Sending(q)' /\ op'[q].target = op[q].target
  BY <1>2 DEF Becomes, Sending
<1>3. ASSUME NEW o \in Ops, Confirm(o) PROVE Pending'
  <2>1. \A q \in Ops : (q # o /\ Sending(q)) => Sending(q)' /\ op'[q].target = op[q].target
    BY <1>2, <1>3, SendSteps
  <2>2. NoNews /\ \A e \in Of(Listed') : e.id # op[o].target
    BY <1>3, ConfirmList
  <2> QED BY <1>0, <2>1, <2>2, Signs DEF Pending, NoNews
<1>4. ASSUME NEW o \in Ops, SendFailed(o) PROVE Pending'
  <2>1. \A q \in Ops : (q # o /\ Sending(q)) => Sending(q)' /\ op'[q].target = op[q].target
    BY <1>2, <1>4, SendSteps
  <2>2. Marks(op[o].target, TRUE)
    BY <1>4, FailedList
  <2> QED BY <1>0, <2>1, <2>2 DEF Pending, Marks
<1>5. ASSUME NEW o \in Ops, NEW t, ~Sending(o), Becomes(o, "send", "post", t, 0)
      PROVE  /\ Sending(o)' /\ op'[o].target = t
             /\ \A q \in Ops : Sending(q) => Sending(q)' /\ op'[q].target = op[q].target
  BY <1>5 DEF Becomes, Sending
<1>6. ASSUME NEW o \in Ops, Send(o) PROVE Pending'
  <2>1. /\ Sending(o)' /\ op'[o].target = -(texts + 1)
        /\ \A q \in Ops : Sending(q) => Sending(q)' /\ op'[q].target = op[q].target
    BY <1>5, <1>6, SendSteps
  <2>2. \A e \in Of(Listed') : e \in Of(Listed) \/ (e.id = -(texts + 1) /\ e.failed = FALSE)
    BY <1>6, SendList
  <2> QED BY <1>0, <2>1, <2>2 DEF Pending
<1>7. ASSUME NEW o \in Ops, Retry(o) PROVE Pending'
  <2>1. PICK d \in Of(Listed) : Marks(d.id, FALSE) /\ Becomes(o, "send", "post", d.id, 0)
    BY <1>7, RetryList
  <2>2. /\ Sending(o)' /\ op'[o].target = d.id
        /\ \A q \in Ops : Sending(q) => Sending(q)' /\ op'[q].target = op[q].target
    BY <1>5, <1>7, <2>1, SendSteps
  <2> QED BY <1>0, <2>1, <2>2 DEF Pending, Marks
<1> QED BY <1>1, <1>3, <1>4, <1>6, <1>7, NewsAfter, SendersAfter

\* A row that is new and not of the peer is of the text that is being inserted.
LEMMA NewRows ==
    ASSUME ChatInv, [ChatNext]_chatVars, NEW x \in Inserted' \ Inserted, row'[x] # 0
    PROVE  \E o \in Ops : /\ Insert(o) /\ x = op[o].id /\ row'[x] = -op[o].target
                          /\ \A y \in Inserted' : y # x => y \in Inserted
<1>0. row \in [Ids -> (0 .. MaxTexts) \cup {None}] /\ drawn \subseteq Ids
  BY DEF ChatInv, ClientTypes
<1>1. ~(UNCHANGED row)
  <2>1. ASSUME UNCHANGED row PROVE Inserted' = Inserted
    BY <2>1 DEF Inserted
  <2> QED BY <2>1
<1>2. ~PeerSend
  <2> SUFFICES ASSUME PeerSend PROVE FALSE
    OBVIOUS
  <2>1. PICK id \in drawn : row' = [row EXCEPT ![id] = 0]
    BY DEF PeerSend
  <2> QED BY <1>0, <2>1 DEF Inserted
<1>3. PICK o \in Ops : Insert(o)
  BY <1>1, <1>2, Changes DEF RowsChange, PeerDraw, Post
<1>4. row' = [row EXCEPT ![op[o].id] = -op[o].target] /\ op[o].id \in Ids
  BY <1>3, InsertFacts
<1>5. x = op[o].id /\ \A y \in Inserted' : y # x => y \in Inserted
  BY <1>0, <1>4 DEF Inserted
<1> QED BY <1>0, <1>3, <1>4, <1>5

\* Unless an answer is lost, a text that is stored has no request that could store it again.
LEMMA SettledKept ==
    ASSUME ChatInv, [ChatNext]_chatVars
    PROVE  StoredIsSettled' /\ StoredOnceUnlessAnswerLost'
<1>0. StoredIsSettled /\ StoredOnceUnlessAnswerLost /\ OneSender /\ IdsAreDrawn /\ ClientTypes /\ EntriesFit
  BY DEF ChatInv
<1>1. faults \subseteq faults' /\ \A x \in Inserted : row'[x] = row[x]
  BY RowsAfter, RestTyped DEF RowsGrow
<1> SUFFICES ASSUME "answer" \notin faults'
             PROVE  /\ \A x \in Inserted' : row'[x] # 0 =>
                          /\ \A q \in Ops : Unsettled(q)' => op'[q].target # -row'[x]
                          /\ \A e \in Of(Listed') : e.id = -row'[x] => ~e.failed
                    /\ \A x, y \in Inserted' : (row'[x] = row'[y] /\ row'[x] # 0) => x = y
  BY DEF StoredIsSettled, StoredOnceUnlessAnswerLost, Unsettled
<1>2. "answer" \notin faults
  BY <1>1
<1>3. ASSUME NEW x \in Inserted, row[x] # 0
      PROVE  /\ \A q \in Ops : Unsettled(q) => op[q].target # -row[x]
             /\ \A e \in Of(Listed) : e.id = -row[x] => ~e.failed
             /\ row[x] \in 0 .. texts
  BY <1>0, <1>2, <1>3 DEF StoredIsSettled, Unsettled, IdsAreDrawn
<1>4. ASSUME NEW o \in Ops, Insert(o)
      PROVE  /\ Sending(o) /\ op[o].pc = "insert" /\ UNCHANGED list
             /\ Becomes(o, op[o].kind, "posted", op[o].target, op[o].id)
  <2>1. /\ op[o].pc = "insert" /\ UNCHANGED list
        /\ Becomes(o, op[o].kind, "posted", op[o].target, op[o].id)
    BY <1>0, <1>4, OpsAfter DEF Insert
  <2> QED BY <2>1 DEF Sending
<1>5. ASSUME NEW x \in Inserted' \ Inserted, row'[x] # 0
      PROVE  /\ \A q \in Ops : Unsettled(q)' => op'[q].target # -row'[x]
             /\ \A e \in Of(Listed') : e.id = -row'[x] => ~e.failed
             /\ \A y \in Inserted' : row'[y] = row'[x] => y = x
  <2>1. PICK o \in Ops : /\ Insert(o) /\ x = op[o].id /\ row'[x] = -op[o].target
                         /\ \A y \in Inserted' : y # x => y \in Inserted
    BY <1>5, NewRows
  <2>2. /\ Sending(o) /\ op[o].pc = "insert" /\ UNCHANGED list
        /\ Becomes(o, op[o].kind, "posted", op[o].target, op[o].id)
    BY <1>4, <2>1
  <2>3. -row'[x] = op[o].target
    BY <2>1, <2>2, SendSteps, Signs
  <2>4. ASSUME NEW q \in Ops, Unsettled(q)' PROVE op'[q].target # op[o].target
    <3>1. q # o
      BY <2>2, <2>4 DEF Becomes, Unsettled
    <3>2. op'[q] = op[q] /\ Sending(q)
      BY <2>2, <2>4, <3>1 DEF Becomes, Unsettled, Sending
    <3> QED BY <1>0, <2>2, <3>1, <3>2 DEF OneSender
  <2>5. ASSUME NEW e \in Of(Listed'), e.id = op[o].target PROVE ~e.failed
    <3>1. Listed' = Listed
      BY <2>2 DEF Listed
    <3> QED BY <1>0, <2>2, <2>5, <3>1 DEF OneSender
  <2>6. ASSUME NEW y \in Inserted', row'[y] = row'[x], y # x PROVE FALSE
    <3>1. y \in Inserted /\ row[y] = row'[x]
      BY <1>1, <2>1, <2>6
    <3>2. Unsettled(o)
      BY <2>2 DEF Unsettled
    <3> QED BY <1>3, <1>5, <2>3, <3>1, <3>2
  <2> QED BY <2>3, <2>4, <2>5, <2>6
<1>6. ASSUME NEW x \in Inserted, row[x] # 0
      PROVE  /\ \A q \in Ops : Unsettled(q)' => op'[q].target # -row[x]
             /\ \A e \in Of(Listed') : e.id = -row[x] => ~e.failed
  <2>0. /\ \A q \in Ops : Unsettled(q) => op[q].target # -row[x]
        /\ \A e \in Of(Listed) : e.id = -row[x] => ~e.failed
        /\ row[x] \in 0 .. texts
    BY <1>3, <1>6
  <2>1. NoNews => \A e \in Of(Listed') : e.id = -row[x] => ~e.failed
    BY <2>0 DEF NoNews
  <2>2. SendersStay => \A q \in Ops : Unsettled(q)' => op'[q].target # -row[x]
    <3>1. \A q \in Ops : Unsettled(q) => Sending(q)
      BY DEF Unsettled, Sending
    <3> QED BY <2>0, <3>1 DEF SendersStay
  <2>3. ASSUME NEW o \in Ops, Becomes(o, "none", "idle", 0, 0)
        PROVE  \A q \in Ops : Unsettled(q)' => op'[q].target # -row[x]
    BY <2>0, <2>3 DEF Becomes, Unsettled
  <2>4. ASSUME NEW o \in Ops, NEW t, Becomes(o, "send", "post", t, 0), t # -row[x]
        PROVE  \A q \in Ops : Unsettled(q)' => op'[q].target # -row[x]
    BY <2>0, <2>4 DEF Becomes, Unsettled
  <2>5. ASSUME NEW o \in Ops, Confirm(o)
        PROVE  /\ \A q \in Ops : Unsettled(q)' => op'[q].target # -row[x]
               /\ \A e \in Of(Listed') : e.id = -row[x] => ~e.failed
    BY <2>1, <2>3, <2>5, ConfirmList, SendSteps
  <2>6. ASSUME NEW o \in Ops, SendFailed(o)
        PROVE  /\ \A q \in Ops : Unsettled(q)' => op'[q].target # -row[x]
               /\ \A e \in Of(Listed') : e.id = -row[x] => ~e.failed
    <3>1. Marks(op[o].target, TRUE) /\ Unsettled(o) /\ Becomes(o, "none", "idle", 0, 0)
      BY <2>6, FailedList, SendSteps DEF Unsettled
    <3>2. op[o].target # -row[x]
      BY <2>0, <3>1
    <3> QED BY <2>0, <2>3, <3>1, <3>2 DEF Marks
  <2>7. ASSUME NEW o \in Ops, Send(o)
        PROVE  /\ \A q \in Ops : Unsettled(q)' => op'[q].target # -row[x]
               /\ \A e \in Of(Listed') : e.id = -row[x] => ~e.failed
    <3>1. -(texts + 1) # -row[x]
      BY <2>0, Signs
    <3>2. Becomes(o, "send", "post", -(texts + 1), 0)
      BY <2>7, SendSteps
    <3>3. \A e \in Of(Listed') : e \in Of(Listed) \/ (e.id = -(texts + 1) /\ e.failed = FALSE)
      BY <2>7, SendList
    <3> QED BY <2>0, <2>4, <3>1, <3>2, <3>3
  <2>8. ASSUME NEW o \in Ops, Retry(o)
        PROVE  /\ \A q \in Ops : Unsettled(q)' => op'[q].target # -row[x]
               /\ \A e \in Of(Listed') : e.id = -row[x] => ~e.failed
    <3>1. PICK d \in Of(Listed) : d.failed /\ Marks(d.id, FALSE) /\ Becomes(o, "send", "post", d.id, 0)
      BY <2>8, RetryList
    <3>2. d.id # -row[x]
      BY <2>0, <3>1
    <3> QED BY <2>0, <2>4, <3>1, <3>2 DEF Marks
  <2> QED BY <2>1, <2>2, <2>5, <2>6, <2>7, <2>8, NewsAfter, SendersAfter
<1>7. ASSUME NEW x \in Inserted', row'[x] # 0
      PROVE  /\ \A q \in Ops : Unsettled(q)' => op'[q].target # -row'[x]
             /\ \A e \in Of(Listed') : e.id = -row'[x] => ~e.failed
  BY <1>1, <1>5, <1>6, <1>7
<1>8. ASSUME NEW x \in Inserted', NEW y \in Inserted', row'[x] = row'[y],
             row'[x] # 0 PROVE x = y
  <2>1. CASE x \in Inserted /\ y \in Inserted
    BY <1>0, <1>1, <1>2, <1>8, <2>1 DEF StoredOnceUnlessAnswerLost
  <2> QED BY <1>5, <1>8, <2>1
<1> QED BY <1>7, <1>8

\* The client has not been told of a message of the peer's that is new.
LEMMA AliveAfter ==
    ASSUME ChatInv, [ChatNext]_chatVars, NEW id \in Alive'
    PROVE  id \in Ids /\ (id \in Alive \/ id \in untold')
<1>0. row \in [Ids -> (0 .. MaxTexts) \cup {None}] /\ drawn \subseteq Ids
  BY DEF ChatInv, ClientTypes
<1>1. id \in Inserted' /\ id \notin deleted' /\ row'[id] = 0 /\ id \in Ids
  BY DEF Alive, Inserted
<1>2. CASE id \in Inserted
  <2>1. row'[id] = row[id] /\ deleted \subseteq deleted'
    BY <1>2, RowsAfter, WireTyped DEF RowsGrow
  <2> QED BY <1>1, <1>2, <2>1 DEF Alive
<1>3. CASE id \notin Inserted
  <2>1. ~UNCHANGED row
    BY <1>1, <1>3 DEF Inserted
  <2>2. ASSUME NEW o \in Ops, Insert(o) PROVE FALSE
    <3>1. /\ row' = [row EXCEPT ![op[o].id] = -op[o].target] /\ -op[o].target # 0
      BY <2>2, InsertFacts
    <3> QED BY <1>0, <1>1, <1>3, <3>1 DEF Inserted
  <2>3. PeerSend
    BY <2>1, <2>2, Changes DEF RowsChange, PeerDraw, Post
  <2>4. PICK i \in drawn : row' = [row EXCEPT ![i] = 0] /\ untold' = untold \cup {i}
    BY <2>3 DEF PeerSend
  <2>5. i = id
    BY <1>0, <1>1, <1>3, <2>4 DEF Inserted
  <2> QED BY <1>1, <2>4, <2>5
<1> QED BY <1>1, <1>2, <1>3

\* A replay brings every message of the peer's.
LEMMA ReplayTells ==
    ASSUME ChatInv, NEW id \in Alive,
           wire' = [j \in 1 .. Len(Replayed) |-> Event("message", Replayed[j])]
    PROVE  OnWire(id)'
<1> DEFINE S == {i \in Inserted \ deleted : row[i] = 0}
<1>1. S \in SUBSET (1 .. MaxId) /\ MaxId \in Nat /\ id \in S
  BY ChatClientAssumption DEF Inserted, Ids, Alive
<1>2. Replayed = Sorted(S)
  BY DEF Replayed
<1> HIDE DEF S
<1>3. id \in Of(Replayed) /\ Len(Replayed) \in Nat
  BY <1>1, <1>2, SortedMembers
<1>4. PICK k \in 1 .. Len(Replayed) : Replayed[k] = id
  BY <1>3 DEF Of
<1>5. k \in 1 .. Len(wire') /\ wire'[k] = Event("message", id)
  BY <1>3, <1>4
<1> QED BY <1>5 DEF OnWire, Event

\* What is on the socket stays on it, is taken by the client, once that knows the peer,
\* or is lost with the socket.
LEMMA WireKept ==
    ASSUME ChatInv, [ChatNext]_chatVars, NEW id \in Alive, id \in Alive', OnWire(id), known
    PROVE  OnWire(id)' \/ decrypting'[id] > 0 \/ id \in untold' \/ Holds(Listed', id)
<1>0. /\ wire \in Seq(Events(Inserted)) /\ decrypting \in [Ids -> Nat] /\ id \in Ids
  BY DEF ChatInv, ClientTypes, Events, Alive, Inserted
<1>1. PICK j \in 1 .. Len(wire) : /\ wire[j] = Event("message", id)
                                  /\ wire[j].type = "message" /\ wire[j].id = id
  BY DEF OnWire, Event
<1>2. CASE UNCHANGED wire
  BY <1>1, <1>2 DEF OnWire, Event
<1>3. CASE PushEvent
  <2>1. PICK e \in unsent : wire' = Append(wire, e)
    BY <1>3 DEF PushEvent
  <2>2. j \in 1 .. Len(wire') /\ wire'[j] = wire[j]
    BY <1>0, <2>1
  <2> QED BY <1>1, <2>2 DEF OnWire, Event
<1>4. ASSUME wire # <<>>, wire' = Tail(wire), j # 1 PROVE OnWire(id)'
  <2>1. j - 1 \in 1 .. Len(wire') /\ wire'[j - 1] = wire[j]
    BY <1>0, <1>4
  <2> QED BY <1>1, <2>1 DEF OnWire, Event
<1>5. CASE OnMessage
  <2>1. wire # <<>> /\ wire' = Tail(wire) /\ decrypting' = [decrypting EXCEPT ![Head(wire).id] = @ + 1]
    BY <1>5 DEF OnMessage
  <2>2. CASE j = 1
    <3>1. Head(wire) = wire[1]
      BY <1>0, <2>1, WireMoves
    <3>2. decrypting' = [decrypting EXCEPT ![id] = decrypting[id] + 1]
      BY <1>1, <2>1, <2>2, <3>1
    <3>3. decrypting[id] \in Nat /\ decrypting'[id] = decrypting[id] + 1
      BY <1>0, <3>2
    <3> QED BY <3>3
  <2> QED BY <1>4, <2>1, <2>2
<1>6. CASE OnMessageDeleted
  <2>1. wire # <<>> /\ wire' = Tail(wire) /\ Head(wire).type = "deleted"
    BY <1>6 DEF OnMessageDeleted
  <2>2. j # 1
    BY <1>0, <1>1, <2>1, WireMoves
  <2> QED BY <1>4, <2>1, <2>2
<1>7. CASE Reconnect
  <2>1. CASE wire' = [k \in 1 .. Len(Replayed) |-> Event("message", Replayed[k])]
    BY <2>1, ReplayTells
  <2>2. CASE untold' = untold \cup {i \in Ids : OnWire(i) /\ ~Holds(Listed, i)}
    BY <1>0, <1>7, <2>2 DEF Reconnect, Listed
  <2> QED BY <1>7, <2>1, <2>2 DEF Reconnect
<1> QED BY <1>2, <1>3, <1>5, <1>6, <1>7, Changes DEF WireChange

\* A message the client has not been told of comes with its event, a replay or a page.
LEMMA UntoldAfter ==
    ASSUME ChatInv, [ChatNext]_chatVars, NEW id \in Alive, id \in untold
    PROVE  OnWire(id)' \/ id \in untold' \/ Holds(Listed', id)
<1>0. wire \in Seq(Events(Inserted)) /\ unsent \subseteq Events(Inserted) /\ id \in Ids
  BY DEF ChatInv, ClientTypes, Events, Alive, Inserted
<1>1. CASE UNCHANGED untold
  BY <1>1
<1>2. CASE PeerSend
  BY <1>2 DEF PeerSend
<1>3. CASE PushEvent
  <2>1. PICK e \in unsent : /\ wire' = Append(wire, e)
                            /\ untold' = IF e.type = "message" THEN untold \ {e.id} ELSE untold
    BY <1>3 DEF PushEvent
  <2>2. CASE e.type = "message" /\ e.id = id
    <3>1. e = Event("message", id)
      BY <1>0, <2>2 DEF Events, Event
    <3>2. Len(wire') \in 1 .. Len(wire') /\ wire'[Len(wire')] = e
      BY <1>0, <2>1
    <3> QED BY <3>1, <3>2 DEF OnWire, Event
  <2>3. CASE ~(e.type = "message" /\ e.id = id)
    BY <2>1, <2>3
  <2> QED BY <2>2, <2>3
<1>4. CASE Reconnect
  <2>1. CASE wire' = [k \in 1 .. Len(Replayed) |-> Event("message", Replayed[k])]
    BY <2>1, ReplayTells
  <2>2. CASE untold' = untold \cup {i \in Ids : OnWire(i) /\ ~Holds(Listed, i)}
    BY <2>2
  <2> QED BY <1>4, <2>1, <2>2 DEF Reconnect
<1>5. ASSUME NEW o \in Ops, ShowFirstPage(o) \/ ShowNextPage(o), id \notin untold'
      PROVE  Holds(Listed', id)
  <2>1. op[o].raw \in Seq(Ids)
    BY DEF ChatInv, ClientTypes, OpRecords
  <2>2. Brings(o)
    BY <1>5 DEF ShowFirstPage, ShowNextPage
  <2>3. id \in ToSet(op[o].raw)
    BY <1>5, <2>2 DEF Brings
  <2>4. id \in Of(op[o].raw) /\ op[o].raw # <<>>
    BY <2>1, <2>3 DEF ToSet, Of
  <2> QED BY <1>5, <2>4, FirstPageList, NextPageList
<1> QED BY <1>1, <1>2, <1>3, <1>4, <1>5, Changes

\* Nothing that is safe is lost, once the client knows the peer.
LEMMA SafeAfter ==
    ASSUME ChatInv, [ChatNext]_chatVars, known
    PROVE  \A id \in Alive' : id \in Ids /\ (Safe(id)' \/ (id \in Alive /\ ~Safe(id)))
<1> SUFFICES ASSUME NEW id \in Alive', ~(id \in Alive /\ ~Safe(id))
             PROVE  id \in Ids /\ Safe(id)'
  BY AliveAfter
<1>0. decrypting \in [Ids -> Nat]
  BY DEF ChatInv, ClientTypes
<1>1. id \in Ids /\ (id \in untold' \/ (id \in Alive /\ Safe(id)))
  BY AliveAfter
<1>2. CASE id \in untold'
  BY <1>1, <1>2 DEF Safe
<1>3. CASE id \in Alive /\ Holds(Listed, id)
  <2>1. Holds(Listed', id) \/ id \in dropped'
    BY <1>3, ListAfter DEF ListGood
  <2> QED BY <1>1, <2>1 DEF Safe
<1>4. CASE id \in dropped
  BY <1>1, <1>4, RestTyped DEF Safe
<1>7. CASE id \in Alive /\ id \in untold
  BY <1>1, <1>7, UntoldAfter DEF Safe
<1>5. CASE id \in Alive /\ OnWire(id)
  BY <1>1, <1>5, WireKept DEF Safe
<1>6. CASE decrypting[id] > 0
  <2>1. CASE UNCHANGED decrypting
    BY <1>1, <1>6, <2>1 DEF Safe
  <2>2. CASE OnMessage
    <3>1. /\ decrypting' = [decrypting EXCEPT ![Head(wire).id] = @ + 1]
      BY <2>2 DEF OnMessage
    <3>2. decrypting[id] \in Nat /\ decrypting'[id] \in {decrypting[id], decrypting[id] + 1}
      BY <1>0, <1>1, <3>1
    <3>3. decrypting'[id] > 0
      BY <1>6, <3>2
    <3> QED BY <1>1, <3>3 DEF Safe
  <2>3. ASSUME NEW i \in Ids, Decrypted(i) PROVE Safe(id)'
    <3>1. CASE i = id
      <4>1. Holds(Listed', id)
        BY <1>1, <2>3, <3>1, DecryptedList
      <4> QED BY <4>1 DEF Safe
    <3>2. CASE i # id
      <4>1. decrypting' = [decrypting EXCEPT ![i] = @ - 1]
        BY <2>3 DEF Decrypted
      <4>2. decrypting'[id] = decrypting[id]
        BY <1>0, <1>1, <3>2, <4>1
      <4> QED BY <1>6, <4>2 DEF Safe
    <3> QED BY <3>1, <3>2
  <2> QED BY <1>1, <2>1, <2>2, <2>3, Changes
<1> QED BY <1>1, <1>2, <1>3, <1>4, <1>5, <1>6, <1>7 DEF Safe

\* What a page lacks is safe, or a later page has it.
LEMMA PagesKept ==
    ASSUME ChatInv, [ChatNext]_chatVars
    PROVE  PageMissesNothing'
<1>0. /\ PageMissesNothing /\ ListMissesNothing /\ OpsFit /\ ClientTypes /\ ClientFits
  BY DEF ChatInv
<1>1. OpsFit' /\ ClientFits'
  BY OpsKept, ClientKept
<1> DEFINE Get(q) == \A id \in Alive' : id <= op'[q].target => Safe(id)'
           Got(q) == \A id \in Alive' : Safe(id)' \/ id \in Of(op'[q].raw) \/ Beyond(op'[q], id)
           Misses(q) == op'[q].kind \in {"select", "more"} =>
                           /\ op'[q].pc = "get" => Get(q)
                           /\ op'[q].pc = "got" => Got(q)
<1> SUFFICES ASSUME NEW q \in Ops PROVE Misses(q)
  BY DEF PageMissesNothing
<1>2. CASE ~known
  <2>1. CASE ~known'
    BY <1>1, <2>1 DEF OpsFit, OpFits
  <2>2. CASE known'
    <3>1. UNCHANGED op
      BY <1>2, <2>2, Changes DEF LoadContacts
    <3>2. op[q].pc = "idle"
      BY <1>0, <1>2 DEF OpsFit, OpFits
    <3> QED BY <3>1, <3>2
  <2> QED BY <2>1, <2>2
<1>3. CASE known
  <2>0. \A id \in Alive' : id \in Ids /\ (Safe(id)' \/ (id \in Alive /\ ~Safe(id)))
    BY <1>3, SafeAfter
  <2>1. CASE op'[q] = op[q]
    BY <1>0, <2>0, <2>1 DEF PageMissesNothing
  <2>2. CASE SelectPeer(q)
    <3>1. op'[q] = op[q] \/ (op'[q].pc = "get" /\ op'[q].target = 0)
      BY <1>0, <2>2, OpsAfter DEF Becomes
    <3>2. \A id \in Alive' : ~(id <= 0)
      BY <2>0, Signs
    <3> QED BY <2>1, <3>1, <3>2
  <2>3. CASE LoadMore(q)
    <3>1. op'[q].pc = "get" /\ op'[q].target = last
      BY <1>0, <2>3, OpsAfter DEF Becomes
    <3>2. list # None /\ ~begun
      BY <1>0, <2>3 DEF LoadMore, ClientFits
    <3>3. \A id \in Alive : Safe(id) \/ id > last
      BY <1>0, <3>2 DEF ListMissesNothing
    <3>4. last \in Int /\ \A id \in Ids : id \in Int
      BY <1>0, ChatClientAssumption DEF ClientTypes, Ids
    <3> QED BY <2>0, <3>1, <3>3, <3>4
  <2>4. CASE GetPage(q)
    <3>1. CASE Becomes(q, "none", "idle", 0, 0)
      BY <3>1 DEF Becomes
    <3>2. CASE /\ Becomes(q, op[q].kind, "got", op[q].target, op[q].id)
               /\ \A id \in Inserted : id > op[q].target => id \in Of(op'[q].raw) \/ Beyond(op'[q], id)
      <4>1. op[q].pc = "get" /\ op'[q].pc = "got" /\ op'[q].kind = op[q].kind /\ op[q].target \in Int
        <5>1. op[q].pc = "get"
          BY <2>4 DEF GetPage
        <5>2. op'[q].pc = "got" /\ op'[q].kind = op[q].kind
          BY <3>2 DEF Becomes
        <5>3. op[q] \in OpRecords
          BY <1>0 DEF ClientTypes
        <5>4. op[q].target \in Int
          BY <5>3, ChatClientAssumption DEF OpRecords
        <5> QED BY <5>1, <5>2, <5>4
      <4>2. op[q].kind \in {"select", "more"} => \A id \in Alive : id <= op[q].target => Safe(id)
        BY <1>0, <4>1 DEF PageMissesNothing
      <4>3. \A id \in Alive : id \in Inserted /\ id \in Int
        BY ChatClientAssumption DEF Alive, Inserted, Ids
      <4>4. \A id \in Alive : id <= op[q].target \/ id > op[q].target
        BY <4>1, <4>3
      <4> QED BY <2>0, <3>2, <4>1, <4>2, <4>3, <4>4
    <3> QED BY <1>0, <2>4, <3>1, <3>2, PageIsRead
  <2>5. CASE Send(q) \/ Retry(q) \/ Delete(q)
    BY <1>0, <2>5, OpsAfter, RetryList, DeleteList DEF Becomes
  <2>6. CASE Post(q) \/ Insert(q) \/ DeleteRow(q)
    <3>1. op[q].kind \notin {"select", "more"}
      BY <1>0, <2>6 DEF Post, Insert, DeleteRow, OpsFit, OpFits
    <3>2. op'[q].kind \in {op[q].kind, "none"}
      BY <1>0, <2>6, OpsAfter DEF Becomes
    <3> QED BY <3>1, <3>2
  <2>7. CASE ShowFirstPage(q) \/ ShowNextPage(q) \/ Confirm(q) \/ SendFailed(q)
    BY <1>0, <2>7, OpsAfter DEF Becomes
  <2>8. ASSUME NEW o \in Ops,
               SelectPeer(o) \/ LoadMore(o) \/ Send(o) \/ Retry(o) \/ Delete(o) \/ OpStep(o),
               o # q
        PROVE  op'[q] = op[q]
    BY <1>0, <2>8, OpsAfter, PageIsRead, RetryList, DeleteList DEF Becomes, OpStep
  <2> QED BY <2>1, <2>2, <2>3, <2>4, <2>5, <2>6, <2>7, <2>8, Changes DEF OpChange, OpStep
<1> QED BY <1>2, <1>3

\* What the list lacks is safe, or the pages after the last one have it.
LEMMA ListMissesKept ==
    ASSUME ChatInv, [ChatNext]_chatVars
    PROVE  ListMissesNothing'
<1>0. /\ PageMissesNothing /\ ListMissesNothing /\ OpsFit /\ ClientTypes /\ ClientFits
  BY DEF ChatInv
<1>1. ClientFits' /\ (list # None => list' # None)
  BY ClientKept, ListAfter DEF ListGood
<1> DEFINE Misses == \A id \in Alive' : Safe(id)' \/ (hasMore' /\ id > last')
<1> SUFFICES ASSUME list' # None, ~begun' PROVE Misses
  BY DEF ListMissesNothing
<1>2. known
  <2>1. known'
    BY <1>1 DEF ClientFits
  <2>2. ASSUME LoadContacts, ~known PROVE FALSE
    <3>1. UNCHANGED list /\ list = None
      BY <1>0, <2>2 DEF LoadContacts, ClientFits
    <3> QED BY <3>1
  <2> QED BY <2>1, <2>2, Changes
<1>3. \A id \in Alive' : id \in Ids /\ (Safe(id)' \/ (id \in Alive /\ ~Safe(id)))
  BY <1>2, SafeAfter
<1>4. ASSUME list # None, ~begun, UNCHANGED page PROVE Misses
  BY <1>0, <1>3, <1>4 DEF ListMissesNothing, page
<1>5. ASSUME NEW o \in Ops, ShowFirstPage(o) PROVE Misses
  <2>1. CASE op[o].kind = "select"
    <3>1. \A id \in Alive : Safe(id) \/ id \in Of(op[o].raw) \/ Beyond(op[o], id)
      BY <1>0, <1>5, <2>1 DEF PageMissesNothing, ShowFirstPage
    <3>2. \A id \in Of(op[o].raw) : Holds(Listed', id)
      BY <1>5, FirstPageList
    <3>3. hasMore' = op[o].more /\ (op[o].raw # <<>> => last' = op[o].raw[Len(op[o].raw)])
      BY <1>5, <2>1 DEF ShowFirstPage, Last
    <3>4. ASSUME NEW id \in Alive', ~Safe(id)' PROVE hasMore' /\ id > last'
      <4>1. id \in Alive /\ ~Safe(id)
        BY <1>3, <3>4
      <4>2. id \notin Of(op[o].raw)
        BY <3>2, <3>4 DEF Safe
      <4> QED BY <3>1, <3>3, <4>1, <4>2 DEF Beyond
    <3> QED BY <3>4
  <2>2. CASE op[o].kind # "select"
    <3>1. list # None
      BY <1>0, <1>5, <2>2 DEF OpsFit, OpFits, ShowFirstPage
    <3>2. UNCHANGED <<page, begun>>
      BY <1>5, <2>2 DEF ShowFirstPage
    <3> QED BY <1>4, <3>1, <3>2
  <2> QED BY <2>1, <2>2
<1>6. ASSUME NEW o \in Ops, ShowNextPage(o) PROVE Misses
  <2>0. list # None /\ ~begun
    BY <1>0, <1>6 DEF ShowNextPage, OpsFit, OpFits
  <2>1. CASE op[o].raw = <<>>
    <3>1. UNCHANGED page
      BY <1>6, <2>1 DEF ShowNextPage
    <3> QED BY <1>4, <2>0, <3>1
  <2>2. CASE op[o].raw # <<>>
    <3>1. \A id \in Alive : Safe(id) \/ id \in Of(op[o].raw) \/ Beyond(op[o], id)
      BY <1>0, <1>6 DEF PageMissesNothing, ShowNextPage
    <3>2. \A id \in Of(op[o].raw) : Holds(Listed', id)
      BY <1>6, <2>2, NextPageList
    <3>3. hasMore' = op[o].more /\ last' = op[o].raw[Len(op[o].raw)]
      BY <1>6, <2>2 DEF ShowNextPage, Last
    <3>4. ASSUME NEW id \in Alive', ~Safe(id)' PROVE hasMore' /\ id > last'
      <4>1. id \in Alive /\ ~Safe(id)
        BY <1>3, <3>4
      <4>2. id \notin Of(op[o].raw)
        BY <3>2, <3>4 DEF Safe
      <4> QED BY <3>1, <3>3, <4>1, <4>2 DEF Beyond
    <3> QED BY <3>4
  <2> QED BY <2>1, <2>2
<1>7. ASSUME ~\E o \in Ops : ShowFirstPage(o) \/ ShowNextPage(o) PROVE Misses
  <2>1. UNCHANGED page
    BY <1>7, Changes
  <2>2. UNCHANGED begun \/ begun' = (begun \/ list = None)
    BY <1>7, Changes DEF Decrypted, Send, Begins
  <2>3. ~begun
    BY <2>2, Zenon
  <2>4. list # None
    <3>1. ASSUME list = None PROVE FALSE
      <4>1. UNCHANGED begun
        <5>1. ~(begun' = (begun \/ list = None))
          BY <3>1, Zenon
        <5> QED BY <2>2, <5>1
      <4>2. ~UNCHANGED list /\ ~OnMessageDeleted
        BY <3>1 DEF OnMessageDeleted
      <4>3. ASSUME NEW id \in Ids, Decrypted(id) PROVE FALSE
        <5>1. begun' = (begun \/ list = None)
          BY <4>3 DEF Decrypted, Begins
        <5> QED BY <3>1, <5>1, Zenon
      <4>4. ASSUME NEW o \in Ops, Send(o) PROVE FALSE
        <5>1. begun' = (begun \/ list = None)
          BY <4>4 DEF Send, Begins
        <5> QED BY <3>1, <5>1, Zenon
      <4>5. ASSUME NEW o \in Ops, Retry(o) \/ Delete(o) PROVE FALSE
        <5>1. Len(Listed) = 0
          BY <3>1 DEF Listed
        <5>2. 1 .. Len(Listed) = {}
          BY <5>1
        <5> QED BY <4>5, <5>2 DEF Retry, Delete
      <4>6. ASSUME NEW o \in Ops, Confirm(o) \/ SendFailed(o) PROVE FALSE
        BY <1>0, <3>1, <4>6 DEF Confirm, SendFailed, OpsFit, OpFits
      <4> QED BY <1>7, <4>2, <4>3, <4>4, <4>5, <4>6, Changes DEF ListChange
    <3> QED BY <3>1
  <2> QED BY <1>4, <2>1, <2>3, <2>4
<1> QED BY <1>5, <1>6, <1>7

-----------------------------------------------------------------------------
(* The theorems. *)

\* The invariant holds at the beginning.
LEMMA ChatBegins == ChatInit => ChatInv
<1> SUFFICES ASSUME ChatInit PROVE ChatInv
  OBVIOUS
<1>0. MaxId \in Nat /\ MaxTexts \in Nat /\ MaxReconnects \in Nat /\ None \notin Nat
  BY ChatClientAssumption
<1>1. Inserted = {} /\ Alive = {} /\ Listed = <<>> /\ Len(Listed) = 0
  BY DEF ChatInit, Inserted, Alive, Listed
<1>2. 1 .. Len(Listed) = {} /\ Of(Listed) = {}
  <2>1. 1 .. Len(Listed) = {}
    BY <1>1
  <2> QED BY <2>1 DEF Of
<1>3. op \in [Ops -> OpRecords] /\ \A o \in Ops : op[o].pc = "idle" /\ op[o].kind = "none"
  BY NoOpFits DEF ChatInit
<1>4. wire = <<>> /\ Len(wire) = 0 /\ 1 .. Len(wire) = {}
  BY DEF ChatInit
<1>5. ClientTypes
  <2>1. /\ row \in [Ids -> (0 .. MaxTexts) \cup {None}] /\ deleted \subseteq Inserted
        /\ reconnects \in 0 .. MaxReconnects /\ texts \in 0 .. MaxTexts
        /\ last \in 0 .. MaxId /\ seq \in 1 .. MaxId + 1
        /\ unsent \subseteq [type : {"message", "deleted"}, id : Inserted] /\ untold \subseteq Inserted
    BY <1>0 DEF ChatInit
  <2>2. wire \in Seq([type : {"message", "deleted"}, id : Inserted]) /\ list \in Seq(Entries) \cup {None}
    BY <1>4 DEF ChatInit
  <2>3. decrypting \in [Ids -> Nat] /\ \A id \in Ids : decrypting[id] > 0 => id \in Inserted
    BY DEF ChatInit
  <2>4. /\ known \in BOOLEAN /\ active \in BOOLEAN /\ hasMore \in BOOLEAN /\ begun \in BOOLEAN
        /\ faults \subseteq ChatFaultKinds /\ dropped \subseteq Ids /\ drawn \subseteq Ids \ Inserted
    BY DEF ChatInit
  <2> QED BY <1>3, <2>1, <2>2, <2>3, <2>4 DEF ClientTypes
<1>6. IdsAreDrawn
  BY <1>1, <1>3 DEF IdsAreDrawn, ChatInit
<1>7. OpsFit
  BY <1>3 DEF OpsFit, OpFits
<1>8. EntriesFit /\ Pending /\ ShownOnce
  BY <1>2 DEF EntriesFit, Pending, ShownOnce, Once
<1>9. ClientFits
  BY <1>4 DEF ClientFits, ChatInit
<1>10. OneSender
  BY <1>3 DEF OneSender, Sending
<1>11. StoredIsSettled /\ StoredOnceUnlessAnswerLost
  BY <1>1 DEF StoredIsSettled, StoredOnceUnlessAnswerLost
<1>12. PageMissesNothing /\ ListMissesNothing
  BY <1>1 DEF PageMissesNothing, ListMissesNothing
<1> QED BY <1>5, <1>6, <1>7, <1>8, <1>9, <1>10, <1>11, <1>12 DEF ChatInv

\* The inductive invariant holds in every behaviour of the conversation list.
THEOREM ChatInvariant == ChatSpec => []ChatInv
<1>1. ChatInit => ChatInv
  BY ChatBegins
<1>2. ChatInv /\ [ChatNext]_chatVars => ChatInv'
  <2> SUFFICES ASSUME ChatInv, [ChatNext]_chatVars PROVE ChatInv'
    OBVIOUS
  <2> QED BY TypesKept, IdsKept, OpsKept, EntriesKept, ClientKept, OneSenderKept, PendingKept,
             SettledKept, PagesKept, ListMissesKept, ShownOnceKept DEF ChatInv
<1> QED BY <1>1, <1>2, PTL DEF ChatSpec

\* The types of ChatClient hold, and an entry with a server id is of a stored message
\* and bears no failure mark, whatever answers overtake each other.
THEOREM ChatTypes == ChatSpec => []ChatTypeOK
<1>1. ChatInv => ChatTypeOK
  <2> SUFFICES ASSUME ChatInv PROVE ChatTypeOK
    OBVIOUS
  <2>1. ClientTypes /\ EntriesFit
    BY DEF ChatInv
  <2>2. ASSUME NEW j \in 1 .. Len(Listed), Listed[j].id > 0
        PROVE  row[Listed[j].id] # None /\ ~Listed[j].failed
    <3>1. Listed[j] \in Of(Listed)
      BY DEF Of
    <3>2. EntryFits(Listed[j])
      BY <2>1, <3>1 DEF EntriesFit
    <3>3. Listed[j].id \notin (-texts) .. -1
      BY <2>2, Signs
    <3> QED BY <3>2, <3>3 DEF EntryFits, Inserted
  <2> QED BY <2>1, <2>2 DEF ClientTypes, ChatTypeOK, OpRecords
<1> QED BY <1>1, ChatInvariant, PTL

\* onMessage, the replay, loadMoreMessages and selectPeer never show a message of the
\* peer's twice, however often its decryption is begun.
THEOREM ShownOnceAlways == ChatSpec => []PeerMessageShownOnce
<1>1. ChatInv => PeerMessageShownOnce
  <2> SUFFICES ASSUME ChatInv PROVE PeerMessageShownOnce
    OBVIOUS
  <2>1. Once(Listed, {id \in Ids : row[id] = 0}) /\ EntriesFit
    BY DEF ChatInv, ShownOnce
  <2>2. ASSUME NEW j \in 1 .. Len(Listed), Listed[j].id > 0 PROVE Listed[j].id \in Ids
    <3>1. Listed[j] \in Of(Listed)
      BY DEF Of
    <3>2. EntryFits(Listed[j])
      BY <2>1, <3>1 DEF EntriesFit
    <3>3. Listed[j].id \notin (-texts) .. -1
      BY <2>2, Signs
    <3> QED BY <3>2, <3>3, Signs DEF EntryFits
  <2> QED BY <2>1, <2>2 DEF Once, PeerMessageShownOnce
<1> QED BY <1>1, ChatInvariant, PTL

\* An optimistic entry without a failure mark has its request: sendMessage and
\* retryMessage leave no entry waiting for an answer nobody will give.
THEOREM PendingSent == ChatSpec => []PendingIsBeingSent
<1>1. ChatInv => PendingIsBeingSent
  <2> SUFFICES ASSUME ChatInv PROVE PendingIsBeingSent
    OBVIOUS
  <2>1. \A j \in 1 .. Len(Listed) : Listed[j] \in Of(Listed)
    BY DEF Of
  <2> QED BY <2>1 DEF ChatInv, Pending, PendingIsBeingSent, Sending
<1> QED BY <1>1, ChatInvariant, PTL

\* Without a lost answer a text is stored once: retryMessage, which posts under a new
\* clientMessageId, acts only on texts whose earlier request stored nothing.
THEOREM StoredOnce == ChatSpec => []StoredOnceUnlessAnswerLost
<1>1. ChatInv => StoredOnceUnlessAnswerLost
  BY DEF ChatInv
<1> QED BY <1>1, ChatInvariant, PTL

\* Once everything on the socket has been taken and the last page is shown, the list that
\* pages built shows every message of the peer's that is not deleted, save those a page
\* took out again and those that committed behind the pages and that no event and no
\* replay has brought to the socket since.
THEOREM NoGap == ChatSpec => []NoGapInHistory
<1>1. ChatInv => NoGapInHistory
  <2> SUFFICES ASSUME ChatInv, Quiet, list # None, ~hasMore, ~begun,
                      NEW id \in Inserted \ (deleted \cup dropped \cup untold), row[id] = 0
               PROVE  Holds(list, id)
    BY DEF NoGapInHistory
  <2>1. id \in Alive /\ id \in Ids /\ Listed = list
    BY DEF Alive, Inserted, Listed
  <2>2. Safe(id)
    BY <2>1 DEF ChatInv, ListMissesNothing
  <2>3. ~OnWire(id)
    BY DEF Quiet, OnWire
  <2>4. decrypting[id] = 0
    BY <2>1 DEF Quiet
  <2> QED BY <2>1, <2>2, <2>3, <2>4 DEF Safe
<1> QED BY <1>1, ChatInvariant, PTL
=============================================================================
