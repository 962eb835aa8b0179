---------------------------- MODULE WebSocketHook ----------------------------
(***************************************************************************)
(* useWebSocket of the web client (hooks/useWebSocket.ts): the effect that    *)
(* follows login and logout, connect() with its wait for a ticket, the       *)
(* socket's events and the reconnect timer.                                  *)
(*                                                                         *)
(* JavaScript runs one callback at a time: a step is the code between two     *)
(* awaits or events.  A call of connect() is identified with the socket it    *)
(* creates and with the timer it or its socket sets.  A call that has        *)
(* nothing left is used again for a later one.                               *)
(***************************************************************************)
EXTENDS Integers, FiniteSets, WebClient

CONSTANTS
    Calls,        \* bound: calls of connect() alive at once
    MaxLogins,    \* bound: logins
    MaxDrops      \* bound: failed tickets and lost sockets

ASSUME HookAssumption == None \notin Calls /\ MaxLogins \in Nat /\ MaxDrops \in Nat

VARIABLES
    enabled,      \* the effect runs: user is set
    token,        \* getToken() is not null
    should,       \* shouldReconnect.current
    ws,           \* ws.current
    reconnTimer,  \* reconnTimer.current
    timers,       \* timers that will fire
    waiting,      \* calls that await fetchWSTicket()
    sock,         \* per call: its socket
    restoring,    \* AuthProvider's mount effect awaits refresh()
    logins, drops,
    overlap       \* history: a call began, or the effect was cleaned up, while one waited

refs == <<ws, reconnTimer, timers, waiting, sock>>
vars == <<enabled, token, should, restoring, refs, logins, drops, overlap>>

\* A page without a stored user, or a new tab: the user is in localStorage, the
\* token (sessionStorage) is not, and the effect's connect() has returned at once.
Init ==
    /\ enabled \in BOOLEAN /\ token = FALSE /\ should = TRUE /\ restoring = enabled
    /\ ws = None /\ reconnTimer = None /\ timers = {} /\ waiting = {}
    /\ sock = [k \in Calls |-> "none"] /\ logins = 0 /\ drops = 0 /\ overlap = FALSE

Free(k) == k \notin waiting \cup timers /\ sock[k] \in {"none", "closed"} /\ k \notin {ws, reconnTimer}

\* ws.current.close(): the close event comes later.
CloseCurrent == [k \in Calls |-> IF k = ws /\ sock[k] \in {"opening", "open"} THEN "closing" ELSE sock[k]]

\* connect() up to its await; fired: the timer that called it.
Connect(k, fired) ==
    IF token'
    THEN /\ timers' = timers \ {fired, reconnTimer}
         /\ reconnTimer' = None
         /\ sock' = [CloseCurrent EXCEPT ![k] = "none"]
         /\ ws' = None
         /\ waiting' = waiting \cup {k}
         /\ overlap' = (overlap \/ waiting # {})
    ELSE /\ timers' = timers \ {fired}
         /\ UNCHANGED <<ws, reconnTimer, waiting, sock, overlap>>

\* The user logs in: the effect runs.
Login(k) ==
    /\ ~enabled /\ logins < MaxLogins
    /\ Free(k)
    /\ enabled' = TRUE /\ token' = TRUE /\ should' = TRUE
    /\ logins' = logins + 1
    /\ Connect(k, None)
    /\ UNCHANGED <<restoring, drops>>

\* The refresh of a new tab gives it an access token; user does not change.
Restored ==
    /\ restoring /\ enabled
    /\ token' = TRUE /\ restoring' = FALSE
    /\ UNCHANGED <<enabled, should, refs, logins, drops, overlap>>

\* logout(), or a request whose refresh failed, drops the access token first ...
TokenCleared ==
    /\ enabled /\ token
    /\ token' = FALSE
    /\ UNCHANGED <<enabled, should, restoring, refs, logins, drops, overlap>>

\* ... and setUser(null) then cleans the effect up; a failed refresh of a new tab
\* does so too.
MutantSocketStays ==
    /\ enabled /\ ~token
    /\ enabled' = FALSE /\ should' = FALSE /\ restoring' = FALSE
    /\ timers' = timers \ {reconnTimer} /\ reconnTimer' = None
    /\ ws' = None
    /\ overlap' = (overlap \/ waiting # {})
    /\ UNCHANGED <<token, waiting, sock, logins, drops>>
Cleanup ==
    /\ enabled /\ ~token
    /\ enabled' = FALSE /\ should' = FALSE /\ restoring' = FALSE
    /\ timers' = timers \ {reconnTimer} /\ reconnTimer' = None
    /\ sock' = CloseCurrent /\ ws' = None
    /\ overlap' = (overlap \/ waiting # {})
    /\ UNCHANGED <<token, waiting, logins, drops>>

\* The ticket arrives: the socket is created and becomes the current one.
TicketArrives(k) ==
    /\ k \in waiting
    /\ waiting' = waiting \ {k}
    /\ sock' = [sock EXCEPT ![k] = "opening"]
    /\ ws' = k
    /\ UNCHANGED <<enabled, token, should, restoring, reconnTimer, timers, logins, drops, overlap>>

\* setTimeout(connect, 3000), if reconnecting is wanted.
MutantNoTimer(k, wanted) == UNCHANGED <<timers, reconnTimer>>
SetTimer(k, wanted) ==
    /\ timers' = IF wanted THEN timers \cup {k} ELSE timers
    /\ reconnTimer' = IF wanted THEN k ELSE reconnTimer

\* fetchWSTicket() throws.
TicketFails(k) ==
    /\ k \in waiting
    /\ drops < MaxDrops /\ drops' = drops + 1
    /\ waiting' = waiting \ {k}
    /\ SetTimer(k, should)
    /\ UNCHANGED <<enabled, token, should, restoring, ws, sock, logins, overlap>>

SocketOpens(k) ==
    /\ sock[k] = "opening"
    /\ sock' = [sock EXCEPT ![k] = "open"]
    /\ UNCHANGED <<enabled, token, should, restoring, ws, reconnTimer, timers, waiting, logins, drops, overlap>>

\* The close event: only the current socket's is acted on.
Closed(k) ==
    /\ sock' = [sock EXCEPT ![k] = "closed"]
    /\ ws' = IF ws = k THEN None ELSE ws
    /\ SetTimer(k, ws = k /\ should /\ token)
    /\ UNCHANGED <<enabled, token, should, restoring, waiting, logins, overlap>>

\* The socket was closed by connect() or by the cleanup.
CloseEvent(k) == sock[k] = "closing" /\ Closed(k) /\ UNCHANGED drops

\* The server or the network ends it, or it cannot be opened (error, then close).
SocketDrops(k) ==
    /\ sock[k] \in {"opening", "open"}
    /\ drops < MaxDrops /\ drops' = drops + 1
    /\ Closed(k)

\* The timer that call k left behind calls connect() again, in its place.
TimerFires(k) ==
    /\ k \in timers
    /\ UNCHANGED <<enabled, token, should, restoring, logins, drops>>
    /\ Connect(k, k)

Progress(k) ==
    \/ TicketArrives(k) \/ SocketOpens(k) \/ CloseEvent(k) \/ TimerFires(k)

Next ==
    \/ TokenCleared \/ Restored \/ Cleanup
    \/ \E k \in Calls : Login(k) \/ Progress(k) \/ TicketFails(k) \/ SocketDrops(k)

Spec == Init /\ [][Next]_vars

\* The server answers, timers fire, and events are dispatched.
FairSpec == Spec /\ WF_vars(\E k \in Calls : Progress(k))

-----------------------------------------------------------------------------
(* Properties *)

\* The variables have their types, and ws.current is a socket of this page.
TypeOK ==
    /\ enabled \in BOOLEAN /\ token \in BOOLEAN /\ should \in BOOLEAN
    /\ restoring \in BOOLEAN /\ overlap \in BOOLEAN
    /\ ws \in Calls \cup {None} /\ reconnTimer \in Calls \cup {None}
    /\ timers \subseteq Calls /\ waiting \subseteq Calls
    /\ sock \in [Calls -> {"none", "opening", "open", "closing", "closed"}]
    /\ logins \in 0 .. MaxLogins /\ drops \in 0 .. MaxDrops
    /\ ws # None => sock[ws] \in {"opening", "open"}

Live == {k \in Calls : sock[k] \in {"opening", "open"}}

\* As long as no connect() was overtaken in its wait for a ticket, at most one
\* socket is alive, it is ws.current, and while nobody is logged in no socket is
\* alive and no reconnect is scheduled.
OneSocketUnlessOvertaken ==
    ~overlap => Live \subseteq {ws} /\ (~enabled => Live = {} /\ timers = {})

Connected == ws # None /\ sock[ws] = "open"

\* A tab that has called connect() gets a socket, and gets it again after any
\* failure, as long as it stays logged in.
Reconnects == waiting # {} \/ ws # None ~> Connected \/ ~enabled \/ ~token
=============================================================================
