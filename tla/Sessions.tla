------------------------------ MODULE Sessions ------------------------------
(***************************************************************************)
(* The session of one browser.  Its tabs share the refresh token            *)
(* (localStorage) and hold an access token each (sessionStorage).  Server:   *)
(* LoginHandler, RefreshHandler and LogoutHandler (auth_handlers.go) over    *)
(* the rt: keys of Redis (refresh_token.go).  Client: request and tryRefresh *)
(* (api/client.ts), login, refresh and logout (api/auth.ts), and the         *)
(* refresh a tab makes when it opens (context/AuthContext.tsx).              *)
(*                                                                         *)
(* One JavaScript task is one step: between two awaits nothing else of the   *)
(* tab runs.  The dynamic import in tryRefresh is of a module that is        *)
(* already loaded and stays in the task.  One Redis command is one step.     *)
(* refresh() runs under the Web Lock "onyxchat-refresh-token", which spans   *)
(* the tabs; the fallback for browsers without Web Locks is left out.        *)
(* A tab may close or reload at any await: its page, its calls and the lock   *)
(* they hold are gone, and no catch block runs.                              *)
(***************************************************************************)
EXTENDS Integers, FiniteSets

CONSTANTS
    Tabs,
    Calls,      \* API calls that meet a 401, and refreshes of opening tabs
    MaxToken,   \* bound: refresh tokens ever issued
    MaxLogins,  \* bound: logins
    MaxLeaves,  \* bound: times a tab closes or reloads
    None,       \* model value: absent
    Faults,     \* kinds of fault the environment injects
    MaxFaults   \* bound: kinds of fault in one behaviour

Tokens     == 1 .. MaxToken
FaultKinds == {"network", "server", "redis"}

ASSUME SessionsAssumption ==
    /\ MaxToken \in Nat /\ MaxLogins \in Nat /\ MaxLeaves \in Nat /\ MaxFaults \in Nat
    /\ Faults \subseteq FaultKinds
    /\ None \notin Tokens /\ None \notin Tabs /\ None \notin Calls

VARIABLES
    live,      \* refresh tokens with an rt: key in Redis
    issued,    \* number of refresh tokens issued so far
    family,    \* per token: the login it descends from
    logins,    \* number of logins so far
    opened,    \* open tabs
    access,    \* per tab: access token, "none", "fresh" or "stale" (expired)
    user,      \* per tab: AuthProvider's user is set (the chat is shown)
    store,     \* refresh_token in localStorage
    stored,    \* localStorage has the user
    promise,   \* per tab: call whose refresh is refreshPromise
    lock,      \* holder of the Web Lock
    call,      \* per call: where its client side is
    srv,       \* per call: where the RefreshHandler it posted to is
    answer,    \* per call: the refresh token that handler issued
    login,     \* the login under way: its tab and the token issued for it
    logout,    \* the logout under way
    leaves,    \* number of times a tab has left
    faults     \* kinds of fault that have happened

server == <<live, issued, family>>
page   == <<opened, user, stored>>
tokens == <<access, store>>
client == <<page, tokens, promise, lock>>
handler == <<srv, answer>>
trouble == <<leaves, faults>>
vars   == <<server, logins, client, call, handler, login, logout, trouble>>

CallPcs == {"idle", "sent", "wait", "lock", "posted", "ok", "null", "done", "failed", "left", "lost"}

NewCall == [pc |-> "idle", kind |-> "none", tab |-> None, rt |-> None, on |-> None]
NoLogin == [pc |-> "idle", tab |-> None, rt |-> None]
Done    == [NoLogin EXCEPT !.pc = "done"]

\* What is left of a call that is over: the token its handler may still work on.
Over(c, pc) == [NewCall EXCEPT !.pc = pc, !.rt = c.rt]

Init ==
    /\ live = {} /\ issued = 0 /\ logins = 0 /\ family = [k \in Tokens |-> 0] /\ opened = {}
    /\ access = [t \in Tabs |-> "none"] /\ user = [t \in Tabs |-> FALSE] /\ stored = FALSE
    /\ store = None /\ promise = [t \in Tabs |-> None] /\ lock = None
    /\ call = [p \in Calls |-> NewCall] /\ srv = [p \in Calls |-> "none"]
    /\ answer = [p \in Calls |-> None] /\ login = NoLogin /\ logout = NoLogin /\ leaves = 0 /\ faults = {}

Fails(k) ==
    /\ k \in Faults /\ (k \in faults \/ Cardinality(faults) < MaxFaults)
    /\ faults' = faults \cup {k}
    /\ UNCHANGED leaves
Works == UNCHANGED trouble

\* A generator that returns the same token again.
MutantIssue(f) ==
    /\ issued < MaxToken
    /\ UNCHANGED issued
    /\ live' = live \cup {issued + 1}
    /\ family' = [family EXCEPT ![issued + 1] = f]

\* storeRefreshToken under a new random token, descending from login f.
Issue(f) ==
    /\ issued < MaxToken
    /\ issued' = issued + 1
    /\ live' = live \cup {issued + 1}
    /\ family' = [family EXCEPT ![issued + 1] = f]

-----------------------------------------------------------------------------
(* Login and logout *)

\* LoginHandler and RegisterHandler: a refresh token is stored, then answered.
LoginPost(t) ==
    /\ t \in opened /\ ~user[t]
    /\ login.pc = "idle" /\ logins < MaxLogins
    /\ logins' = logins + 1
    /\ Issue(logins + 1)
    /\ login' = [pc |-> "posted", tab |-> t, rt |-> issued + 1]
    /\ UNCHANGED <<client, call, handler, logout, trouble>>

\* login(): setToken, setRefreshToken; publishKey is awaited ...
LoginDone ==
    /\ login.pc = "posted"
    /\ access' = [access EXCEPT ![login.tab] = "fresh"]
    /\ store' = login.rt
    /\ login' = [login EXCEPT !.pc = "publish"]
    /\ UNCHANGED <<server, logins, page, promise, lock, call, handler, logout, trouble>>

\* ... and the user is set, in the tab and in localStorage.
LoginShow ==
    /\ login.pc = "publish"
    /\ user' = [user EXCEPT ![login.tab] = TRUE]
    /\ stored' = TRUE
    /\ login' = NoLogin
    /\ UNCHANGED <<server, logins, opened, tokens, promise, lock, call, handler, logout, trouble>>

\* logout(): revoke the stored refresh token, if there is one ...
LogoutPost(t) ==
    /\ user[t]
    /\ logout.pc = "idle"
    /\ logout' = [pc |-> IF store = None THEN "clear" ELSE "posted", tab |-> t, rt |-> store]
    /\ UNCHANGED <<server, logins, client, call, handler, login, trouble>>

\* ... LogoutHandler deletes its key, or the request fails and is ignored; it may
\* also get there when the tab has gone ...
LogoutRevoke ==
    /\ logout.pc = "posted"
    /\ \/ Works /\ live' = live \ {logout.rt}
       \/ (Fails("network") \/ Fails("redis")) /\ UNCHANGED live
    /\ logout' = [logout EXCEPT !.pc = IF logout.tab = None THEN "done" ELSE "clear",
                                 !.rt = None]
    /\ UNCHANGED <<issued, family, logins, client, call, handler, login>>

\* ... the local state is cleared either way; clearKeyPair is awaited ...
LogoutClear ==
    /\ logout.pc = "clear"
    /\ access' = [access EXCEPT ![logout.tab] = "none"]
    /\ store' = None
    /\ stored' = FALSE
    /\ logout' = [logout EXCEPT !.pc = "shown"]
    /\ UNCHANGED <<server, logins, opened, user, promise, lock, call, handler, login, trouble>>

\* ... and the tab shows the login screen.
LogoutShow ==
    /\ logout.pc = "shown"
    /\ user' = [user EXCEPT ![logout.tab] = FALSE]
    /\ stored' = FALSE
    /\ logout' = Done
    /\ UNCHANGED <<server, logins, opened, tokens, promise, lock, call, handler, login, trouble>>

-----------------------------------------------------------------------------
(* Tabs, and where a refresh starts *)

\* AuthProvider: the user comes from localStorage.  The mount effect of a tab that
\* has no access token and finds a refresh token calls refresh() itself, beside
\* tryRefresh; "blank" if localStorage has no user then.
OpenTab(p, t) ==
    /\ t \notin opened
    /\ opened' = opened \cup {t}
    /\ user' = [user EXCEPT ![t] = stored]
    /\ IF access[t] # "none" \/ store = None THEN UNCHANGED call
       ELSE /\ call[p].pc = "idle"
            /\ call' = [call EXCEPT ![p] = [NewCall EXCEPT !.pc = "lock", !.tab = t,
                                             !.kind = IF stored THEN "mount" ELSE "blank"]]
    /\ UNCHANGED <<server, logins, stored, tokens, promise, lock, handler, login, logout, trouble>>

\* What a page takes with it: the answer to a call that was posted is lost, and the
\* handler that works on it is not told.
Ended(c) == IF c.pc = "posted" THEN Over(c, "lost")
            ELSE IF c.pc \in {"sent", "wait", "lock", "ok", "null"} THEN Over(c, "left")
            ELSE c

\* The browser releases the Web Lock of a page that has gone.
LockWithout(t) == IF lock # None /\ call[lock].tab = t THEN None ELSE lock

\* The tab is closed, or reloads: sessionStorage, with the access token, survives
\* only a reload, localStorage either.  A logout that was posted may still arrive.
LeaveTab(t) ==
    /\ t \in opened
    /\ leaves < MaxLeaves /\ leaves' = leaves + 1
    /\ opened' = opened \ {t}
    /\ user' = [user EXCEPT ![t] = FALSE]
    /\ access' \in {access, [access EXCEPT ![t] = "none"]}
    /\ promise' = [promise EXCEPT ![t] = None]
    /\ lock' = LockWithout(t)
    /\ call' = [q \in Calls |-> IF call[q].tab = t THEN Ended(call[q]) ELSE call[q]]
    /\ login' = IF login.tab = t THEN NoLogin ELSE login
    /\ logout' = CASE logout.tab # t -> logout
                   [] logout.pc = "posted" -> [logout EXCEPT !.tab = None]
                   [] OTHER -> Done
    /\ UNCHANGED <<server, logins, stored, store, handler, faults>>

\* 15 minutes later.
Expire(t) ==
    /\ access[t] = "fresh"
    /\ access' = [access EXCEPT ![t] = "stale"]
    /\ UNCHANGED <<server, logins, page, store, promise, lock, call, handler, login, logout, trouble>>

\* request(): sent without a valid access token, so a 401 will come back.
Request(p, t) ==
    /\ user[t]
    /\ access[t] # "fresh"
    /\ call[p].pc = "idle"
    /\ call' = [call EXCEPT ![p] = [NewCall EXCEPT !.pc = "sent", !.kind = "request", !.tab = t]]
    /\ UNCHANGED <<server, logins, client, handler, login, logout, trouble>>

\* tryRefresh: share the refresh in flight, or start one and publish its promise.
TryRefresh(p) ==
    IF promise[call[p].tab] # None
    THEN /\ call' = [call EXCEPT ![p].pc = "wait", ![p].on = promise[call[p].tab]]
         /\ UNCHANGED promise
    ELSE /\ promise' = [promise EXCEPT ![call[p].tab] = p]
         /\ call' = [call EXCEPT ![p].pc = "lock"]

Unauthorized(p) ==
    /\ call[p].pc = "sent"
    /\ TryRefresh(p)
    /\ UNCHANGED <<server, logins, page, tokens, lock, handler, login, logout, trouble>>

-----------------------------------------------------------------------------
(* doRefresh, under the lock *)

MutantNoLock(p) == TRUE
LockFree(p) == lock = None

\* The refresh token is read when the lock is granted.
DoRefresh(p) ==
    /\ call[p].pc = "lock"
    /\ LockFree(p)
    /\ lock' = p
    /\ IF store = None
       THEN call' = [call EXCEPT ![p].pc = "null"] /\ UNCHANGED srv
       ELSE call' = [call EXCEPT ![p].pc = "posted", ![p].rt = store]
            /\ srv' = [srv EXCEPT ![p] = "lookup"]
    /\ UNCHANGED <<server, logins, page, tokens, promise, answer, login, logout, trouble>>

\* A refusal, if somebody is there to hear it.
Refusal(p) == IF call[p].pc = "posted" THEN "denied" ELSE "none"

\* RefreshHandler: the token's key must exist, and the account.
Lookup(p) ==
    /\ srv[p] = "lookup"
    /\ \/ Works /\ srv' = [srv EXCEPT ![p] = IF call[p].rt \in live THEN "rotate" ELSE Refusal(p)]
       \/ Fails("server") /\ srv' = [srv EXCEPT ![p] = Refusal(p)]
    /\ UNCHANGED <<server, logins, client, call, answer, login, logout>>

\* "Rotate: delete old, issue new".  The deletion's error is ignored.
Rotate(p) ==
    /\ srv[p] = "rotate"
    /\ \/ Works /\ live' = live \ {call[p].rt}
       \/ Fails("redis") /\ UNCHANGED live
    /\ srv' = [srv EXCEPT ![p] = "issue"]
    /\ UNCHANGED <<issued, family, logins, client, call, answer, login, logout>>

FamilyOf(p) == family[call[p].rt]

IssueNew(p) ==
    /\ srv[p] = "issue"
    /\ \/ /\ Works /\ Issue(FamilyOf(p))
          /\ srv' = [srv EXCEPT ![p] = "answered"]
          /\ answer' = [answer EXCEPT ![p] = issued + 1]
       \/ Fails("server") /\ srv' = [srv EXCEPT ![p] = "denied"] /\ UNCHANGED <<server, answer>>
    /\ UNCHANGED <<logins, client, call, login, logout>>

\* The client is gone: r.Context() is cancelled and the handler gives up, with the
\* old token deleted or not.
HandlerGivesUp(p) ==
    /\ srv[p] \in {"lookup", "rotate", "issue"} /\ call[p].pc # "posted"
    /\ srv' = [srv EXCEPT ![p] = IF srv[p] = "issue" THEN "denied" ELSE "none"]
    /\ UNCHANGED <<server, logins, client, call, answer, login, logout, trouble>>

\* The answer: setToken, setRefreshToken.
RefreshOk(p) ==
    /\ call[p].pc = "posted" /\ srv[p] = "answered"
    /\ access' = [access EXCEPT ![call[p].tab] = "fresh"]
    /\ store' = answer[p]
    /\ call' = [call EXCEPT ![p].pc = "ok"]
    /\ UNCHANGED <<server, logins, page, promise, lock, handler, login, logout, trouble>>

\* "Only clear it if it's still the token we tried".
StoreAfterFailure(p) == IF store = call[p].rt THEN None ELSE store

\* A 401, a 500 or a network error: the same catch block.
RefreshFailed(p) ==
    /\ call[p].pc = "posted"
    /\ \/ Works /\ srv[p] = "denied"
       \/ Fails("network")
    /\ store' = StoreAfterFailure(p)
    /\ call' = [call EXCEPT ![p].pc = "null"]
    /\ UNCHANGED <<server, logins, page, access, promise, lock, handler, login, logout>>

\* The lock is released and the promise settles: refreshPromise is reset, and in
\* the same task everybody who awaits it retries, or clears the access token and
\* the stored user; a mount effect signs its tab out, also if it found no user.
Awaiting(p) == {q \in Calls : q = p \/ (call[q].pc = "wait" /\ call[q].on = p)}

MutantLockStaysOnFailure(p) == IF call[p].pc = "ok" THEN None ELSE lock
LockAfter(p) == None

SignsOut(p) == call[p].kind = "blank" \/ (call[p].kind = "mount" /\ call[p].pc = "null")

Settle(p) ==
    LET t    == call[p].tab
        gone == call[p].kind = "request" /\ call[p].pc = "null" IN
    /\ call[p].pc \in {"ok", "null"}
    /\ lock' = LockAfter(p)
    /\ promise' = IF call[p].kind = "request" THEN [promise EXCEPT ![t] = None] ELSE promise
    /\ access' = IF gone THEN [access EXCEPT ![t] = "none"] ELSE access
    /\ user' = IF SignsOut(p) THEN [user EXCEPT ![t] = FALSE] ELSE user
    /\ stored' = IF gone \/ (SignsOut(p) /\ user[t]) THEN FALSE ELSE stored
    /\ call' = [q \in Calls |->
                  IF q \in Awaiting(p)
                  THEN Over(call[q], IF call[p].pc = "ok" THEN "done" ELSE "failed")
                  ELSE call[q]]
    /\ UNCHANGED <<server, logins, opened, store, handler, login, logout, trouble>>

-----------------------------------------------------------------------------
CallStep(p) == \/ Unauthorized(p) \/ DoRefresh(p) \/ RefreshOk(p) \/ RefreshFailed(p) \/ Settle(p)
HandlerStep(p) == Lookup(p) \/ Rotate(p) \/ IssueNew(p)

Next ==
    \/ \E t \in Tabs : LoginPost(t) \/ LogoutPost(t) \/ Expire(t) \/ LeaveTab(t)
    \/ LoginDone \/ LoginShow \/ LogoutRevoke \/ LogoutClear \/ LogoutShow
    \/ \E p \in Calls, t \in Tabs : OpenTab(p, t) \/ Request(p, t)
    \/ \E p \in Calls : CallStep(p) \/ HandlerStep(p) \/ HandlerGivesUp(p)

\* Answers arrive or fail, handlers run, and the Web Lock is granted in order.
Fairness ==
    \A p \in Calls : WF_vars(HandlerStep(p)) /\ SF_vars(CallStep(p))

Spec     == Init /\ [][Next]_vars
FairSpec == Spec /\ Fairness

-----------------------------------------------------------------------------
(* Properties *)

\* Type correctness; Redis holds only tokens that were issued.
TypeOK ==
    /\ issued \in 0 .. MaxToken /\ live \subseteq 1 .. issued
    /\ family \in [Tokens -> 0 .. MaxLogins] /\ logins \in 0 .. MaxLogins
    /\ opened \subseteq Tabs /\ access \in [Tabs -> {"none", "fresh", "stale"}]
    /\ user \in [Tabs -> BOOLEAN] /\ stored \in BOOLEAN /\ store \in Tokens \cup {None}
    /\ promise \in [Tabs -> Calls \cup {None}] /\ lock \in Calls \cup {None}
    /\ call \in [Calls ->
          [pc : CallPcs, kind : {"none", "request", "mount", "blank"}, tab : Tabs \cup {None},
           rt : Tokens \cup {None}, on : Calls \cup {None}]]
    /\ srv \in [Calls -> {"none", "lookup", "rotate", "issue", "answered", "denied"}]
    /\ answer \in [Calls -> Tokens \cup {None}]
    /\ login \in [pc : {"idle", "posted", "publish"}, tab : Tabs \cup {None}, rt : Tokens \cup {None}]
    /\ logout \in [pc : {"idle", "posted", "clear", "shown", "done"}, tab : Tabs \cup {None},
                   rt : Tokens \cup {None}]
    /\ leaves \in 0 .. MaxLeaves /\ faults \subseteq FaultKinds

\* The tab of call p left while its refresh was posted, and the handler had deleted
\* the token, or did so later.
Unheard(p) == call[p].pc = "lost" /\ srv[p] \in {"issue", "answered", "denied"}

\* Without a failure or a logout, a refresh of any tab is refused for one reason
\* only: a tab left in the middle of its refresh and never heard of the new token.
\* Otherwise the session goes on through tabs that open, close and reload: a tab that
\* waited for the lock uses the token the other tab got ("the loser waits, then
\* re-reads the (now current) token", auth.ts).
SessionSurvives ==
    (faults = {} /\ logout.pc = "idle" /\ ~ \E p \in Calls : Unheard(p)) =>
        \A p \in Calls : call[p].pc \notin {"null", "failed"}

\* A token issued to a call whose tab had left or left before it was answered.
Stray(k) == \E p \in Calls : call[p].pc = "lost" /\ answer[p] = k

\* RefreshHandler's GET, DEL and SET are three commands, yet one login never has
\* two refresh tokens in Redis but for those issued to a tab that left, and those
\* no tab holds: whatever tabs, answers and logouts do, and two handlers that work
\* for one token included (unless Redis refuses the DEL, whose error is ignored).
OneLiveTokenPerLogin ==
    /\ "redis" \notin faults =>
          \A a, b \in live : family[a] = family[b] /\ ~Stray(a) /\ ~Stray(b) => a = b
    /\ store # None => ~Stray(store)

\* Every call that meets a 401 ends, at the latest with its tab: the lock and the
\* shared promise never leave a tab waiting for ever, whatever fails and whichever
\* tab leaves with the lock.
EveryCallEnds ==
    \A p \in Calls : (call[p].pc = "sent") ~> (call[p].pc \in {"done", "failed", "left", "lost"})
=============================================================================
