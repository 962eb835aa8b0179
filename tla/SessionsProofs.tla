--------------------------- MODULE SessionsProofs ---------------------------
(***************************************************************************)
(* Proofs about Sessions for any tabs, calls, logins and faults.             *)
(*                                                                         *)
(* The argument: the token in the store is the only one of its login that    *)
(* anybody knows of, and no handler of a call that is still there is about to *)
(* issue another (Sole), except while the call that posted it has the lock.   *)
(* A call whose answer is lost drops the token it posted from the store; a    *)
(* tab that leaves does not, and the next call may post the token again:      *)
(* what the handler it left behind issues then is not known to anybody        *)
(* (Answers), so that it does not count.  A login has a family of its own     *)
(* (LoginIsNew), so it may overwrite the store at any time.  While nothing    *)
(* failed, nobody logged out and no exchange was left behind, the stored      *)
(* token is moreover live, or being exchanged by the call with the lock       *)
(* (SessionInv).                                                             *)
(***************************************************************************)
EXTENDS Sessions, TLAPS

\* A handler that has not answered, and one that works for a call still there.
Active(p)  == srv[p] \in {"lookup", "rotate", "issue"}
Working(p) == Active(p) /\ call[p].pc # "lost"

\* Where a call is determines what it has: its tab, the lock, the token it posted
\* and the token it was answered.  Every token the browser or a handler knows of
\* was issued.
Progress ==
    /\ \A p \in Calls :
          /\ call[p].pc \in {"sent", "wait", "lock", "posted", "ok", "null"} => call[p].tab \in Tabs
          /\ call[p].pc \in {"posted", "ok", "null"} => lock = p
          /\ call[p].pc \in {"idle", "sent", "wait", "lock"} => srv[p] = "none"
          /\ call[p].pc = "posted" => srv[p] # "none"
          /\ srv[p] # "none" => call[p].rt \in 1 .. issued
          /\ srv[p] = "answered" => answer[p] \in 1 .. issued
          /\ srv[p] # "answered" => answer[p] = None
    /\ store # None => store \in 1 .. issued
    /\ login.pc = "posted" => login.rt \in 1 .. issued

\* An answer is a token of its own, of the login of the token it was posted for,
\* and nobody has it until the call takes it.
Answers ==
    \A p \in Calls : srv[p] = "answered" =>
        /\ family[answer[p]] = family[call[p].rt]
        /\ \A q \in Calls : srv[q] = "answered" /\ answer[q] = answer[p] => q = p
        /\ call[p].pc \in {"posted", "lost"} => store # answer[p]
        /\ login.pc = "posted" => login.rt # answer[p]

\* A login under way has a family that no other token in use has.
LoginIsNew ==
    /\ \A k \in 1 .. issued : family[k] <= logins
    /\ login.pc = "posted" =>
          /\ family[login.rt] = logins
          /\ store # None => family[store] # logins
          /\ \A p \in Calls :
                /\ srv[p] # "none" => family[call[p].rt] # logins
                /\ srv[p] = "answered" => family[answer[p]] # logins

\* The usable tokens that somebody may know of.
Known == {a \in live : ~Stray(a)}

\* Token k is the only one of its login: no other is known, and no handler of a
\* call that is still there is about to issue one.
Sole(k) ==
    /\ \A a \in Known : family[a] = family[k] => a = k
    /\ \A p \in Calls : Working(p) => family[call[p].rt] # family[k]

\* What a handler may find in Redis.
RotationInv ==
    /\ \A p, q \in Calls :
          Working(p) /\ Working(q) /\ family[call[p].rt] = family[call[q].rt] => p = q
    /\ \A p \in Calls : \A a \in Known :
          Working(p) /\ family[a] = family[call[p].rt] => srv[p] # "issue" /\ a = call[p].rt

\* The token each side goes on with is the only one of its login, except while
\* the call that posted it is being answered.
ClientInv ==
    /\ store # None => Sole(store) \/ \E p \in Calls : call[p].pc = "posted" /\ call[p].rt = store
    /\ login.pc = "posted" => Sole(login.rt)
    /\ \A p \in Calls : call[p].pc = "posted" =>
          /\ srv[p] = "answered" => Sole(answer[p])
          /\ srv[p] = "denied" => Sole(call[p].rt)

\* No login has two known tokens.
OneKnown == \A a, b \in Known : family[a] = family[b] => a = b

Rotations == "redis" \notin faults => RotationInv /\ ClientInv /\ OneKnown

\* While nothing has failed, nobody has logged out and no tab left an exchange
\* behind: ...
Untroubled == faults = {} /\ logout.pc = "idle" /\ ~ \E p \in Calls : Unheard(p)

\* ... whoever may refresh finds a token in the store, and it is live, or the call
\* that holds the lock is exchanging it.
SessionInv ==
    /\ \A t \in Tabs : user[t] => store # None
    /\ stored \/ login.pc = "publish" => store # None
    /\ store # None =>
          \/ store \in live
          \/ \E p \in Calls : /\ call[p].pc = "posted" /\ call[p].rt = store
                              /\ srv[p] \in {"issue", "answered"}
    /\ login.pc = "posted" => login.rt \in live
    /\ \A p \in Calls :
          /\ call[p].pc # "idle" => store # None
          /\ call[p].pc \notin {"null", "failed"}
          /\ srv[p] # "denied"
          /\ Active(p) => call[p].pc \in {"posted", "lost"}
          /\ call[p].pc = "posted" =>
                /\ srv[p] \in {"lookup", "rotate"} => call[p].rt \in live
                /\ srv[p] = "answered" => answer[p] \in live

Survival == Untroubled => SessionInv

Inv == TypeOK /\ Progress

\* The steps of Next by actor: logins and logouts, and the calls that begin.
LoginStep ==
    \/ \E t \in Tabs : LoginPost(t) \/ LogoutPost(t) \/ Expire(t) \/ LeaveTab(t)
    \/ LoginDone \/ LoginShow \/ LogoutRevoke \/ LogoutClear \/ LogoutShow
StartStep(p) == \E t \in Tabs : OpenTab(p, t) \/ Request(p, t)

-----------------------------------------------------------------------------
(* Types *)

\* The type of a call's record.
CallRec ==
    [pc : CallPcs, kind : {"none", "request", "mount", "blank"}, tab : Tabs \cup {None},
     rt : Tokens \cup {None}, on : Calls \cup {None}]

\* A call starts with a well-formed record.
LEMMA NewCallType ==
  /\ NewCall \in CallRec
  /\ \A t \in Tabs, k \in {"mount", "blank"} :
        [NewCall EXCEPT !.pc = "lock", !.tab = t, !.kind = k] \in CallRec
  /\ \A t \in Tabs : [NewCall EXCEPT !.pc = "sent", !.kind = "request", !.tab = t] \in CallRec
  BY DEF NewCall, CallRec, CallPcs

\* A call that is over keeps its token only.
LEMMA OverCall ==
  ASSUME NEW c \in CallRec, NEW pc \in CallPcs
  PROVE  Over(c, pc) \in CallRec /\ Over(c, pc).pc = pc /\ Over(c, pc).rt = c.rt
  BY DEF Over, NewCall, CallRec

\* A page that goes ends its calls.
LEMMA EndedCall ==
  ASSUME NEW c \in CallRec
  PROVE  /\ Ended(c) \in CallRec /\ Ended(c).rt = c.rt
         /\ c.pc = "posted" => Ended(c).pc = "lost"
         /\ c.pc \in {"sent", "wait", "lock", "ok", "null"} => Ended(c).pc = "left"
         /\ c.pc \in {"idle", "done", "failed", "left", "lost"} => Ended(c) = c
<1>1. CASE c.pc = "posted"
  <2>1. Ended(c) = Over(c, "lost")
    BY <1>1 DEF Ended
  <2>2. Over(c, "lost") \in CallRec /\ Over(c, "lost").pc = "lost" /\ Over(c, "lost").rt = c.rt
    BY OverCall DEF CallPcs
  <2>3. QED
    BY <1>1, <2>1, <2>2
<1>2. CASE c.pc \in {"sent", "wait", "lock", "ok", "null"}
  <2>1. Ended(c) = Over(c, "left")
    BY <1>2 DEF Ended
  <2>2. Over(c, "left") \in CallRec /\ Over(c, "left").pc = "left" /\ Over(c, "left").rt = c.rt
    BY OverCall DEF CallPcs
  <2>3. QED
    BY <1>2, <2>1, <2>2
<1>3. CASE c.pc \in {"idle", "done", "failed", "left", "lost"}
  BY <1>3 DEF Ended
<1>4. QED
  BY <1>1, <1>2, <1>3 DEF CallRec, CallPcs

\* A new token is one of the bounded number of tokens.
LEMMA IssueTypes ==
  ASSUME TypeOK, NEW f \in 0 .. MaxLogins, Issue(f)
  PROVE  /\ issued' \in 0 .. MaxToken /\ live' \subseteq 1 .. issued'
         /\ family' \in [Tokens -> 0 .. MaxLogins] /\ issued + 1 \in Tokens
  BY SessionsAssumption DEF TypeOK, Issue, Tokens

\* The type invariant holds initially.
LEMMA TypeInit == Init => TypeOK
<1> SUFFICES ASSUME Init PROVE TypeOK
  OBVIOUS
<1>1. call \in [Calls -> CallRec]
  BY NewCallType DEF Init
<1>2. /\ issued \in 0 .. MaxToken /\ live \subseteq 1 .. issued
      /\ family \in [Tokens -> 0 .. MaxLogins] /\ logins \in 0 .. MaxLogins
  BY SessionsAssumption DEF Init
<1>6. leaves \in 0 .. MaxLeaves /\ faults \subseteq FaultKinds
  BY SessionsAssumption DEF Init
<1>3. /\ login \in [pc : {"idle", "posted", "publish"}, tab : Tabs \cup {None},
                    rt : Tokens \cup {None}]
      /\ logout \in [pc : {"idle", "posted", "clear", "shown", "done"}, tab : Tabs \cup {None},
                     rt : Tokens \cup {None}]
  BY DEF Init, NoLogin
<1>4. user \in [Tabs -> BOOLEAN] /\ stored \in BOOLEAN
  BY DEF Init
<1>5. QED
  BY <1>1, <1>2, <1>3, <1>4, <1>6 DEF Init, TypeOK, CallRec

\* Logins and logouts keep the types.
LEMMA TypeLogin ==
  ASSUME TypeOK, LoginStep
  PROVE  TypeOK'
<1> USE SessionsAssumption
<1>1. ASSUME NEW t \in Tabs, LoginPost(t) PROVE TypeOK'
  <2>1. logins + 1 \in 0 .. MaxLogins /\ issued + 1 \in Tokens
    BY <1>1 DEF LoginPost, Issue, TypeOK, Tokens
  <2>2. QED
    BY <1>1, <2>1, IssueTypes DEF LoginPost, TypeOK, client, page, tokens, handler, trouble
<1>2. ASSUME NEW t \in Tabs, LogoutPost(t) PROVE TypeOK'
  BY <1>2 DEF LogoutPost, TypeOK, server, client, page, tokens, handler, trouble
<1>3. ASSUME NEW t \in Tabs, Expire(t) PROVE TypeOK'
  BY <1>3 DEF Expire, TypeOK, server, page, handler, trouble
<1>4. CASE LoginDone
  BY <1>4 DEF LoginDone, TypeOK, server, page, handler, trouble
<1>5. CASE LoginShow
  BY <1>5 DEF LoginShow, TypeOK, server, tokens, handler, NoLogin, trouble
<1>6. CASE LogoutRevoke
  BY <1>6 DEF LogoutRevoke, Works, Fails, TypeOK, client, page, tokens, handler, FaultKinds, trouble
<1>7. CASE LogoutClear
  BY <1>7 DEF LogoutClear, TypeOK, server, handler, trouble
<1>8. CASE LogoutShow
  BY <1>8 DEF LogoutShow, Done, NoLogin, TypeOK, server, tokens, handler, trouble
<1>9. ASSUME NEW t \in Tabs, LeaveTab(t) PROVE TypeOK'
  <2>1. call' \in [Calls -> CallRec]
    BY <1>9, EndedCall DEF LeaveTab, TypeOK, CallRec
  <2>2. /\ login' \in [pc : {"idle", "posted", "publish"}, tab : Tabs \cup {None},
                        rt : Tokens \cup {None}]
        /\ logout' \in [pc : {"idle", "posted", "clear", "shown", "done"}, tab : Tabs \cup {None},
                         rt : Tokens \cup {None}]
    BY <1>9 DEF LeaveTab, NoLogin, Done, TypeOK
  <2>3. leaves' \in 0 .. MaxLeaves /\ lock' \in Calls \cup {None}
    BY <1>9 DEF LeaveTab, LockWithout, TypeOK
  <2>4. /\ opened' \subseteq Tabs /\ access' \in [Tabs -> {"none", "fresh", "stale"}]
        /\ user' \in [Tabs -> BOOLEAN] /\ promise' \in [Tabs -> Calls \cup {None}]
    BY <1>9 DEF LeaveTab, TypeOK
  <2>5. QED
    BY <1>9, <2>1, <2>2, <2>3, <2>4 DEF LeaveTab, TypeOK, CallRec, server, handler, trouble
<1>10. QED
  BY <1>1, <1>2, <1>3, <1>4, <1>5, <1>6, <1>7, <1>8, <1>9 DEF LoginStep

\* The steps of a call keep the types.
LEMMA TypeCall ==
  ASSUME Inv, NEW p \in Calls, StartStep(p) \/ CallStep(p)
  PROVE  TypeOK'
<1> USE SessionsAssumption DEF Inv
<1>1. ASSUME NEW t \in Tabs, OpenTab(p, t) PROVE TypeOK'
  <2>1. call' \in [Calls -> CallRec]
    <3>1. CASE access[t] # "none" \/ store = None
      BY <1>1, <3>1 DEF OpenTab, TypeOK, CallRec
    <3>2. CASE ~(access[t] # "none" \/ store = None)
      <4>1. PICK k \in {"mount", "blank"} :
               call' = [call EXCEPT ![p] = [NewCall EXCEPT !.pc = "lock", !.tab = t, !.kind = k]]
        BY <1>1, <3>2 DEF OpenTab
      <4>2. PICK m : m = [NewCall EXCEPT !.pc = "lock", !.tab = t, !.kind = k]
        OBVIOUS
      <4>3. m \in CallRec
        BY <4>2, NewCallType
      <4>4. call \in [Calls -> CallRec]
        BY DEF TypeOK, CallRec
      <4>5. QED
        BY <4>1, <4>2, <4>3, <4>4
    <3>3. QED
      BY <3>1, <3>2
  <2>2. QED
    BY <1>1, <2>1 DEF OpenTab, TypeOK, CallRec, server, tokens, handler, trouble
<1>2. ASSUME NEW t \in Tabs, Request(p, t) PROVE TypeOK'
  <2>1. call' \in [Calls -> CallRec]
    BY <1>2, NewCallType DEF Request, TypeOK, CallRec
  <2>2. QED
    BY <1>2, <2>1 DEF Request, TypeOK, CallRec, server, client, page, tokens, handler, trouble
<1>3. CASE Unauthorized(p)
  <2>1. call[p].tab \in Tabs
    BY <1>3 DEF Unauthorized, Progress
  <2>2. QED
    BY <1>3, <2>1 DEF Unauthorized, TryRefresh, TypeOK, CallPcs, server, page, tokens, handler, trouble
<1>4. CASE DoRefresh(p)
  BY <1>4 DEF DoRefresh, TypeOK, CallPcs, server, page, tokens, trouble
<1>5. CASE RefreshOk(p)
  <2>1. call' \in [Calls -> CallRec]
    BY <1>5 DEF RefreshOk, TypeOK, CallRec, CallPcs
  <2>2. QED
    BY <1>5, <2>1 DEF RefreshOk, TypeOK, CallRec, server, page, handler, trouble
<1>6. CASE RefreshFailed(p)
  BY <1>6 DEF RefreshFailed, StoreAfterFailure, Works, Fails, TypeOK, CallPcs, server, page, handler, FaultKinds, trouble
<1>7. CASE Settle(p)
  <2>1. call' \in [Calls -> CallRec]
    <3>1. \A q \in Calls : call[q] \in CallRec
      BY DEF TypeOK, CallRec
    <3>2. \A q \in Calls : Over(call[q], IF call[p].pc = "ok" THEN "done" ELSE "failed") \in CallRec
      BY <3>1, OverCall DEF CallPcs
    <3>3. QED
      BY <1>7, <3>1, <3>2 DEF Settle
  <2>2. /\ promise' \in [Tabs -> Calls \cup {None}] /\ lock' \in Calls \cup {None}
        /\ access' \in [Tabs -> {"none", "fresh", "stale"}]
    BY <1>7 DEF Settle, LockAfter, TypeOK
  <2>3. user' \in [Tabs -> BOOLEAN] /\ stored' \in BOOLEAN
    BY <1>7 DEF Settle, TypeOK
  <2>4. QED
    BY <1>7, <2>1, <2>2, <2>3 DEF Settle, TypeOK, CallRec, server, handler, trouble
<1>8. QED
  BY <1>1, <1>2, <1>3, <1>4, <1>5, <1>6, <1>7 DEF CallStep, StartStep

\* The steps of a handler keep the types.
LEMMA TypeHandler ==
  ASSUME Inv, NEW p \in Calls, HandlerStep(p) \/ HandlerGivesUp(p)
  PROVE  TypeOK'
<1> USE SessionsAssumption DEF Inv
<1>1. CASE Lookup(p)
  <2>1. faults' \subseteq FaultKinds /\ leaves' = leaves
    BY <1>1 DEF Lookup, Works, Fails, TypeOK, FaultKinds, trouble
  <2>2. srv' \in [Calls -> {"none", "lookup", "rotate", "issue", "answered", "denied"}]
    BY <1>1 DEF Lookup, Refusal, TypeOK
  <2>3. QED
    BY <1>1, <2>1, <2>2 DEF Lookup, TypeOK, server, client, page, tokens, trouble
<1>2. CASE Rotate(p)
  <2>1. live' \subseteq 1 .. issued /\ faults' \subseteq FaultKinds /\ leaves' = leaves
    BY <1>2 DEF Rotate, Works, Fails, TypeOK, FaultKinds, trouble
  <2>2. QED
    BY <1>2, <2>1 DEF Rotate, TypeOK, client, page, tokens, trouble
<1>3. CASE IssueNew(p)
  <2>1. FamilyOf(p) \in 0 .. MaxLogins
    BY <1>3 DEF IssueNew, FamilyOf, Progress, TypeOK, Tokens
  <2>2. CASE Issue(FamilyOf(p)) /\ Works /\ answer' = [answer EXCEPT ![p] = issued + 1]
    BY <1>3, <2>1, <2>2, IssueTypes DEF IssueNew, Works, TypeOK, client, page, tokens, trouble
  <2>3. CASE Fails("server") /\ UNCHANGED <<server, answer>>
    BY <1>3, <2>3 DEF IssueNew, Fails, TypeOK, server, client, page, tokens, FaultKinds, trouble
  <2>4. QED
    BY <1>3, <2>2, <2>3 DEF IssueNew
<1>4. CASE HandlerGivesUp(p)
  BY <1>4 DEF HandlerGivesUp, TypeOK, server, client, page, tokens, trouble
<1>5. QED
  BY <1>1, <1>2, <1>3, <1>4 DEF HandlerStep

-----------------------------------------------------------------------------
(* Progress *)

\* The steps of logins and logouts keep Progress.
LEMMA ProgressLogin ==
  ASSUME Inv, LoginStep
  PROVE  Progress'
<1> USE SessionsAssumption DEF Inv
<1>7. ASSUME NEW t \in Tabs, LeaveTab(t) PROVE Progress'
  <2>1. \A q \in Calls : call[q].tab = t =>
           /\ call'[q].pc \notin {"sent", "wait", "lock", "posted", "ok", "null"}
           /\ call'[q].pc = "idle" => call[q].pc = "idle"
           /\ call'[q].rt = call[q].rt
    BY <1>7, EndedCall DEF LeaveTab, TypeOK, CallRec, CallPcs
  <2>2. \A q \in Calls : call[q].tab # t => call'[q] = call[q]
    BY <1>7 DEF LeaveTab
  <2>3. \A q \in Calls : lock = q /\ call[q].tab # t => lock' = q
    BY <1>7 DEF LeaveTab, LockWithout
  <2>4. /\ UNCHANGED <<srv, answer, issued, store>>
        /\ login'.pc = "posted" => login' = login
    BY <1>7 DEF LeaveTab, NoLogin, server, handler, trouble
  <2>5. QED
    BY <2>1, <2>2, <2>3, <2>4 DEF Progress
<1>1. ASSUME NEW t \in Tabs, LoginPost(t) PROVE Progress'
  <2>1. issued \in Nat /\ issued' = issued + 1
    BY <1>1 DEF LoginPost, Issue, TypeOK
  <2>2. QED
    BY <1>1, <2>1 DEF LoginPost, Progress, client, page, tokens, handler, trouble
<1>2. ASSUME NEW t \in Tabs, LogoutPost(t) \/ Expire(t) PROVE Progress'
  BY <1>2 DEF LogoutPost, Expire, Progress, server, client, page, tokens, handler, trouble
<1>3. CASE LoginDone
  BY <1>3 DEF LoginDone, Progress, TypeOK, server, handler, trouble
<1>4. CASE LoginShow
  BY <1>4 DEF LoginShow, Progress, NoLogin, server, tokens, handler, trouble
<1>5. CASE LogoutRevoke
  BY <1>5 DEF LogoutRevoke, Progress, client, tokens, handler, trouble
<1>6. CASE LogoutClear \/ LogoutShow
  BY <1>6 DEF LogoutClear, LogoutShow, Progress, server, tokens, handler, trouble
<1>8. QED
  BY <1>1, <1>2, <1>3, <1>4, <1>5, <1>6, <1>7 DEF LoginStep

\* What a tab that opens and a request that is sent change.
LEMMA CallStarts ==
  ASSUME TypeOK, NEW p \in Calls, NEW t \in Tabs, OpenTab(p, t) \/ Request(p, t)
  PROVE  /\ UNCHANGED <<live, issued, family, logins, lock, store, stored, srv, answer, login,
                        logout, leaves, faults>>
         /\ \A q \in Calls \ {p} : call'[q] = call[q]
         /\ \/ call'[p] = call[p]
            \/ call[p].pc = "idle" /\ call'[p].pc = "lock" /\ call'[p].tab = t /\ store # None
            \/ call[p].pc = "idle" /\ call'[p].pc = "sent" /\ call'[p].tab = t /\ user[t]
<1> PICK n : n = [NewCall EXCEPT !.pc = "sent", !.kind = "request", !.tab = t]
  OBVIOUS
<1>1. n.pc = "sent" /\ n.tab = t
  BY DEF NewCall
<1>2. CASE OpenTab(p, t)
  <2>1. CASE access[t] # "none" \/ store = None
    BY <1>2, <2>1 DEF OpenTab, server, tokens, handler, trouble
  <2>2. CASE ~(access[t] # "none" \/ store = None)
    <3>1. PICK m : m = [NewCall EXCEPT !.pc = "lock", !.tab = t,
                                       !.kind = IF stored THEN "mount" ELSE "blank"]
      OBVIOUS
    <3>2. m.pc = "lock" /\ m.tab = t
      BY <3>1 DEF NewCall
    <3>3. call[p].pc = "idle" /\ call' = [call EXCEPT ![p] = m]
      BY <1>2, <2>2, <3>1 DEF OpenTab
    <3>4. QED
      BY <1>2, <2>2, <3>2, <3>3 DEF OpenTab, server, tokens, handler, trouble, TypeOK
  <2>3. QED
    BY <2>1, <2>2
<1>3. CASE Request(p, t)
  <2>1. call' = [call EXCEPT ![p] = n]
    BY <1>3 DEF Request
  <2>2. QED
    BY <1>1, <1>3, <2>1 DEF Request, server, client, page, tokens, handler, trouble, TypeOK
<1>4. QED
  BY <1>2, <1>3

\* What the end of call p changes: everybody who awaits it ends with it.
LEMMA Settles ==
  ASSUME TypeOK, NEW p \in Calls, Settle(p)
  PROVE  /\ UNCHANGED <<live, issued, family, logins, store, srv, answer, login, logout, leaves,
                        faults>>
         /\ call[p].pc \in {"ok", "null"}
         /\ \A q \in Calls : call'[q].rt = call[q].rt
         /\ \A q \in Calls : \/ q # p /\ call'[q] = call[q]
                             \/ /\ q = p \/ call[q].pc = "wait"
                                /\ call'[q].pc = IF call[p].pc = "ok" THEN "done" ELSE "failed"
<1>1. /\ UNCHANGED <<live, issued, family, logins, store, srv, answer, login, logout, leaves, faults>>
      /\ call[p].pc \in {"ok", "null"}
  BY DEF Settle, server, handler, trouble
<1>2. \A q \in Calls : call'[q] = IF q \in Awaiting(p)
                                 THEN Over(call[q], IF call[p].pc = "ok" THEN "done" ELSE "failed")
                                 ELSE call[q]
  BY DEF Settle
<1>3. \A q \in Calls : call[q] \in CallRec
  BY DEF TypeOK, CallRec
<1>4. PICK o : o = IF call[p].pc = "ok" THEN "done" ELSE "failed"
  OBVIOUS
<1>5. \A q \in Calls : Over(call[q], o).pc = o /\ Over(call[q], o).rt = call[q].rt
  BY <1>3, <1>4, OverCall DEF CallPcs
<1>6. \A q \in Calls : q \in Awaiting(p) <=> q = p \/ (call[q].pc = "wait" /\ call[q].on = p)
  BY DEF Awaiting
<1>7. QED
  BY <1>1, <1>2, <1>4, <1>5, <1>6

\* The steps of calls keep Progress.
LEMMA ProgressCall ==
  ASSUME Inv, NEW p \in Calls, StartStep(p) \/ CallStep(p)
  PROVE  Progress'
<1> USE SessionsAssumption DEF Inv
<1>1. ASSUME NEW t \in Tabs, OpenTab(p, t) \/ Request(p, t) PROVE Progress'
  BY <1>1, CallStarts DEF Progress
<1>2. CASE Unauthorized(p)
  BY <1>2 DEF Unauthorized, TryRefresh, Progress, TypeOK, server, tokens, handler, trouble
<1>3. CASE DoRefresh(p)
  BY <1>3 DEF DoRefresh, LockFree, Progress, TypeOK, server, tokens, trouble
<1>4. CASE RefreshOk(p)
  BY <1>4 DEF RefreshOk, Progress, TypeOK, server, handler, trouble
<1>5. CASE RefreshFailed(p)
  BY <1>5 DEF RefreshFailed, StoreAfterFailure, Progress, TypeOK, server, handler, trouble
<1>6. CASE Settle(p)
  <2>1. \A q \in Calls : call[q].pc \in {"posted", "ok", "null"} /\ q # p => FALSE
    BY <1>6, Settles DEF Progress
  <2>2. QED
    BY <1>6, <2>1, Settles DEF Progress
<1>7. QED
  BY <1>1, <1>2, <1>3, <1>4, <1>5, <1>6 DEF CallStep, StartStep

\* The steps of handlers keep Progress.
LEMMA ProgressHandler ==
  ASSUME Inv, NEW p \in Calls, HandlerStep(p) \/ HandlerGivesUp(p)
  PROVE  Progress'
<1> USE SessionsAssumption DEF Inv
<1>1. CASE Lookup(p)
  BY <1>1 DEF Lookup, Refusal, Progress, TypeOK, server, client, tokens, trouble
<1>2. CASE Rotate(p)
  BY <1>2 DEF Rotate, Progress, TypeOK, client, tokens, trouble
<1>3. CASE IssueNew(p)
  <2>1. issued \in Nat /\ issued' \in {issued, issued + 1}
    BY <1>3 DEF IssueNew, Issue, TypeOK, server, trouble
  <2>2. QED
    BY <1>3, <2>1 DEF IssueNew, Issue, Progress, TypeOK, server, client, tokens, trouble
<1>4. CASE HandlerGivesUp(p)
  BY <1>4 DEF HandlerGivesUp, Progress, TypeOK, server, client, tokens, trouble
<1>5. QED
  BY <1>1, <1>2, <1>3, <1>4 DEF HandlerStep

-----------------------------------------------------------------------------
(* The calls *)

\* Every step keeps the types and Progress.
LEMMA InvStep == Inv /\ [Next]_vars => Inv'
<1> SUFFICES ASSUME Inv, [Next]_vars PROVE Inv'
  OBVIOUS
<1>1. CASE LoginStep
  BY <1>1, TypeLogin, ProgressLogin DEF Inv
<1>2. ASSUME NEW p \in Calls, StartStep(p) \/ CallStep(p) PROVE Inv'
  BY <1>2, TypeCall, ProgressCall DEF Inv
<1>3. ASSUME NEW p \in Calls, HandlerStep(p) \/ HandlerGivesUp(p) PROVE Inv'
  BY <1>3, TypeHandler, ProgressHandler DEF Inv
<1>4. CASE UNCHANGED vars
  BY <1>4 DEF Inv, TypeOK, Progress, vars, server, client, page, tokens, handler, trouble
<1>5. QED
  BY <1>1, <1>2, <1>3, <1>4 DEF Next, LoginStep, StartStep

-----------------------------------------------------------------------------
(* Families of tokens *)

\* No token, browser or handler is given to another login.
SameFamilies ==
    /\ UNCHANGED <<issued, family, logins>> /\ store' \in {store, None}
    /\ login'.pc = "posted" => login.pc = "posted" /\ login'.rt = login.rt
    /\ \A q \in Calls :
          /\ srv'[q] # "none" => srv[q] # "none" /\ call'[q].rt = call[q].rt
          /\ srv'[q] = "answered" => srv[q] = "answered" /\ answer'[q] = answer[q]

\* They leave LoginIsNew as it is.
LEMMA SameFamiliesKeep == LoginIsNew /\ SameFamilies => LoginIsNew'
  BY DEF LoginIsNew, SameFamilies

\* Steps that neither issue a token nor hand one on.
Calm ==
    /\ SameFamilies /\ live' \subseteq live /\ faults \subseteq faults' /\ UNCHANGED answer
    /\ \A q \in Calls :
          /\ call'[q].pc = "posted" <=> call[q].pc = "posted"
          /\ call'[q].pc = "lost" <=> call[q].pc = "lost"
          /\ srv'[q] \in {srv[q], "none", "denied"} \/ (srv[q] = "lookup" /\ srv'[q] = "rotate")
          /\ srv'[q] = "none" => srv[q] \in {"none", "lookup", "rotate"}
          /\ call[q].pc = "posted" /\ srv'[q] = "denied" => srv[q] \in {"lookup", "issue", "denied"}

\* Calm steps leave what is said of the tokens.
LEMMA CalmKeeps ==
  ASSUME Inv', Rotations, Calm
  PROVE  Rotations'
<1> SUFFICES ASSUME "redis" \notin faults PROVE (RotationInv /\ ClientInv /\ OneKnown)'
  BY DEF Rotations, Calm
<1>1. RotationInv /\ ClientInv /\ OneKnown
  BY DEF Rotations
<1>2. \A q \in Calls : Working(q)' => Working(q) /\ call'[q].rt = call[q].rt
  BY DEF Calm, SameFamilies, Active, Working
<1>3. Known' \subseteq Known /\ UNCHANGED family
  BY DEF Known, Stray, Calm, SameFamilies
<1>4. \A k : Sole(k) => Sole(k)'
  BY <1>2, <1>3 DEF Sole
<1>5. RotationInv'
  <2>1. \A p, q \in Calls :
           (Working(p) /\ Working(q) /\ family[call[p].rt] = family[call[q].rt])' => p = q
    BY <1>1, <1>2, <1>3 DEF RotationInv
  <2>2. ASSUME NEW p \in Calls, NEW a \in Known', Working(p)', family'[a] = family'[call'[p].rt]
        PROVE  srv'[p] # "issue" /\ a = call'[p].rt
    BY <1>1, <1>2, <1>3, <2>2 DEF RotationInv, Calm, Working, Active
  <2>3. QED
    BY <2>1, <2>2 DEF RotationInv
<1>6. ClientInv'
  <2>1. \A q \in Calls : call'[q].pc = "posted" => call[q].pc = "posted" /\ call'[q].rt = call[q].rt
    BY DEF Inv, Progress, Calm, SameFamilies
  <2>2. store' # None =>
          Sole(store)' \/ \E q \in Calls : call'[q].pc = "posted" /\ call'[q].rt = store'
    <3>1. ASSUME store' # None PROVE store' = store
      BY <3>1 DEF Calm, SameFamilies
    <3>2. ASSUME NEW q \in Calls, call[q].pc = "posted"
          PROVE  call'[q].pc = "posted" /\ call'[q].rt = call[q].rt
      BY <2>1, <3>2 DEF Calm
    <3>3. QED
      BY <1>1, <1>4, <3>1, <3>2 DEF ClientInv
  <2>3. login'.pc = "posted" => Sole(login.rt)'
    BY <1>1, <1>4 DEF ClientInv, Calm, SameFamilies
  <2>4. ASSUME NEW q \in Calls, call'[q].pc = "posted", srv'[q] = "answered"
        PROVE  Sole(answer[q])'
    BY <1>1, <1>4, <2>1, <2>4 DEF ClientInv, Calm, SameFamilies
  <2>5. ASSUME NEW q \in Calls, call'[q].pc = "posted", srv'[q] = "denied"
        PROVE  Sole(call[q].rt)'
    <3>1. call[q].pc = "posted" /\ call'[q].rt = call[q].rt /\ srv[q] \in {"lookup", "issue", "denied"}
      BY <2>1, <2>5 DEF Calm
    <3>2. CASE srv[q] = "denied"
      BY <1>1, <1>4, <3>1, <3>2 DEF ClientInv
    <3>3. CASE srv[q] \in {"lookup", "issue"}
      <4>1. Working(q) /\ ~Working(q)'
        BY <2>5, <3>1, <3>3 DEF Working, Active
      <4>2. \A a \in Known : family[a] = family[call[q].rt] => a = call[q].rt
        BY <1>1, <4>1 DEF RotationInv
      <4>3. \A r \in Calls : Working(r) /\ family[call[r].rt] = family[call[q].rt] => r = q
        BY <1>1, <4>1 DEF RotationInv
      <4>4. QED
        BY <1>2, <1>3, <3>1, <4>1, <4>2, <4>3 DEF Sole
    <3>4. QED
      BY <3>1, <3>2, <3>3
  <2>6. QED
    BY <2>2, <2>3, <2>4, <2>5 DEF ClientInv
<1>7. OneKnown'
  BY <1>1, <1>3 DEF OneKnown
<1>8. QED
  BY <1>5, <1>6, <1>7

\* Logouts, and calls that wait, settle or ask for the token, are calm.
LEMMA CalmSteps ==
  ASSUME Inv,
         \/ \E t \in Tabs : LogoutPost(t) \/ Expire(t)
         \/ LoginShow \/ LogoutRevoke \/ LogoutClear \/ LogoutShow \/ UNCHANGED vars
         \/ \E p \in Calls : StartStep(p) \/ Unauthorized(p) \/ Settle(p) \/ Lookup(p) \/ HandlerGivesUp(p)
         \/ \E p \in Calls : IssueNew(p) /\ UNCHANGED server
  PROVE  Calm
<1> USE DEF Calm, SameFamilies
<1>1. CASE \/ \E t \in Tabs : LogoutPost(t) \/ Expire(t)
           \/ LogoutClear \/ LogoutShow \/ UNCHANGED vars
  BY <1>1 DEF LogoutPost, Expire, LogoutClear, LogoutShow, vars, server, client, page, tokens, handler, trouble
<1>2. CASE LoginShow
  BY <1>2 DEF LoginShow, NoLogin, server, tokens, handler, trouble
<1>3. CASE LogoutRevoke
  BY <1>3 DEF LogoutRevoke, Works, Fails, client, page, tokens, handler, trouble
<1>4. ASSUME NEW p \in Calls, StartStep(p) PROVE Calm
  <2>1. PICK t \in Tabs : OpenTab(p, t) \/ Request(p, t)
    BY <1>4 DEF StartStep
  <2>2. CASE call'[p] = call[p]
    BY <2>1, <2>2, CallStarts DEF Inv
  <2>3. CASE call'[p] # call[p]
    <3>1. srv[p] = "none" /\ call'[p].pc \in {"lock", "sent"} /\ call[p].pc = "idle"
      BY <2>1, <2>3, CallStarts DEF Inv, Progress
    <3>2. QED
      BY <2>1, <3>1, CallStarts DEF Inv
  <2>4. QED
    BY <2>2, <2>3
<1>5. ASSUME NEW p \in Calls, Unauthorized(p) PROVE Calm
  <2>1. \A q \in Calls : /\ call'[q].rt = call[q].rt
                         /\ call'[q].pc = "posted" <=> call[q].pc = "posted"
                         /\ call'[q].pc = "lost" <=> call[q].pc = "lost"
    BY <1>5 DEF Unauthorized, TryRefresh, Inv, TypeOK
  <2>2. QED
    BY <1>5, <2>1 DEF Unauthorized, server, tokens, handler, trouble
<1>6. ASSUME NEW p \in Calls, Settle(p) PROVE Calm
  <2>1. \A q \in Calls : /\ call'[q].rt = call[q].rt
                         /\ call'[q].pc = "posted" <=> call[q].pc = "posted"
                         /\ call'[q].pc = "lost" <=> call[q].pc = "lost"
    BY <1>6, Settles DEF Inv
  <2>2. QED
    BY <1>6, <2>1, Settles DEF Inv
<1>7. ASSUME NEW p \in Calls, Lookup(p) PROVE Calm
  <2>1. /\ srv[p] = "lookup" /\ srv'[p] \in {"rotate", Refusal(p)}
        /\ \A q \in Calls \ {p} : srv'[q] = srv[q]
    BY <1>7 DEF Lookup, Inv, TypeOK
  <2>2. UNCHANGED <<live, issued, family, logins, store, login, call, answer>> /\ faults \subseteq faults'
    BY <1>7 DEF Lookup, Works, Fails, server, client, tokens, trouble
  <2>3. QED
    BY <2>1, <2>2 DEF Refusal
<1>8. ASSUME NEW p \in Calls, HandlerGivesUp(p) PROVE Calm
  BY <1>8 DEF HandlerGivesUp, server, client, tokens, Inv, TypeOK, trouble
<1>9. ASSUME NEW p \in Calls, IssueNew(p), UNCHANGED server PROVE Calm
  <2>1. Fails("server") /\ srv' = [srv EXCEPT ![p] = "denied"] /\ UNCHANGED answer
    <3>1. ~Issue(FamilyOf(p))
      BY <1>9 DEF Issue, server, Inv, TypeOK, trouble
    <3>2. QED
      BY <1>9, <3>1 DEF IssueNew
  <2>2. QED
    BY <1>9, <2>1 DEF IssueNew, Fails, server, client, tokens, Inv, TypeOK, trouble
<1>10. QED
  BY <1>1, <1>2, <1>3, <1>4, <1>5, <1>6, <1>7, <1>8, <1>9

\* A new token has a number that no other token has.
LEMMA NewToken ==
  ASSUME Inv, NEW f \in 0 .. MaxLogins, Issue(f)
  PROVE  /\ issued \in Nat /\ issued' = issued + 1 /\ issued' \in Tokens
         /\ live' = live \cup {issued'} /\ issued' \notin live
         /\ family'[issued'] = f
         /\ \A k \in 1 .. issued : k # issued' /\ family'[k] = family[k] /\ k \in Tokens
         /\ \A k \in live : k \in 1 .. issued
  BY SessionsAssumption DEF Issue, Inv, TypeOK, Tokens

\* What a handler that issues the next token changes.
LEMMA Issues ==
  ASSUME Inv, NEW p \in Calls, IssueNew(p), ~UNCHANGED server
  PROVE  /\ srv[p] = "issue" /\ call[p].rt \in 1 .. issued
         /\ srv'[p] = "answered" /\ answer'[p] = issued'
         /\ \A q \in Calls \ {p} : srv'[q] = srv[q] /\ answer'[q] = answer[q]
         /\ UNCHANGED <<logins, store, call, login, faults, logout, user, stored>>
         /\ issued \in Nat /\ issued' = issued + 1 /\ issued' \notin live
         /\ live' = live \cup {issued'} /\ family'[issued'] = family[call[p].rt]
         /\ \A k \in 1 .. issued : k # issued' /\ family'[k] = family[k] /\ k \in Tokens
         /\ \A k \in live : k \in 1 .. issued
<1>1. /\ srv[p] = "issue" /\ Issue(FamilyOf(p)) /\ Works
      /\ srv' = [srv EXCEPT ![p] = "answered"] /\ answer' = [answer EXCEPT ![p] = issued + 1]
      /\ UNCHANGED <<logins, client, call, login, logout>>
  BY DEF IssueNew
<1>2. call[p].rt \in 1 .. issued
  BY <1>1 DEF Inv, Progress
<1>3. FamilyOf(p) \in 0 .. MaxLogins /\ FamilyOf(p) = family[call[p].rt]
  BY <1>2, SessionsAssumption DEF FamilyOf, Inv, TypeOK, Tokens
<1>4. /\ issued \in Nat /\ issued' = issued + 1 /\ issued' \in Tokens
      /\ live' = live \cup {issued'} /\ issued' \notin live
      /\ family'[issued'] = FamilyOf(p)
      /\ \A k \in 1 .. issued : k # issued' /\ family'[k] = family[k] /\ k \in Tokens
      /\ \A k \in live : k \in 1 .. issued
  BY <1>1, <1>3, NewToken
<1>5. QED
  BY <1>1, <1>2, <1>3, <1>4 DEF Works, client, page, tokens, Inv, TypeOK, trouble

\* A login gets a token of a new family.
LEMMA LoginPostKeeps ==
  ASSUME Inv, Inv', LoginIsNew, Rotations, NEW t \in Tabs, LoginPost(t)
  PROVE  LoginIsNew' /\ Rotations'
<1>1. logins + 1 \in 0 .. MaxLogins /\ logins \in Nat /\ logins' = logins + 1
  BY SessionsAssumption DEF LoginPost, Inv, TypeOK
<1>2. /\ issued \in Nat /\ issued' = issued + 1 /\ issued' \in Tokens
      /\ live' = live \cup {issued'} /\ issued' \notin live /\ family'[issued'] = logins + 1
      /\ \A x \in 1 .. issued : x # issued' /\ family'[x] = family[x] /\ x \in Tokens
      /\ \A x \in live : x \in 1 .. issued
  BY <1>1, NewToken DEF LoginPost
<1>3. /\ UNCHANGED <<store, call, srv, answer, faults>>
      /\ login'.pc = "posted" /\ login'.rt = issued'
  BY <1>2 DEF LoginPost, client, tokens, handler, trouble
<1>4. \A x \in 1 .. issued : family[x] <= logins /\ family[x] \in Nat
  BY <1>2 DEF LoginIsNew, Inv, TypeOK
<1>5. \A x \in 1 .. issued : family'[x] # family'[issued'] /\ family'[x] # logins'
  BY <1>1, <1>2, <1>4
<1>6. LoginIsNew'
  <2>1. \A x \in 1 .. issued' : x = issued' \/ x \in 1 .. issued
    BY <1>2
  <2>2. \A x \in 1 .. issued' : family'[x] <= logins'
    BY <1>1, <1>2, <1>4, <2>1
  <2>3. store # None => store \in 1 .. issued
    BY DEF Inv, Progress
  <2>4. \A p \in Calls : /\ srv[p] # "none" => call[p].rt \in 1 .. issued
                         /\ srv[p] = "answered" => answer[p] \in 1 .. issued
    BY DEF Inv, Progress
  <2>5. QED
    BY <1>1, <1>2, <1>3, <1>5, <2>2, <2>3, <2>4 DEF LoginIsNew
<1>7. ASSUME "redis" \notin faults PROVE (RotationInv /\ ClientInv /\ OneKnown)'
  <2>1. RotationInv /\ ClientInv /\ OneKnown
    BY <1>7 DEF Rotations
  <2>2. \A p \in Calls : Working(p) => call[p].rt \in 1 .. issued
    BY DEF Inv, Progress, Active, Working
  <2>3. \A p \in Calls : Working(p)' <=> Working(p)
    BY <1>3 DEF Active, Working
  <2>4. Known' \subseteq Known \cup {issued'} /\ \A a \in Known : a \in 1 .. issued
    BY <1>2, <1>3 DEF Known, Stray
  <2>5. \A x \in 1 .. issued : Sole(x) => Sole(x)'
    BY <1>2, <1>3, <1>5, <2>2, <2>3, <2>4 DEF Sole
  <2>6. Sole(issued)'
    BY <1>2, <1>3, <1>5, <2>2, <2>3, <2>4 DEF Sole
  <2>7. RotationInv'
    <3>1. \A p, q \in Calls :
             (Working(p) /\ Working(q) /\ family[call[p].rt] = family[call[q].rt])' => p = q
      BY <1>2, <1>3, <2>1, <2>2, <2>3 DEF RotationInv
    <3>2. ASSUME NEW p \in Calls, NEW a \in Known', Working(p)', family'[a] = family'[call'[p].rt]
          PROVE  srv'[p] # "issue" /\ a = call'[p].rt
      <4>1. a # issued' /\ a \in Known
        BY <1>3, <1>5, <2>2, <2>3, <2>4, <3>2
      <4>2. family[a] = family[call[p].rt]
        BY <1>2, <1>3, <2>2, <2>3, <2>4, <3>2, <4>1
      <4>3. QED
        BY <1>3, <2>1, <2>3, <3>2, <4>1, <4>2 DEF RotationInv
    <3>3. QED
      BY <3>1, <3>2 DEF RotationInv
  <2>8. ClientInv'
    <3>1. store # None =>
            Sole(store)' \/ \E p \in Calls : call[p].pc = "posted" /\ call[p].rt = store
      BY <1>3, <2>1, <2>5 DEF ClientInv, Inv, Progress
    <3>2. ASSUME NEW p \in Calls, call[p].pc = "posted"
          PROVE  /\ srv[p] = "answered" => Sole(answer[p])'
                 /\ srv[p] = "denied" => Sole(call[p].rt)'
      BY <1>3, <2>1, <2>5, <3>2 DEF ClientInv, Inv, Progress
    <3>3. QED
      BY <1>3, <2>6, <3>1, <3>2 DEF ClientInv
  <2>9. OneKnown'
    BY <1>2, <1>5, <2>1, <2>4 DEF OneKnown
  <2>10. QED
    BY <2>7, <2>8, <2>9
<1>8. QED
  BY <1>3, <1>6, <1>7 DEF Rotations

\* The tab that logged in stores the only token of its login.
LEMMA LoginDoneKeeps ==
  ASSUME Inv, LoginIsNew, Rotations, LoginDone
  PROVE  LoginIsNew' /\ Rotations'
<1>1. /\ login.pc = "posted" /\ store' = login.rt /\ login'.pc = "publish"
      /\ UNCHANGED <<live, issued, family, logins, call, srv, answer, faults>>
  BY DEF LoginDone, server, handler, Inv, TypeOK, trouble
<1>2. LoginIsNew'
  BY <1>1 DEF LoginIsNew
<1>k. Known' = Known /\ \A q \in Calls : Working(q)' <=> Working(q)
  BY <1>1 DEF Known, Stray, Working, Active
<1>3. \A k : Sole(k)' <=> Sole(k)
  BY <1>1, <1>k DEF Sole
<1>4. RotationInv => RotationInv'
  BY <1>1, <1>k DEF RotationInv
<1>5. ClientInv => ClientInv'
  <2>1. ClientInv => Sole(store)'
    BY <1>1, <1>3 DEF ClientInv
  <2>2. QED
    BY <1>1, <1>3, <2>1 DEF ClientInv
<1>6. OneKnown => OneKnown'
  BY <1>1, <1>k DEF OneKnown
<1>7. QED
  BY <1>1, <1>2, <1>4, <1>5, <1>6 DEF Rotations

\* The call that gets the lock posts the stored token: nobody else is exchanging
\* a token of that login.
LEMMA DoRefreshKeeps ==
  ASSUME Inv, LoginIsNew, Rotations, NEW p \in Calls, DoRefresh(p)
  PROVE  LoginIsNew' /\ Rotations'
<1>1. /\ \A q \in Calls : call[q].pc # "posted"
      /\ UNCHANGED <<live, issued, family, logins, store, answer, login, faults>>
  BY SessionsAssumption DEF DoRefresh, LockFree, server, tokens, Inv, Progress, trouble
<1>2. CASE store = None
  <2>1. \A q \in Calls : /\ call'[q].rt = call[q].rt /\ call'[q].pc # "posted" /\ srv'[q] = srv[q]
                         /\ call'[q].pc = "lost" <=> call[q].pc = "lost"
    BY <1>1, <1>2 DEF DoRefresh, Inv, TypeOK
  <2>k. Known' = Known /\ \A q \in Calls : Working(q)' <=> Working(q)
    BY <1>1, <2>1 DEF Known, Stray, Working, Active
  <2>2. LoginIsNew'
    BY <1>1, <2>1 DEF LoginIsNew
  <2>3. \A k : Sole(k) => Sole(k)'
    BY <1>1, <2>1, <2>k DEF Sole
  <2>4. RotationInv => RotationInv'
    BY <1>1, <2>1, <2>k DEF RotationInv, Working
  <2>5. ClientInv => ClientInv'
    BY <1>1, <1>2, <2>1, <2>3 DEF ClientInv
  <2>6. OneKnown => OneKnown'
    BY <1>1, <2>k DEF OneKnown
  <2>7. QED
    BY <1>1, <2>2, <2>4, <2>5, <2>6 DEF Rotations
<1>3. CASE store # None
  <2>1. /\ call'[p].pc = "posted" /\ call'[p].rt = store /\ srv'[p] = "lookup"
        /\ \A q \in Calls \ {p} : call'[q] = call[q] /\ srv'[q] = srv[q]
    BY <1>3 DEF DoRefresh, Inv, TypeOK
  <2>2. LoginIsNew'
    BY <1>1, <1>3, <2>1 DEF LoginIsNew
  <2>3. ASSUME "redis" \notin faults PROVE (RotationInv /\ ClientInv /\ OneKnown)'
    <3>1. RotationInv /\ ClientInv /\ OneKnown /\ Sole(store)
      BY <1>1, <1>3, <2>3 DEF Rotations, ClientInv
    <3>2. \A q \in Calls \ {p} : Working(q)' <=> Working(q)
      BY <2>1 DEF Working, Active
    <3>k. Known' = Known
      <4>1. call[p].pc = "lock"
        BY DEF DoRefresh
      <4>2. QED
        BY <1>1, <2>1, <4>1 DEF Known, Stray
    <3>3. RotationInv'
      <4>1. \A q, r \in Calls :
               (Working(q) /\ Working(r) /\ family[call[q].rt] = family[call[r].rt])' => q = r
        BY <1>1, <2>1, <3>1, <3>2 DEF RotationInv, Sole
      <4>2. ASSUME NEW q \in Calls, NEW a \in Known, Working(q)', family[a] = family[call'[q].rt]
            PROVE  srv'[q] # "issue" /\ a = call'[q].rt
        BY <2>1, <3>1, <3>2, <4>2 DEF RotationInv, Sole
      <4>3. QED
        BY <1>1, <3>k, <4>1, <4>2 DEF RotationInv
    <3>4. ClientInv'
      <4>1. ASSUME login.pc = "posted" PROVE Sole(login.rt)'
        <5>1. family[login.rt] # family[store]
          BY <1>3, <4>1 DEF LoginIsNew
        <5>2. Sole(login.rt)
          BY <3>1, <4>1 DEF ClientInv
        <5>3. QED
          BY <1>1, <2>1, <3>2, <3>k, <5>1, <5>2 DEF Sole
      <4>2. \A q \in Calls : ~(call'[q].pc = "posted" /\ srv'[q] \in {"answered", "denied"})
        BY <1>1, <2>1
      <4>3. QED
        BY <1>1, <2>1, <4>1, <4>2 DEF ClientInv
    <3>5. QED
      BY <1>1, <3>1, <3>k, <3>3, <3>4 DEF OneKnown
  <2>4. QED
    BY <1>1, <2>2, <2>3 DEF Rotations
<1>4. QED
  BY <1>2, <1>3

\* A call that is answered stores the only token of its login.
LEMMA RefreshOkKeeps ==
  ASSUME Inv, LoginIsNew, Rotations, NEW p \in Calls, RefreshOk(p)
  PROVE  LoginIsNew' /\ Rotations'
<1>1. /\ call[p].pc = "posted" /\ srv[p] = "answered" /\ store' = answer[p]
      /\ UNCHANGED <<live, issued, family, logins, srv, answer, login, faults>>
      /\ \A q \in Calls : /\ call'[q].rt = call[q].rt /\ (call'[q].pc = "posted" => call[q].pc = "posted")
                          /\ call'[q].pc = "lost" <=> call[q].pc = "lost"
  BY DEF RefreshOk, server, handler, Inv, TypeOK, trouble
<1>2. LoginIsNew'
  BY <1>1 DEF LoginIsNew
<1>k. Known' = Known /\ \A q \in Calls : Working(q)' <=> Working(q)
  BY <1>1 DEF Known, Stray, Working, Active
<1>3. \A k : Sole(k) => Sole(k)'
  BY <1>1, <1>k DEF Sole
<1>4. RotationInv => RotationInv'
  BY <1>1, <1>k DEF RotationInv, Working
<1>5. ClientInv => ClientInv'
  <2>1. ClientInv => Sole(store)'
    BY <1>1, <1>3 DEF ClientInv
  <2>2. QED
    BY <1>1, <1>3, <2>1 DEF ClientInv
<1>6. OneKnown => OneKnown'
  BY <1>1, <1>k DEF OneKnown
<1>7. QED
  BY <1>1, <1>2, <1>4, <1>5, <1>6 DEF Rotations

\* A call that fails drops the token it posted, unless another has replaced it.
LEMMA RefreshFailedKeeps ==
  ASSUME Inv, LoginIsNew, Rotations, NEW p \in Calls, RefreshFailed(p)
  PROVE  LoginIsNew' /\ Rotations'
<1>1. /\ call[p].pc = "posted" /\ store' = StoreAfterFailure(p) /\ faults \subseteq faults'
      /\ UNCHANGED <<live, issued, family, logins, srv, answer, login>>
      /\ \A q \in Calls : /\ call'[q].rt = call[q].rt /\ (call'[q].pc = "posted" => call[q].pc = "posted")
                          /\ call'[q].pc = "lost" <=> call[q].pc = "lost"
  BY DEF RefreshFailed, Works, Fails, server, handler, Inv, TypeOK, trouble
<1>2. LoginIsNew'
  BY <1>1, SameFamiliesKeep DEF SameFamilies, StoreAfterFailure
<1>k. Known' = Known /\ \A q \in Calls : Working(q)' <=> Working(q)
  BY <1>1 DEF Known, Stray, Working, Active
<1>3. \A k : Sole(k) => Sole(k)'
  BY <1>1, <1>k DEF Sole
<1>4. RotationInv => RotationInv'
  BY <1>1, <1>k DEF RotationInv, Working
<1>5. ClientInv => ClientInv'
  <2> SUFFICES ASSUME ClientInv PROVE ClientInv'
    OBVIOUS
  <2>1. \A q \in Calls : call[q].pc = "posted" => q = p
    BY <1>1 DEF Inv, Progress
  <2>2. ASSUME store' # None PROVE Sole(store)'
    <3>1. store' = store /\ store # call[p].rt
      BY <1>1, <2>2 DEF StoreAfterFailure
    <3>2. Sole(store)
      BY <2>1, <2>2, <3>1 DEF ClientInv
    <3>3. QED
      BY <1>3, <3>1, <3>2
  <2>3. QED
    BY <1>1, <1>3, <2>2 DEF ClientInv
<1>6. OneKnown => OneKnown'
  BY <1>1, <1>k DEF OneKnown
<1>7. QED
  BY <1>1, <1>2, <1>4, <1>5, <1>6 DEF Rotations

\* "Rotate: delete old" leaves no live token of the login.
LEMMA RotateKeeps ==
  ASSUME Inv, LoginIsNew, Rotations, NEW p \in Calls, Rotate(p)
  PROVE  LoginIsNew' /\ Rotations'
<1>1. /\ srv[p] = "rotate" /\ srv'[p] = "issue" /\ \A q \in Calls \ {p} : srv'[q] = srv[q]
      /\ UNCHANGED <<issued, family, logins, store, call, answer, login>>
      /\ faults \subseteq faults' /\ live' \subseteq live
      /\ live' = live \ {call[p].rt} \/ "redis" \in faults'
  BY DEF Rotate, Works, Fails, client, tokens, Inv, TypeOK, trouble
<1>2. LoginIsNew'
  BY <1>1, SameFamiliesKeep DEF SameFamilies
<1>3. ASSUME "redis" \notin faults' PROVE (RotationInv /\ ClientInv /\ OneKnown)'
  <2>1. RotationInv /\ ClientInv /\ OneKnown
    BY <1>1, <1>3 DEF Rotations
  <2>2. \A q \in Calls : Working(q)' <=> Working(q)
    BY <1>1 DEF Working, Active
  <2>k. Known' = Known \ {call[p].rt}
    BY <1>1, <1>3 DEF Known, Stray
  <2>3. \A k : Sole(k) => Sole(k)'
    BY <1>1, <2>2, <2>k DEF Sole
  <2>4. RotationInv'
    <3>1. \A q, r \in Calls :
             (Working(q) /\ Working(r) /\ family[call[q].rt] = family[call[r].rt])' => q = r
      BY <1>1, <2>1, <2>2 DEF RotationInv
    <3>2. ASSUME NEW q \in Calls, NEW a \in Known', Working(q)', family[a] = family[call[q].rt]
          PROVE  srv'[q] # "issue" /\ a = call[q].rt
      <4>1. a \in Known /\ a # call[p].rt /\ Working(q)
        BY <2>2, <2>k, <3>2
      <4>2. srv[q] # "issue" /\ a = call[q].rt
        BY <2>1, <3>2, <4>1 DEF RotationInv
      <4>3. QED
        BY <1>1, <4>1, <4>2
    <3>3. QED
      BY <1>1, <3>1, <3>2 DEF RotationInv
  <2>5. ClientInv'
    <3>1. store # None =>
            Sole(store)' \/ \E q \in Calls : call[q].pc = "posted" /\ call[q].rt = store
      BY <1>1, <2>1, <2>3 DEF ClientInv
    <3>2. login.pc = "posted" => Sole(login.rt)'
      BY <1>1, <2>1, <2>3 DEF ClientInv
    <3>3. ASSUME NEW q \in Calls, call[q].pc = "posted"
          PROVE  /\ srv'[q] = "answered" => Sole(answer[q])'
                 /\ srv'[q] = "denied" => Sole(call[q].rt)'
      BY <1>1, <2>1, <2>3, <3>3 DEF ClientInv
    <3>4. QED
      BY <1>1, <3>1, <3>2, <3>3 DEF ClientInv
  <2>6. OneKnown'
    BY <1>1, <2>1, <2>k DEF OneKnown
  <2>7. QED
    BY <2>4, <2>5, <2>6
<1>4. QED
  BY <1>2, <1>3 DEF Rotations

\* "... issue new": the new token is the only one of its login.
LEMMA IssueNewKeeps ==
  ASSUME Inv, LoginIsNew, Rotations, NEW p \in Calls, IssueNew(p), ~UNCHANGED server
  PROVE  LoginIsNew' /\ Rotations'
<1>1. /\ srv[p] = "issue" /\ call[p].rt \in 1 .. issued
      /\ srv'[p] = "answered" /\ answer'[p] = issued'
      /\ \A q \in Calls \ {p} : srv'[q] = srv[q] /\ answer'[q] = answer[q]
      /\ UNCHANGED <<logins, store, call, login, faults>>
  BY Issues
<1>2. /\ issued \in Nat /\ issued' = issued + 1 /\ issued' \notin live
      /\ live' = live \cup {issued'} /\ family'[issued'] = family[call[p].rt]
      /\ \A k \in 1 .. issued : k # issued' /\ family'[k] = family[k] /\ k \in Tokens
      /\ \A k \in live : k \in 1 .. issued
  BY Issues
<1>3. \A q \in Calls : /\ srv[q] # "none" => call[q].rt \in 1 .. issued
                       /\ srv[q] = "answered" => answer[q] \in 1 .. issued
  BY DEF Inv, Progress
<1>4. LoginIsNew'
  <2>1. \A k \in 1 .. issued' : k = issued' \/ k \in 1 .. issued
    BY <1>2
  <2>2. \A k \in 1 .. issued' : family'[k] <= logins'
    BY <1>1, <1>2, <2>1 DEF LoginIsNew
  <2>3. ASSUME login.pc = "posted"
        PROVE  /\ family'[login.rt] = logins
               /\ store # None => family'[store] # logins
    BY <1>2, <2>3 DEF LoginIsNew, Inv, Progress
  <2>4. ASSUME login.pc = "posted", NEW q \in Calls
        PROVE  /\ srv'[q] # "none" => family'[call[q].rt] # logins
               /\ srv'[q] = "answered" => family'[answer'[q]] # logins
    BY <1>1, <1>2, <1>3, <2>4 DEF LoginIsNew
  <2>5. QED
    BY <1>1, <2>2, <2>3, <2>4 DEF LoginIsNew
<1>5. ASSUME "redis" \notin faults PROVE (RotationInv /\ ClientInv /\ OneKnown)'
  <2>1. RotationInv /\ ClientInv /\ OneKnown
    BY <1>5 DEF Rotations
  <2>2. /\ ~Working(p)' /\ \A q \in Calls \ {p} : Working(q)' <=> Working(q)
        /\ \A q \in Calls : Working(q) => family'[call[q].rt] = family[call[q].rt]
    BY <1>1, <1>2, <1>3 DEF Working, Active
  <2>3. \A a \in Known : a \in 1 .. issued /\ family'[a] = family[a]
    BY <1>2 DEF Known
  <2>4. Known' \subseteq Known \cup {issued'} /\ (call[p].pc = "lost" => Known' \subseteq Known)
    <3>1. answer[p] = None /\ answer[p] \notin live
      BY <1>1, <1>2, SessionsAssumption DEF Inv, Progress
    <3>2. \A a \in live : Stray(a) => Stray(a)'
      BY <1>1, <3>1 DEF Stray
    <3>3. call[p].pc = "lost" => Stray(issued)'
      BY <1>1 DEF Stray
    <3>4. QED
      BY <1>2, <3>2, <3>3 DEF Known
  <2>5. \A q \in Calls : Working(q)' => family'[call[q].rt] # family'[issued'] \/ call[p].pc = "lost"
    <3>1. call[p].pc # "lost" => Working(p)
      BY <1>1 DEF Working, Active
    <3>2. QED
      BY <1>2, <2>1, <2>2, <3>1 DEF RotationInv
  <2>6. call[p].pc # "lost" => \A a \in Known : family[a] # family[call[p].rt]
    BY <1>1, <2>1 DEF RotationInv, Working, Active
  <2>7. \A k \in 1 .. issued : Sole(k) => Sole(k)'
    <3> SUFFICES ASSUME NEW k \in 1 .. issued, Sole(k) PROVE Sole(k)'
      OBVIOUS
    <3>1. family'[k] = family[k]
      BY <1>2
    <3>2. \A q \in Calls : Working(q)' => family'[call[q].rt] # family'[k]
      BY <2>2, <3>1 DEF Sole
    <3>3. call[p].pc # "lost" => family'[issued'] # family'[k]
      BY <1>1, <1>2, <3>1 DEF Sole, Working, Active
    <3>4. \A a \in Known' : family'[a] = family'[k] => a = k
      BY <2>3, <2>4, <3>1, <3>3 DEF Sole
    <3>5. QED
      BY <1>1, <3>2, <3>4 DEF Sole
  <2>8. call[p].pc # "lost" => Sole(issued)'
    <3> SUFFICES ASSUME call[p].pc # "lost" PROVE Sole(issued)'
      OBVIOUS
    <3>1. \A a \in Known' : family'[a] = family'[issued'] => a = issued'
      BY <1>2, <2>3, <2>4, <2>6
    <3>2. \A q \in Calls : Working(q)' => family'[call'[q].rt] # family'[issued']
      BY <1>1, <2>5
    <3>3. QED
      BY <3>1, <3>2 DEF Sole
  <2>9. RotationInv'
    <3>1. \A q, r \in Calls :
             (Working(q) /\ Working(r) /\ family[call[q].rt] = family[call[r].rt])' => q = r
      BY <1>1, <2>1, <2>2 DEF RotationInv
    <3>2. ASSUME NEW q \in Calls, NEW a \in Known', Working(q)', family'[a] = family'[call[q].rt]
          PROVE  srv'[q] # "issue" /\ a = call[q].rt
      <4>1. q # p /\ Working(q) /\ srv'[q] = srv[q]
        BY <1>1, <2>2, <3>2
      <4>2. a \in Known
        BY <2>4, <2>5, <3>2
      <4>3. family[a] = family[call[q].rt]
        BY <2>2, <2>3, <3>2, <4>1, <4>2
      <4>4. QED
        BY <2>1, <4>1, <4>2, <4>3 DEF RotationInv
    <3>3. QED
      BY <1>1, <3>1, <3>2 DEF RotationInv
  <2>10. ClientInv'
    <3>1. store # None =>
            Sole(store)' \/ \E q \in Calls : call[q].pc = "posted" /\ call[q].rt = store
      BY <1>1, <2>1, <2>7 DEF ClientInv, Inv, Progress
    <3>2. login.pc = "posted" => Sole(login.rt)'
      BY <1>1, <2>1, <2>7 DEF ClientInv, Inv, Progress
    <3>3. ASSUME NEW q \in Calls, call[q].pc = "posted"
          PROVE  /\ srv'[q] = "answered" => Sole(answer[q])'
                 /\ srv'[q] = "denied" => Sole(call[q].rt)'
      <4>1. CASE q = p
        BY <1>1, <2>8, <3>3, <4>1
      <4>2. CASE q # p
        <5>1. srv'[q] = srv[q] /\ answer'[q] = answer[q]
          BY <1>1, <4>2
        <5>2. /\ srv[q] = "answered" => answer[q] \in 1 .. issued
              /\ srv[q] = "denied" => call[q].rt \in 1 .. issued
          BY DEF Inv, Progress
        <5>3. srv[q] = "answered" => Sole(answer[q])'
          BY <2>1, <2>7, <3>3, <5>1, <5>2 DEF ClientInv
        <5>4. srv[q] = "denied" => Sole(call[q].rt)'
          BY <1>1, <2>1, <2>7, <3>3, <5>2 DEF ClientInv
        <5>5. QED
          BY <5>1, <5>3, <5>4
      <4>3. QED
        BY <4>1, <4>2
    <3>4. QED
      BY <1>1, <3>1, <3>2, <3>3 DEF ClientInv
  <2>11. OneKnown'
    BY <2>1, <2>3, <2>4, <2>6, <1>2 DEF OneKnown
  <2>12. QED
    BY <2>9, <2>10, <2>11
<1>6. QED
  BY <1>1, <1>4, <1>5 DEF Rotations

\* What a tab that leaves changes.
LEMMA Leaves ==
  ASSUME Inv, NEW t \in Tabs, LeaveTab(t)
  PROVE  /\ UNCHANGED <<live, issued, family, logins, store, stored, srv, answer, faults>>
         /\ login' \in {login, NoLogin} /\ (login'.pc = "posted" => login' = login)
         /\ \A u \in Tabs : user'[u] => user[u]
         /\ logout.pc # "idle" => logout'.pc # "idle"
         /\ \A q \in Calls :
               /\ call'[q].rt = call[q].rt
               /\ call'[q] = call[q] \/ call'[q].pc \in {"left", "lost"}
               /\ call[q].pc \in {"idle", "lost"} => call'[q] = call[q]
               /\ call'[q].pc = "posted" => call'[q] = call[q]
               /\ call'[q].pc = "lost" => call[q].pc \in {"posted", "lost"}
               /\ call'[q] # call[q] /\ call[q].pc = "posted" => call'[q].pc = "lost"
<1>1. /\ UNCHANGED <<live, issued, family, logins, store, stored, srv, answer, faults>>
      /\ login' \in {login, NoLogin} /\ (login'.pc = "posted" => login' = login)
  BY DEF LeaveTab, server, handler, NoLogin
<1>2. \A u \in Tabs : user'[u] => user[u]
  BY DEF LeaveTab, Inv, TypeOK
<1>3. logout.pc # "idle" => logout'.pc # "idle"
  <2>1. CASE logout.tab # t
    BY <2>1 DEF LeaveTab
  <2>2. CASE logout.tab = t /\ logout.pc = "posted"
    BY <2>2 DEF LeaveTab, Inv, TypeOK
  <2>3. CASE logout.tab = t /\ logout.pc # "posted"
    BY <2>3 DEF LeaveTab, Done, NoLogin
  <2>4. QED
    BY <2>1, <2>2, <2>3
<1>4. \A q \in Calls : call[q] \in CallRec /\ call[q].pc \in CallPcs
  BY DEF Inv, TypeOK, CallRec
<1>5. \A q \in Calls : call'[q] = call[q] \/ call'[q] = Ended(call[q])
  BY DEF LeaveTab
<1>6. QED
  BY <1>1, <1>2, <1>3, <1>4, <1>5, EndedCall DEF CallPcs

\* A page that goes leaves the only token of its login that anybody knows of.
LEMMA LeaveTabKeeps ==
  ASSUME Inv, Answers, LoginIsNew, Rotations, NEW t \in Tabs, LeaveTab(t)
  PROVE  LoginIsNew' /\ Rotations'
<1>1. /\ UNCHANGED <<live, issued, family, logins, store, srv, answer, faults>>
      /\ login'.pc = "posted" => login' = login
  BY Leaves
<1>2. \A q \in Calls :
         /\ call'[q].rt = call[q].rt
         /\ call'[q].pc = "posted" => call'[q] = call[q]
         /\ call'[q] # call[q] /\ call[q].pc = "posted" => call'[q].pc = "lost"
         /\ call[q].pc = "lost" => call'[q].pc = "lost"
  BY Leaves
<1>3. LoginIsNew'
  BY <1>1, <1>2 DEF LoginIsNew
<1>4. ASSUME "redis" \notin faults PROVE (RotationInv /\ ClientInv /\ OneKnown)'
  <2>1. RotationInv /\ ClientInv /\ OneKnown
    BY <1>4 DEF Rotations
  <2>2. \A q \in Calls : Working(q)' => Working(q)
    BY <1>1, <1>2 DEF Working, Active
  <2>3. Known' \subseteq Known
    BY <1>1, <1>2 DEF Known, Stray
  <2>4. \A k : Sole(k) => Sole(k)'
    BY <1>1, <1>2, <2>2, <2>3 DEF Sole
  <2>5. RotationInv'
    BY <1>1, <1>2, <2>1, <2>2, <2>3 DEF RotationInv
  <2>6. ASSUME NEW q \in Calls, call[q].pc = "posted", call'[q] # call[q]
        PROVE  Sole(call[q].rt)'
    <3>1. call'[q].pc = "lost" /\ ~Working(q)'
      BY <1>2, <2>6 DEF Working
    <3>2. CASE Active(q)
      <4>1. Working(q)
        BY <2>6, <3>2 DEF Working
      <4>2. \A a \in Known : family[a] = family[call[q].rt] => a = call[q].rt
        BY <2>1, <4>1 DEF RotationInv
      <4>3. \A r \in Calls : Working(r) /\ family[call[r].rt] = family[call[q].rt] => r = q
        BY <2>1, <4>1 DEF RotationInv
      <4>4. QED
        BY <1>1, <1>2, <2>2, <2>3, <3>1, <4>2, <4>3 DEF Sole
    <3>3. CASE srv[q] = "denied"
      <4>1. Sole(call[q].rt)
        BY <2>1, <2>6, <3>3 DEF ClientInv
      <4>2. QED
        BY <1>2, <2>4, <4>1
    <3>4. CASE srv[q] = "answered"
      <4>1. Sole(answer[q]) /\ family[answer[q]] = family[call[q].rt]
        BY <2>1, <2>6, <3>4 DEF ClientInv, Answers
      <4>2. answer[q] \notin Known'
        BY <1>1, <3>1 DEF Known, Stray
      <4>3. \A a \in Known' : family[a] # family[call[q].rt]
        BY <2>3, <4>1, <4>2 DEF Sole
      <4>4. \A r \in Calls : Working(r) => family[call[r].rt] # family[call[q].rt]
        BY <4>1 DEF Sole
      <4>5. QED
        BY <1>1, <1>2, <2>2, <4>3, <4>4 DEF Sole
    <3>5. QED
      BY <2>6, <3>2, <3>3, <3>4 DEF Active, Inv, Progress, TypeOK
  <2>7. ClientInv'
    <3>1. store' # None =>
            Sole(store)' \/ \E q \in Calls : call'[q].pc = "posted" /\ call'[q].rt = store'
      <4> SUFFICES ASSUME store # None, ~Sole(store)'
                   PROVE  \E q \in Calls : call'[q].pc = "posted" /\ call'[q].rt = store
        BY <1>1
      <4>1. PICK q \in Calls : call[q].pc = "posted" /\ call[q].rt = store
        BY <1>1, <2>1, <2>4 DEF ClientInv
      <4>2. call'[q] = call[q]
        BY <1>1, <1>2, <2>6, <4>1
      <4>3. QED
        BY <4>1, <4>2
    <3>2. login'.pc = "posted" => Sole(login.rt)'
      BY <1>1, <2>1, <2>4 DEF ClientInv
    <3>3. \A q \in Calls : call'[q].pc = "posted" =>
             /\ srv'[q] = "answered" => Sole(answer[q])'
             /\ srv'[q] = "denied" => Sole(call[q].rt)'
      BY <1>1, <1>2, <2>1, <2>4 DEF ClientInv
    <3>4. QED
      BY <3>1, <3>2, <3>3 DEF ClientInv
  <2>8. OneKnown'
    BY <1>1, <2>1, <2>3 DEF OneKnown
  <2>9. QED
    BY <2>5, <2>7, <2>8
<1>5. QED
  BY <1>1, <1>3, <1>4 DEF Rotations

\* Every step preserves what is said of the tokens.
LEMMA TokenStep ==
  Inv /\ Answers /\ LoginIsNew /\ Rotations /\ [Next]_vars => LoginIsNew' /\ Rotations'
<1> SUFFICES ASSUME Inv, Answers, LoginIsNew, Rotations, [Next]_vars PROVE LoginIsNew' /\ Rotations'
  OBVIOUS
<1>i. Inv'
  BY InvStep
<1>1. CASE Calm
  BY <1>1, <1>i, CalmKeeps, SameFamiliesKeep DEF Calm
<1>2. CASE \E t \in Tabs : LoginPost(t)
  BY <1>2, <1>i, LoginPostKeeps
<1>3. CASE LoginDone
  BY <1>3, LoginDoneKeeps
<1>4. CASE \E p \in Calls : DoRefresh(p)
  BY <1>4, DoRefreshKeeps
<1>5. CASE \E p \in Calls : RefreshOk(p) \/ RefreshFailed(p)
  BY <1>5, RefreshOkKeeps, RefreshFailedKeeps
<1>6. CASE \E p \in Calls : Rotate(p)
  BY <1>6, RotateKeeps
<1>7. CASE \E p \in Calls : IssueNew(p) /\ ~UNCHANGED server
  BY <1>7, IssueNewKeeps
<1>9. CASE \E t \in Tabs : LeaveTab(t)
  BY <1>9, LeaveTabKeeps
<1>8. \/ \E t \in Tabs : LogoutPost(t) \/ Expire(t)
      \/ LoginShow \/ LogoutRevoke \/ LogoutClear \/ LogoutShow \/ UNCHANGED vars
      \/ \E p \in Calls : StartStep(p) \/ Unauthorized(p) \/ Settle(p) \/ Lookup(p) \/ HandlerGivesUp(p)
      \/ \E p \in Calls : IssueNew(p) /\ UNCHANGED server
      \/ \E t \in Tabs : LoginPost(t) \/ LeaveTab(t)
      \/ LoginDone
      \/ \E p \in Calls : DoRefresh(p) \/ RefreshOk(p) \/ RefreshFailed(p) \/ Rotate(p)
      \/ \E p \in Calls : IssueNew(p) /\ ~UNCHANGED server
  BY DEF Next, CallStep, HandlerStep, StartStep
<1>10. QED
  BY <1>1, <1>2, <1>3, <1>4, <1>5, <1>6, <1>7, <1>8, <1>9, CalmSteps

-----------------------------------------------------------------------------
(* The answers *)

\* Steps that answer nobody, and store no token.
LEMMA AnswersKept ==
  ASSUME Inv, Answers, UNCHANGED family, store' \in {store, None},
         login'.pc = "posted" => login.pc = "posted" /\ login'.rt = login.rt,
         \A q \in Calls : srv'[q] = "answered" =>
             /\ srv[q] = "answered" /\ answer'[q] = answer[q] /\ call'[q].rt = call[q].rt
             /\ call'[q].pc \in {"posted", "lost"} => call[q].pc \in {"posted", "lost"}
  PROVE  Answers'
<1>1. \A q \in Calls : srv[q] = "answered" => answer[q] # None
  BY SessionsAssumption DEF Inv, Progress, TypeOK, Tokens
<1>2. QED
  BY <1>1 DEF Answers

\* A call that is answered is answered with a token nobody has.
LEMMA AnswersIssued ==
  ASSUME Inv, Answers, NEW p \in Calls, IssueNew(p), ~UNCHANGED server
  PROVE  Answers'
<1>1. /\ srv[p] = "issue" /\ call[p].rt \in 1 .. issued
      /\ srv'[p] = "answered" /\ answer'[p] = issued'
      /\ \A q \in Calls \ {p} : srv'[q] = srv[q] /\ answer'[q] = answer[q]
      /\ UNCHANGED <<store, call, login>>
  BY Issues
<1>2. /\ family'[issued'] = family[call[p].rt]
      /\ \A k \in 1 .. issued : k # issued' /\ family'[k] = family[k]
  BY Issues
<1>3. \A q \in Calls : srv[q] = "answered" =>
         answer[q] \in 1 .. issued /\ call[q].rt \in 1 .. issued
  BY DEF Inv, Progress
<1>4. store # issued' /\ (login.pc = "posted" => login.rt # issued')
  <2>1. store = None \/ store \in 1 .. issued
    BY DEF Inv, Progress
  <2>2. issued' # None
    <3>1. Issue(FamilyOf(p))
      BY DEF IssueNew
    <3>2. QED
      BY <3>1, SessionsAssumption DEF Issue, Inv, TypeOK, Tokens
  <2>3. QED
    BY <1>2, <2>1, <2>2 DEF Inv, Progress
<1>5. \A q \in Calls \ {p} : srv'[q] = "answered" => answer'[q] # answer'[p]
  BY <1>1, <1>2, <1>3
<1>6. QED
  BY <1>1, <1>2, <1>3, <1>4, <1>5 DEF Answers

\* Every step keeps what is said of the answers.
LEMMA AnswersStep == Inv /\ Answers /\ [Next]_vars => Answers'
<1> SUFFICES ASSUME Inv, Answers, [Next]_vars PROVE Answers'
  OBVIOUS
<1>1. CASE Calm
  BY <1>1, AnswersKept DEF Calm, SameFamilies
<1>2. ASSUME NEW t \in Tabs, LoginPost(t) PROVE Answers'
  <2>1. logins + 1 \in 0 .. MaxLogins
    BY <1>2, SessionsAssumption DEF LoginPost, Inv, TypeOK
  <2>2. issued' = issued + 1 /\ \A k \in 1 .. issued : k # issued' /\ family'[k] = family[k]
    BY <1>2, <2>1, NewToken DEF LoginPost
  <2>3. UNCHANGED <<store, call, srv, answer>> /\ login'.rt = issued'
    BY <1>2, <2>2 DEF LoginPost, client, tokens, handler
  <2>4. \A q \in Calls : srv[q] = "answered" =>
           answer[q] \in 1 .. issued /\ call[q].rt \in 1 .. issued
    BY DEF Inv, Progress
  <2>5. QED
    BY <2>2, <2>3, <2>4 DEF Answers
<1>3. CASE LoginDone
  BY <1>3 DEF LoginDone, Answers, server, handler, Inv, TypeOK
<1>4. ASSUME NEW p \in Calls, DoRefresh(p) PROVE Answers'
  <2>1. UNCHANGED <<family, store, answer, login>>
    BY <1>4 DEF DoRefresh, server, tokens
  <2>2. srv[p] = "none"
    BY <1>4 DEF DoRefresh, Inv, Progress
  <2>3. /\ srv'[p] # "answered"
        /\ \A q \in Calls \ {p} : srv'[q] = srv[q] /\ call'[q] = call[q]
    BY <1>4, <2>2 DEF DoRefresh, Inv, TypeOK
  <2>4. QED
    BY <2>1, <2>3, AnswersKept
<1>5. ASSUME NEW p \in Calls, RefreshOk(p) PROVE Answers'
  <2>1. /\ srv[p] = "answered" /\ store' = answer[p] /\ call'[p].pc = "ok"
        /\ UNCHANGED <<family, srv, answer, login>> /\ call'[p].rt = call[p].rt
        /\ \A q \in Calls \ {p} : call'[q] = call[q]
    BY <1>5 DEF RefreshOk, server, handler, Inv, TypeOK
  <2>2. QED
    BY <2>1 DEF Answers
<1>6. ASSUME NEW p \in Calls, RefreshFailed(p) PROVE Answers'
  <2>1. UNCHANGED <<family, srv, answer, login>> /\ store' \in {store, None}
    BY <1>6 DEF RefreshFailed, StoreAfterFailure, server, handler
  <2>2. /\ call'[p].pc = "null" /\ call'[p].rt = call[p].rt
        /\ \A q \in Calls \ {p} : call'[q] = call[q]
    BY <1>6 DEF RefreshFailed, Inv, TypeOK
  <2>3. QED
    BY <2>1, <2>2, AnswersKept
<1>7. ASSUME NEW p \in Calls, Rotate(p) PROVE Answers'
  <2>1. UNCHANGED <<family, store, answer, login, call>>
    BY <1>7 DEF Rotate, client, tokens
  <2>2. srv'[p] = "issue" /\ \A q \in Calls \ {p} : srv'[q] = srv[q]
    BY <1>7 DEF Rotate, Inv, TypeOK
  <2>3. QED
    BY <2>1, <2>2, AnswersKept
<1>8. ASSUME NEW t \in Tabs, LeaveTab(t) PROVE Answers'
  BY <1>8, Leaves, AnswersKept
<1>9. \/ \E t \in Tabs : LogoutPost(t) \/ Expire(t)
      \/ LoginShow \/ LogoutRevoke \/ LogoutClear \/ LogoutShow \/ UNCHANGED vars
      \/ \E p \in Calls : StartStep(p) \/ Unauthorized(p) \/ Settle(p) \/ Lookup(p) \/ HandlerGivesUp(p)
      \/ \E p \in Calls : IssueNew(p) /\ UNCHANGED server
      \/ \E t \in Tabs : LoginPost(t) \/ LeaveTab(t)
      \/ LoginDone
      \/ \E p \in Calls : DoRefresh(p) \/ RefreshOk(p) \/ RefreshFailed(p) \/ Rotate(p)
      \/ \E p \in Calls : IssueNew(p) /\ ~UNCHANGED server
  BY DEF Next, CallStep, HandlerStep, StartStep
<1>10. QED
  BY <1>1, <1>2, <1>3, <1>4, <1>5, <1>6, <1>7, <1>8, <1>9, CalmSteps, AnswersIssued

-----------------------------------------------------------------------------
(* The session *)

\* Steps of logins, logouts and tabs.
LEMMA SessionLogin ==
  ASSUME Inv, SessionInv, LoginStep, Untroubled, Untroubled'
  PROVE  SessionInv'
<1>1. ASSUME NEW t \in Tabs, LoginPost(t) PROVE SessionInv'
  <2>1. /\ live' = live \cup {issued + 1} /\ login'.pc = "posted" /\ login'.rt = issued + 1
        /\ UNCHANGED <<store, user, stored, call, srv, answer>>
    BY <1>1 DEF LoginPost, Issue, client, page, tokens, handler, trouble
  <2>2. QED
    BY <2>1 DEF SessionInv, Active
<1>2. CASE LoginDone
  <2>1. /\ login.pc = "posted" /\ store' = login.rt /\ login'.pc = "publish"
        /\ UNCHANGED <<live, user, stored, call, srv, answer>>
    BY <1>2 DEF LoginDone, server, page, handler, Inv, TypeOK, trouble
  <2>2. store' \in live /\ store' # None
    BY <2>1, SessionsAssumption DEF SessionInv, Inv, TypeOK, Tokens
  <2>3. QED
    BY <2>1, <2>2 DEF SessionInv, Active
<1>3. CASE LoginShow
  <2>1. /\ login.pc = "publish" /\ login'.pc = "idle"
        /\ UNCHANGED <<live, store, call, srv, answer>>
    BY <1>3 DEF LoginShow, NoLogin, server, tokens, handler, trouble
  <2>2. QED
    BY <2>1 DEF SessionInv, Active
<1>4. ASSUME NEW t \in Tabs, Expire(t) PROVE SessionInv'
  BY <1>4 DEF Expire, SessionInv, Active, server, page, handler, trouble
<1>5. ASSUME NEW t \in Tabs, LogoutPost(t) PROVE FALSE
  BY <1>5 DEF LogoutPost, Untroubled
<1>6. ASSUME LogoutRevoke \/ LogoutClear \/ LogoutShow PROVE FALSE
  BY <1>6 DEF LogoutRevoke, LogoutClear, LogoutShow, Untroubled
<1>8. ASSUME NEW t \in Tabs, LeaveTab(t) PROVE SessionInv'
  <2>1. /\ UNCHANGED <<live, store, stored, srv, answer>>
        /\ login'.pc \in {"posted", "publish"} => login' = login
        /\ \A u \in Tabs : user'[u] => user[u]
    BY <1>8, Leaves DEF NoLogin
  <2>2. \A q \in Calls :
           /\ call'[q] = call[q] \/ call'[q].pc \in {"left", "lost"}
           /\ call[q].pc \in {"idle", "lost"} => call'[q] = call[q]
           /\ call'[q].pc = "lost" => call[q].pc \in {"posted", "lost"}
           /\ call'[q] # call[q] /\ call[q].pc = "posted" => call'[q].pc = "lost"
    BY <1>8, Leaves
  <2>3. \A q \in Calls : call[q].pc = "posted" /\ srv[q] \in {"issue", "answered"} => call'[q] = call[q]
    BY <2>1, <2>2 DEF Untroubled, Unheard
  <2>4. ASSUME store' # None
        PROVE  \/ store' \in live'
               \/ \E q \in Calls : /\ call'[q].pc = "posted" /\ call'[q].rt = store'
                                   /\ srv'[q] \in {"issue", "answered"}
    BY <2>1, <2>3, <2>4 DEF SessionInv
  <2>5. \A q \in Calls : Active(q)' => call'[q].pc \in {"posted", "lost"}
    BY <2>1, <2>2 DEF SessionInv, Active
  <2>6. QED
    BY <2>1, <2>2, <2>4, <2>5 DEF SessionInv
<1>7. QED
  BY <1>1, <1>2, <1>3, <1>4, <1>5, <1>6, <1>8 DEF LoginStep

\* Steps of calls: the call with the lock finds a live token.
LEMMA SessionCall ==
  ASSUME Inv, SessionInv, NEW p \in Calls, StartStep(p) \/ CallStep(p), Untroubled, Untroubled'
  PROVE  SessionInv'
<1>1. ASSUME NEW t \in Tabs, OpenTab(p, t) \/ Request(p, t) PROVE SessionInv'
  <2>1. \A u \in Tabs : user'[u] => user[u] \/ stored
    BY <1>1 DEF OpenTab, Request, client, page, Inv, TypeOK, trouble
  <2>2. /\ UNCHANGED <<live, store, stored, srv, answer, login>>
        /\ \A q \in Calls \ {p} : call'[q] = call[q]
        /\ \/ call'[p] = call[p]
           \/ call[p].pc = "idle" /\ call'[p].pc = "lock" /\ store # None
           \/ call[p].pc = "idle" /\ call'[p].pc = "sent" /\ user[t]
    BY <1>1, CallStarts DEF Inv
  <2>3. call[p].pc = "idle" => srv[p] = "none"
    BY DEF Inv, Progress
  <2>4. QED
    BY <2>1, <2>2, <2>3 DEF SessionInv, Active
<1>2. CASE Unauthorized(p)
  <2>1. /\ UNCHANGED <<live, store, user, stored, srv, answer, login>>
        /\ call[p].pc = "sent" /\ call'[p].pc \in {"wait", "lock"}
        /\ \A q \in Calls \ {p} : call'[q] = call[q]
    BY <1>2 DEF Unauthorized, TryRefresh, server, page, tokens, handler, Inv, TypeOK, trouble
  <2>2. srv[p] = "none"
    BY <2>1 DEF Inv, Progress
  <2>3. QED
    BY <2>1, <2>2 DEF SessionInv, Active
<1>3. CASE DoRefresh(p)
  <2>1. /\ store # None /\ \A q \in Calls : call[q].pc # "posted"
        /\ UNCHANGED <<live, store, user, stored, answer, login>>
    BY <1>3, SessionsAssumption
       DEF DoRefresh, LockFree, SessionInv, server, page, tokens, Inv, Progress, trouble
  <2>2. store \in live
    BY <2>1 DEF SessionInv
  <2>3. /\ call'[p].pc = "posted" /\ call'[p].rt = store /\ srv'[p] = "lookup"
        /\ \A q \in Calls \ {p} : call'[q] = call[q] /\ srv'[q] = srv[q]
    BY <1>3, <2>1 DEF DoRefresh, Inv, TypeOK
  <2>4. QED
    BY <2>1, <2>2, <2>3 DEF SessionInv, Active
<1>4. CASE RefreshOk(p)
  <2>1. /\ call[p].pc = "posted" /\ srv[p] = "answered" /\ store' = answer[p]
        /\ UNCHANGED <<live, user, stored, srv, answer, login>>
        /\ call'[p].pc = "ok" /\ \A q \in Calls \ {p} : call'[q] = call[q]
    BY <1>4 DEF RefreshOk, server, page, handler, Inv, TypeOK, trouble
  <2>2. store' \in live /\ store' # None
    <3>1. answer[p] \in live
      BY <2>1 DEF SessionInv
    <3>2. answer[p] \in 1 .. issued /\ issued \in 0 .. MaxToken
      BY <2>1 DEF Inv, Progress, TypeOK
    <3>3. answer[p] \in Tokens
      BY <3>2, SessionsAssumption DEF Tokens
    <3>4. QED
      BY <2>1, <3>1, <3>3, SessionsAssumption
  <2>3. QED
    BY <2>1, <2>2 DEF SessionInv, Active
<1>5. CASE RefreshFailed(p)
  BY <1>5 DEF RefreshFailed, Fails, SessionInv, Untroubled
<1>6. CASE Settle(p)
  <2>1. call[p].pc = "ok"
    BY <1>6, Settles DEF Inv, SessionInv
  <2>2. /\ UNCHANGED <<live, store, srv, answer, login>>
        /\ \A q \in Calls : \/ call'[q] = call[q]
                            \/ call[q].pc \in {"ok", "wait"} /\ call'[q].pc = "done"
    BY <1>6, <2>1, Settles DEF Inv
  <2>3. (\A u \in Tabs : user'[u] => user[u]) /\ (stored' => stored)
    BY <1>6 DEF Settle, Inv, TypeOK
  <2>4. \A q \in Calls : call[q].pc \in {"posted", "lost"} => call'[q] = call[q]
    BY <2>2
  <2>5. \A q \in Calls : Active(q) => call[q].pc \in {"posted", "lost"}
    BY DEF SessionInv
  <2>6. QED
    BY <2>2, <2>3, <2>4, <2>5 DEF SessionInv, Active
<1>7. QED
  BY <1>1, <1>2, <1>3, <1>4, <1>5, <1>6 DEF StartStep, CallStep

\* Steps of handlers: the only handler at work is the one of the call that has
\* the lock, and it exchanges the token that call posted.
LEMMA SessionHandler ==
  ASSUME Inv, LoginIsNew, SessionInv, NEW p \in Calls, HandlerStep(p) \/ HandlerGivesUp(p),
         Untroubled, Untroubled'
  PROVE  SessionInv'
<1>a. ASSUME UNCHANGED call, srv'[p] \in {"issue", "answered", "denied"}
      PROVE  call[p].pc # "lost"
  BY <1>a DEF Untroubled, Unheard
<1>b. srv[p] # "none" /\ (\A q \in Calls : call[q].pc = "posted" /\ call[p].pc = "posted" => q = p)
  BY DEF HandlerStep, Lookup, Rotate, IssueNew, HandlerGivesUp, Inv, Progress
<1>1. CASE Lookup(p)
  <2>1. /\ srv[p] = "lookup" /\ \A q \in Calls \ {p} : srv'[q] = srv[q]
        /\ UNCHANGED <<live, store, user, stored, answer, login, call>>
        /\ srv'[p] = "rotate" \/ (srv'[p] = Refusal(p) /\ call[p].rt \notin live)
    BY <1>1 DEF Lookup, Fails, Untroubled, server, client, page, tokens, Inv, TypeOK
  <2>2. call[p].pc = "posted" => srv'[p] = "rotate"
    BY <2>1 DEF SessionInv
  <2>3. srv'[p] \in {"rotate", "none"} /\ (srv'[p] = "none" => call[p].pc # "posted")
    BY <2>1, <2>2 DEF Refusal
  <2>4. QED
    BY <2>1, <2>2, <2>3 DEF SessionInv, Active
<1>2. CASE Rotate(p)
  <2>1. /\ srv[p] = "rotate" /\ srv'[p] = "issue" /\ \A q \in Calls \ {p} : srv'[q] = srv[q]
        /\ UNCHANGED <<store, user, stored, answer, login, call>>
        /\ live' = live \ {call[p].rt}
    BY <1>2 DEF Rotate, Fails, Untroubled, client, page, tokens, Inv, TypeOK
  <2>2. call[p].pc = "posted" /\ \A q \in Calls : call[q].pc = "posted" => q = p
    BY <1>a, <1>b, <2>1 DEF SessionInv, Active
  <2>3. ASSUME store # None
        PROVE  \/ store \in live'
               \/ \E q \in Calls : /\ call[q].pc = "posted" /\ call[q].rt = store
                                   /\ srv'[q] \in {"issue", "answered"}
    BY <2>1, <2>2, <2>3 DEF SessionInv
  <2>4. login.pc = "posted" => login.rt \in live'
    BY <2>1 DEF SessionInv, LoginIsNew
  <2>5. ASSUME NEW q \in Calls
        PROVE  /\ call[q].pc # "idle" => store # None
               /\ call[q].pc \notin {"null", "failed"}
               /\ srv'[q] # "denied"
               /\ Active(q)' => call[q].pc \in {"posted", "lost"}
    BY <2>1, <2>2 DEF SessionInv, Active
  <2>6. ASSUME NEW q \in Calls, call[q].pc = "posted"
        PROVE  /\ srv'[q] \in {"lookup", "rotate"} => call[q].rt \in live'
               /\ srv'[q] = "answered" => answer[q] \in live'
    BY <2>1, <2>2, <2>6
  <2>7. QED
    BY <2>1, <2>3, <2>4, <2>5, <2>6 DEF SessionInv
<1>3. CASE IssueNew(p) /\ ~UNCHANGED server
  <2>1. /\ srv[p] = "issue" /\ srv'[p] = "answered" /\ answer'[p] = issued'
        /\ \A q \in Calls \ {p} : srv'[q] = srv[q] /\ answer'[q] = answer[q]
        /\ UNCHANGED <<store, call, login, user, stored>>
        /\ live' = live \cup {issued'}
    BY <1>3, Issues
  <2>2. QED
    BY <2>1 DEF SessionInv, Active
<1>4. CASE IssueNew(p) /\ UNCHANGED server
  <2>1. ~Issue(FamilyOf(p))
    BY <1>4 DEF Issue, server, Inv, TypeOK, trouble
  <2>2. QED
    BY <1>4, <2>1 DEF IssueNew, Fails, Untroubled
<1>5. CASE HandlerGivesUp(p)
  <2>1. /\ srv[p] \in {"lookup", "rotate", "issue"} /\ call[p].pc # "posted"
        /\ \A q \in Calls \ {p} : srv'[q] = srv[q]
        /\ UNCHANGED <<live, store, user, stored, answer, login, call>>
        /\ srv'[p] \in {"none", "denied"}
    BY <1>5 DEF HandlerGivesUp, server, client, page, tokens, Inv, TypeOK
  <2>2. srv'[p] = "none"
    BY <1>a, <2>1 DEF SessionInv, Active
  <2>3. QED
    BY <2>1, <2>2 DEF SessionInv, Active
<1>6. QED
  BY <1>1, <1>2, <1>3, <1>4, <1>5 DEF HandlerStep

\* An exchange that a tab left behind stays so.
LEMMA UnheardStays ==
  ASSUME Inv, [Next]_vars, NEW q \in Calls, Unheard(q)
  PROVE  Unheard(q)'
<1>1. call[q].pc = "lost" /\ srv[q] \in {"issue", "answered", "denied"}
  BY DEF Unheard
<1>2. CASE Calm
  BY <1>1, <1>2 DEF Calm, Unheard
<1>3. ASSUME NEW t \in Tabs, LeaveTab(t) PROVE Unheard(q)'
  BY <1>1, <1>3, Leaves DEF Unheard
<1>4. ASSUME \/ \E t \in Tabs : LoginPost(t)
             \/ LoginDone
      PROVE  Unheard(q)'
  BY <1>1, <1>4 DEF LoginPost, LoginDone, handler, Unheard
<1>5. ASSUME NEW p \in Calls, DoRefresh(p) \/ RefreshOk(p) \/ RefreshFailed(p) \/ Rotate(p)
      PROVE  Unheard(q)'
  BY <1>1, <1>5 DEF DoRefresh, RefreshOk, RefreshFailed, Rotate, handler, Inv, TypeOK, Unheard
<1>6. ASSUME NEW p \in Calls, IssueNew(p), ~UNCHANGED server PROVE Unheard(q)'
  BY <1>1, <1>6, Issues DEF Unheard
<1>7. \/ \E t \in Tabs : LogoutPost(t) \/ Expire(t)
      \/ LoginShow \/ LogoutRevoke \/ LogoutClear \/ LogoutShow \/ UNCHANGED vars
      \/ \E p \in Calls : StartStep(p) \/ Unauthorized(p) \/ Settle(p) \/ Lookup(p) \/ HandlerGivesUp(p)
      \/ \E p \in Calls : IssueNew(p) /\ UNCHANGED server
      \/ \E t \in Tabs : LoginPost(t) \/ LeaveTab(t)
      \/ LoginDone
      \/ \E p \in Calls : DoRefresh(p) \/ RefreshOk(p) \/ RefreshFailed(p) \/ Rotate(p)
      \/ \E p \in Calls : IssueNew(p) /\ ~UNCHANGED server
  BY DEF Next, CallStep, HandlerStep, StartStep
<1>8. QED
  BY <1>2, <1>3, <1>4, <1>5, <1>6, <1>7, CalmSteps

\* Failures, logouts and exchanges left behind are not taken back.
LEMMA TroubleStays == Inv /\ [Next]_vars /\ Untroubled' => Untroubled
<1> SUFFICES ASSUME Inv, [Next]_vars, Untroubled' PROVE Untroubled
  OBVIOUS
<1>1. faults \subseteq faults'
  BY DEF Next, vars, LoginPost, LogoutPost, Expire, LeaveTab, LoginDone, LoginShow, LogoutRevoke,
     LogoutClear, LogoutShow, OpenTab, Request, CallStep, Unauthorized, DoRefresh, RefreshOk,
     RefreshFailed, Settle, HandlerStep, Lookup, Rotate, IssueNew, HandlerGivesUp, Works, Fails,
     trouble
<1>2. logout.pc # "idle" => logout'.pc # "idle"
  <2>1. CASE \E t \in Tabs : LeaveTab(t)
    BY <2>1, Leaves
  <2>2. CASE ~ \E t \in Tabs : LeaveTab(t)
    BY <2>2 DEF Next, vars, LoginPost, LogoutPost, Expire, LoginDone, LoginShow, LogoutRevoke,
       LogoutClear, LogoutShow, Done, NoLogin, OpenTab, Request, CallStep, Unauthorized, DoRefresh,
       RefreshOk, RefreshFailed, Settle, HandlerStep, Lookup, Rotate, IssueNew, HandlerGivesUp, Inv,
       TypeOK, trouble
  <2>3. QED
    BY <2>1, <2>2
<1>3. QED
  BY <1>1, <1>2, UnheardStays DEF Untroubled

\* Every step preserves the session.
LEMMA SurvivalStep == Inv /\ LoginIsNew /\ Survival /\ [Next]_vars => Survival'
<1> SUFFICES ASSUME Inv, LoginIsNew, Survival, [Next]_vars, Untroubled' PROVE SessionInv'
  BY DEF Survival
<1>1. Untroubled /\ SessionInv
  BY TroubleStays DEF Survival
<1>2. CASE LoginStep
  BY <1>1, <1>2, SessionLogin
<1>3. ASSUME NEW p \in Calls, StartStep(p) \/ CallStep(p) PROVE SessionInv'
  BY <1>1, <1>3, SessionCall
<1>4. ASSUME NEW p \in Calls, HandlerStep(p) \/ HandlerGivesUp(p) PROVE SessionInv'
  BY <1>1, <1>4, SessionHandler
<1>5. CASE UNCHANGED vars
  BY <1>1, <1>5 DEF SessionInv, Active, vars, server, client, page, tokens, handler, trouble
<1>6. QED
  BY <1>2, <1>3, <1>4, <1>5 DEF Next, LoginStep, StartStep

-----------------------------------------------------------------------------
(* Theorems *)

\* The inductive invariant.
IInv == Inv /\ Answers /\ LoginIsNew /\ Rotations /\ Survival

\* The inductive invariant holds throughout.
THEOREM Invariant == Spec => []IInv
<1>1. Init => IInv
  <2> SUFFICES ASSUME Init PROVE IInv
    OBVIOUS
  <2>1. \A p \in Calls : call[p].pc = "idle" /\ srv[p] = "none" /\ ~Active(p)
    BY DEF Init, NewCall, Active
  <2>2. live = {} /\ issued = 0 /\ login.pc = "idle" /\ store = None /\ ~stored
        /\ \A t \in Tabs : ~user[t]
    BY DEF Init, NoLogin
  <2>3. Progress /\ Answers /\ LoginIsNew
    BY <2>1, <2>2 DEF Init, Progress, Answers, LoginIsNew
  <2>5. Rotations
    BY <2>1, <2>2 DEF Rotations, RotationInv, ClientInv, OneKnown, Known, Working
  <2>6. Survival
    BY <2>1, <2>2 DEF Survival, SessionInv
  <2>4. QED
    BY <2>3, <2>5, <2>6, TypeInit DEF IInv, Inv
<1>2. IInv /\ [Next]_vars => IInv'
  BY InvStep, AnswersStep, TokenStep, SurvivalStep DEF IInv
<1>3. QED
  BY <1>1, <1>2, PTL DEF Spec

\* The session of a browser is type correct: Redis holds only tokens that
\* LoginHandler or RefreshHandler issued.
THEOREM TypeCorrect == Spec => []TypeOK
<1>1. IInv => TypeOK
  BY DEF IInv, Inv
<1>2. QED
  BY <1>1, Invariant, PTL

\* Whatever tabs, late answers and logouts do between the GET, DEL and SET of
\* RefreshHandler, two handlers that work for one token after a tab left included, a
\* login has at most one refresh token in Redis that anybody knows of, as long as
\* Redis does not refuse a DEL; and what a tab that left was answered is never stored.
THEOREM OneTokenPerLogin == Spec => []OneLiveTokenPerLogin
<1>1. ASSUME IInv, store # None PROVE ~Stray(store)
  <2>1. \A p \in Calls : answer[p] = store => srv[p] = "answered"
    BY <1>1 DEF IInv, Inv, Progress
  <2>2. QED
    BY <1>1, <2>1 DEF IInv, Answers, Stray
<1>2. IInv => OneLiveTokenPerLogin
  BY <1>1 DEF IInv, Rotations, OneKnown, Known, OneLiveTokenPerLogin
<1>3. QED
  BY <1>2, Invariant, PTL

\* Without a failure, a logout and a tab that left the exchange of its token behind,
\* no refresh of any tab is refused: the lock around refresh() is enough for any number
\* of tabs and calls, and of tabs that close and reload.
THEOREM NoRefreshRefused == Spec => []SessionSurvives
<1>1. IInv => SessionSurvives
  BY DEF IInv, Survival, Untroubled, SessionInv, SessionSurvives
<1>2. QED
  BY <1>1, Invariant, PTL
=============================================================================
