----------------------------- MODULE KeyExchange -----------------------------
(***************************************************************************)
(* The end-to-end keys of two users who write to each other: publishKey,     *)
(* login and logout (api/auth.ts), getOrCreateKeyPair and clearKeyPair        *)
(* (lib/crypto.ts), getSharedKey and onKeyChanged (ChatContext.tsx), and      *)
(* UploadKeyHandler and GetKeyHandler (http/key_handlers.go).                *)
(*                                                                         *)
(* A key pair is a number, in the order of generation.  The shared secret of  *)
(* a tab is the pair (own key, peer's key) it was derived from: the two sides *)
(* can read each other when each derived from the keys the other one uses.    *)
(* IndexedDB and localStorage belong to a browser and are shared by its tabs; *)
(* the cache of shared secrets is a tab's own.  What JavaScript does between  *)
(* two awaits, an IndexedDB transaction, and what the server does with one    *)
(* request are steps.                                                        *)
(***************************************************************************)
EXTENDS Integers, FiniteSets, WebClient

CONSTANTS
    Tabs,
    UserOf,      \* per tab: the account it is for
    BrowserOf,   \* per tab: the browser it is in
    PeerOf,      \* per user: the other user, a contact
    MaxLogouts,  \* bound: logouts
    MaxCalls,    \* bound: calls of getSharedKey and publishKey under way
    Faults       \* kinds of fault the environment injects

Users    == {UserOf[t] : t \in Tabs}
Browsers == {BrowserOf[t] : t \in Tabs}
FaultKinds == {"fetch", "upload", "push"}

ASSUME KeyAssumption ==
    /\ PeerOf \in [Users -> Users] /\ \A u \in Users : PeerOf[u] # u /\ PeerOf[PeerOf[u]] = u
    /\ MaxLogouts \in Nat /\ MaxCalls \in Nat
    /\ None \notin Nat /\ None \notin Users
    /\ Faults \subseteq FaultKinds

VARIABLES
    st,        \* per tab: "out", "login" (publishing), "in", "leaving" (wiping)
    stored,    \* per browser: the account in localStorage 'user'
    wipe,      \* per tab: the account whose key pair its logout deletes
    idb,       \* per browser and user: key pair in IndexedDB
    srv,       \* per user: public_key in the users table
    cache,     \* per tab: sharedKeyCache entry for the peer
    call,      \* per tab: a getSharedKey ("get") and a publishKey ("pub") in progress
    pushes,    \* tabs with a key_changed frame under way
    nextKey,   \* next key pair generateKey returns
    logouts,
    lost       \* history: an upload failed, or a key_changed did not reach a tab

tabs == <<st, stored, wipe>>
keyVars == <<tabs, idb, srv, cache, call, pushes, nextKey, logouts, lost>>

Kinds == {"get", "pub"}
Idle  == [pc |-> "idle", mine |-> None, theirs |-> None, told |-> FALSE]
Own(t)  == UserOf[t]
Peer(t) == PeerOf[UserOf[t]]

\* Both users have signed in, with their first key pairs; some of their tabs are open.
First(u) == IF u = CHOOSE x \in Users : TRUE THEN 1 ELSE 2
KeyInit ==
    /\ st \in [Tabs -> {"in", "out"}]
    /\ stored = [b \in Browsers |-> Own(CHOOSE t \in Tabs : BrowserOf[t] = b)]
    /\ wipe = [t \in Tabs |-> None]
    /\ idb = [b \in Browsers |-> [u \in Users |->
                IF \E t \in Tabs : BrowserOf[t] = b /\ Own(t) = u THEN First(u) ELSE None]]
    /\ srv = [u \in Users |-> First(u)] /\ cache = [t \in Tabs |-> None]
    /\ call = [t \in Tabs |-> [k \in Kinds |-> Idle]] /\ pushes = {}
    /\ nextKey = 3 /\ logouts = 0 /\ lost = FALSE

Busy    == {b \in Tabs \X Kinds : call[b[1]][b[2]].pc # "idle"}
MayCall == Cardinality(Busy) < MaxCalls

Continue(t, k, pc) == call' = [call EXCEPT ![t][k].pc = pc]
End(t, k)          == call' = [call EXCEPT ![t][k] = Idle]

\* The tab has an access token (setToken in login, cleared by logout).
HasToken(t) == st[t] \in {"login", "in"}

-----------------------------------------------------------------------------
(* getSharedKey *)

\* It starts (to send or to decrypt), and the server answers with the peer's key.
\* fetchPublicKey returns null for every error.
FetchPeerKey(t) ==
    /\ st[t] = "in" /\ call[t]["get"].pc = "idle" /\ MayCall
    /\ \E key \in {srv[Peer(t)]} \cup (IF "fetch" \in Faults THEN {None} ELSE {}) :
          call' = [call EXCEPT ![t]["get"] = [Idle EXCEPT !.pc = "check", !.theirs = key]]
    /\ UNCHANGED <<tabs, idb, srv, cache, pushes, nextKey, logouts, lost>>

\* The cached secret is good as long as the peer's public key is the same.
Hit(t, theirs) == cache[t] # None /\ cache[t].theirs = theirs

\* GetKeyHandler answers 404 to a user who asks for their own key: nobody is a
\* contact of themselves.
OwnKeyOnServer(u) == None

\* idbGet of getOrCreateKeyPair.  getSharedKey then asks the server whether it has
\* the key that was found; publishKey uploads it in any case.
IdbGet(t, k) ==
    LET found == idb[BrowserOf[t]][Own(t)] IN
    /\ call' = [call EXCEPT ![t][k].mine = found,
                            ![t][k].pc = IF found = None THEN "put"
                                            ELSE IF k = "get" /\ found = OwnKeyOnServer(Own(t))
                                                 THEN "derive" ELSE "upload"]
    /\ UNCHANGED <<tabs, idb, srv, cache, pushes, nextKey, logouts, lost>>

\* The answer arrives: no key (the caller goes on without encryption), or the cached
\* secret, or a new one is derived.  The cache is looked at before IndexedDB; that
\* nothing but an eviction changes it in between makes this one step.
CheckCache(t) ==
    LET theirs == call[t]["get"].theirs IN
    /\ call[t]["get"].pc = "check"
    /\ \/ /\ theirs = None \/ Hit(t, theirs)
          /\ End(t, "get")
          /\ UNCHANGED <<tabs, idb, srv, cache, pushes, nextKey, logouts, lost>>
       \/ /\ theirs # None /\ ~Hit(t, theirs)
          /\ IdbGet(t, "get")

\* publishKey
PublishKey(t) == call[t]["pub"].pc = "idb" /\ IdbGet(t, "pub")

\* generateKey and idbPut, which overwrites what another tab has put meanwhile.
MutantPutForgetsKey(t, k) ==
    /\ call[t][k].pc = "put"
    /\ idb' = [idb EXCEPT ![BrowserOf[t]][Own(t)] = nextKey]
    /\ nextKey' = nextKey + 1
    /\ Continue(t, k, "upload")
    /\ UNCHANGED <<tabs, srv, cache, pushes, logouts, lost>>
IdbPut(t, k) ==
    /\ call[t][k].pc = "put"
    /\ idb' = [idb EXCEPT ![BrowserOf[t]][Own(t)] = nextKey]
    /\ nextKey' = nextKey + 1
    /\ call' = [call EXCEPT ![t][k].mine = nextKey, ![t][k].pc = "upload"]
    /\ UNCHANGED <<tabs, srv, cache, pushes, logouts, lost>>

\* The tabs a key_changed about u is pushed to: the peer's, as far as they are
\* connected to the instance that served the upload.
MutantNobody(u) == {}
Followers(u) == {t \in Tabs : Own(t) = PeerOf[u] /\ st[t] = "in"}

\* What follows uploadPublicKey, failed or not.
AfterUpload(t, k) ==
    IF k = "pub" THEN End(t, k) ELSE Continue(t, k, "derive")

\* PUT /keys: SetPublicKey, and the goroutine that tells the followers.
Upload(t, k) ==
    /\ call[t][k].pc = "upload"
    /\ HasToken(t)
    /\ srv' = [srv EXCEPT ![Own(t)] = call[t][k].mine]
    /\ \E reached \in SUBSET Followers(Own(t)) :
          /\ reached = Followers(Own(t)) \/ "push" \in Faults
          /\ pushes' = pushes \cup reached
          /\ lost' = (lost \/ reached # Followers(Own(t)))
    /\ AfterUpload(t, k)
    /\ UNCHANGED <<tabs, idb, cache, nextKey, logouts>>

\* The upload fails, or there is no token any more: the error is logged.
UploadFails(t, k) ==
    /\ call[t][k].pc = "upload"
    /\ ~HasToken(t) \/ "upload" \in Faults
    /\ lost' = (lost \/ HasToken(t))
    /\ AfterUpload(t, k)
    /\ UNCHANGED <<tabs, idb, srv, cache, pushes, nextKey, logouts>>

\* deriveSharedKey; the secret is cached.
Derive(t) ==
    /\ call[t]["get"].pc = "derive"
    /\ cache' = [cache EXCEPT ![t] =
          [mine |-> call[t]["get"].mine, theirs |-> call[t]["get"].theirs, late |-> call[t]["get"].told]]
    /\ End(t, "get")
    /\ UNCHANGED <<tabs, idb, srv, pushes, nextKey, logouts, lost>>

-----------------------------------------------------------------------------
(* Evictions.  A call in progress does not notice; the history bit told says   *)
(* that it was overtaken by one.                                             *)

Overtaken(t, c) == IF c[t]["get"].pc = "idle" THEN c ELSE [c EXCEPT ![t]["get"].told = TRUE]

Evicted(t) == [cache EXCEPT ![t] = None]

\* onKeyChanged
OnKeyChanged(t) ==
    /\ t \in pushes
    /\ pushes' = pushes \ {t}
    /\ cache' = Evicted(t)
    /\ call' = Overtaken(t, call)
    /\ UNCHANGED <<tabs, idb, srv, nextKey, logouts, lost>>

-----------------------------------------------------------------------------
(* Sessions *)

\* login or register: the token is stored and publishKey is called.
SignIn(t) ==
    /\ st[t] = "out" /\ call[t]["pub"].pc = "idle" /\ MayCall
    /\ st' = [st EXCEPT ![t] = "login"]
    /\ call' = [call EXCEPT ![t]["pub"].pc = "idb"]
    /\ UNCHANGED <<stored, wipe, idb, srv, cache, pushes, nextKey, logouts, lost>>

\* setUser: the effects store the user and clear the cache; the socket opens.
LoginDone(t) ==
    /\ st[t] = "login" /\ call[t]["pub"].pc = "idle"
    /\ st' = [st EXCEPT ![t] = "in"]
    /\ stored' = [stored EXCEPT ![BrowserOf[t]] = Own(t)]
    /\ cache' = Evicted(t)
    /\ call' = Overtaken(t, call)
    /\ UNCHANGED <<wipe, idb, srv, pushes, nextKey, logouts, lost>>

\* logout, after the request: tokens and 'user' are removed.
Logout(t) ==
    /\ st[t] = "in" /\ logouts < MaxLogouts
    /\ logouts' = logouts + 1
    /\ st' = [st EXCEPT ![t] = "leaving"]
    /\ wipe' = [wipe EXCEPT ![t] = stored[BrowserOf[t]]]
    /\ stored' = [stored EXCEPT ![BrowserOf[t]] = None]
    /\ UNCHANGED <<idb, srv, cache, call, pushes, nextKey, lost>>

\* clearKeyPair of the account that 'user' named, if any, and setUser(null).
ClearKeyPair(t) ==
    /\ st[t] = "leaving"
    /\ st' = [st EXCEPT ![t] = "out"]
    /\ wipe' = [wipe EXCEPT ![t] = None]
    /\ idb' = IF wipe[t] = None THEN idb ELSE [idb EXCEPT ![BrowserOf[t]][wipe[t]] = None]
    /\ cache' = Evicted(t)
    /\ call' = Overtaken(t, call)
    /\ pushes' = pushes \ {t}
    /\ UNCHANGED <<stored, srv, nextKey, logouts, lost>>

\* A reload loses the tab's memory, and not its token.
Reload(t) ==
    /\ st[t] = "in"
    /\ call' = [call EXCEPT ![t] = [k \in Kinds |-> Idle]]
    /\ cache' = Evicted(t)
    /\ pushes' = pushes \ {t}
    /\ UNCHANGED <<tabs, idb, srv, nextKey, logouts, lost>>

\* A tab that is opened finds the account of the browser, refreshes its token and
\* publishes its key (AuthProvider).
OpenTab(t) ==
    /\ st[t] = "out" /\ stored[BrowserOf[t]] = Own(t) /\ MayCall
    /\ st' = [st EXCEPT ![t] = "in"]
    /\ call' = [call EXCEPT ![t] =
          [k \in Kinds |-> IF k = "pub" THEN [Idle EXCEPT !.pc = "idb"] ELSE Idle]]
    /\ cache' = Evicted(t)
    /\ UNCHANGED <<stored, wipe, idb, srv, pushes, nextKey, logouts, lost>>

-----------------------------------------------------------------------------
KeyStep(t, k) == IdbPut(t, k) \/ Upload(t, k) \/ UploadFails(t, k)
GetStep(t) == CheckCache(t) \/ Derive(t) \/ KeyStep(t, "get")
PubStep(t) == PublishKey(t) \/ KeyStep(t, "pub")
TabStep(t) == LoginDone(t) \/ ClearKeyPair(t)

KeyNext ==
    \E t \in Tabs :
        \/ FetchPeerKey(t) \/ GetStep(t) \/ PubStep(t) \/ OnKeyChanged(t)
        \/ SignIn(t) \/ Logout(t) \/ TabStep(t) \/ Reload(t) \/ OpenTab(t)

KeySpec == KeyInit /\ [][KeyNext]_keyVars

-----------------------------------------------------------------------------
(* Properties *)

Keys     == 1 .. nextKey - 1
KeyOrNot == Keys \cup {None}

\* Types; a call that is about to upload or derive has a key pair, which was
\* generated; a cached secret is made of two keys.
KeyTypeOK ==
    /\ st \in [Tabs -> {"out", "login", "in", "leaving"}]
    /\ stored \in [Browsers -> Users \cup {None}] /\ wipe \in [Tabs -> Users \cup {None}]
    /\ idb \in [Browsers -> [Users -> KeyOrNot]] /\ srv \in [Users -> Keys]
    /\ cache \in [Tabs -> [mine : Keys, theirs : Keys, late : BOOLEAN] \cup {None}]
    /\ call \in [Tabs -> [Kinds -> [pc : {"idle", "check", "idb", "put", "upload", "derive"},
                                    mine : KeyOrNot, theirs : KeyOrNot, told : BOOLEAN]]]
    /\ pushes \subseteq Tabs /\ nextKey \in Nat
    /\ \A t \in Tabs, k \in Kinds :
          call[t][k].pc \in {"upload", "derive"} => call[t][k].mine # None

\* The tab would use a secret that the peer, who derives from the published key,
\* cannot have.
StaleHit(t) ==
    st[t] = "in" /\ Hit(t, srv[Peer(t)]) /\ cache[t].mine # srv[Own(t)]

\* The tab's secret was cached by a call that an eviction overtook.
Late(t) == cache[t] # None /\ cache[t].late

WillUpload(t) == \E k \in Kinds : call[t][k].pc \in {"idb", "put", "upload"}

\* The next getSharedKey of the tab, or one under way, misses the cache and
\* announces the tab's key again.
WillAnnounce(t) ==
    \/ st[t] # "in" \/ t \in pushes \/ WillUpload(t)
    \/ ~Hit(t, srv[Peer(t)])

\* A tab whose cached secret has become useless, because another tab of the user
\* signed out and in and published a new key, is not forgotten: it is about to be
\* told to evict it, or the peer will announce its own key and so evict it
\* (ChatContext.tsx:77-117, :180).  Excepted are failed uploads and pushes, and a
\* secret cached by a call that the eviction overtook.
StaleKeyIsNoticed ==
    \A t \in Tabs : StaleHit(t) =>
        \/ lost \/ \E s \in Tabs : Late(s)
        \/ WillAnnounce(t)
        \/ \E s \in Tabs : Own(s) = Own(t) /\ WillUpload(s)
        \/ \E s \in Tabs : Own(s) = Peer(t) /\ WillAnnounce(s)
=============================================================================
