# OnyxChat: a TLA+ model of the chat server, its notifier and its web client

The modules here model the parts of OnyxChat in which the hard behaviour is:
goroutines that share a client's queue, HTTP handlers that check in one statement
and write in another, Redis commands of several instances that interleave, events
that are lost or overtaken, and JavaScript that awaits between reading and writing
its state. Paths below are relative to the repository's root.
`H` is `server/onyxchat-server/internal/http`, `S` is `server/onyxchat-server/internal/store`,
`N` is `server/notification-service/internal/notifier`, `W` is `web/onyxchat-web/src`.

## The system

Several API instances (Go) run behind a load balancer over one PostgreSQL
database and one Redis. A browser keeps one WebSocket per tab to some instance and sends
its commands by HTTP, each to any instance. An instance pushes events only to the
sockets in its own hub; Redis pub/sub carries events between instances. A separate
notification service subscribes to the same channel and pushes to users who are offline.

| Component | State | Operations | Hard because | Correct when |
|---|---|---|---|---|
| WebSocket hub (`H/ws.go`) | clients and limiter per user, bounded send queue, closed flag | register, remove, enqueue-or-drop, closeWith, CloseAll, DisconnectUser, three goroutines per socket | unsynchronised check and send, four closers, full queues | streams have no gaps, closed clients go, tabs share one limiter, no panic |
| Presence (`H/presence.go`) | counter with TTL, hash of names, events channel | Connect, Refresh, Disconnect, snapshot, subscriber | several Redis commands per operation, many instances, crashes | who has no connection is not shown online, who has one is |
| Messages (`H/message_handlers.go`, `S/message_store.go`) | messages table, channel, subscriber per instance | send, delete, mark read, receive, replay on connect | publish order, resends, replay beside live pushes, lost subscriptions | no duplicates, nothing missed, nothing shown after deletion |
| Sessions (`H/auth_handlers.go`, `H/refresh_token.go`, `W/api`, `W/context/AuthContext.tsx`) | refresh tokens in Redis, tokens in two browser stores, a Web Lock, a shared promise | login, logout, refresh with rotation, tab opening | rotation in two commands, several tabs, logout beside refresh | one usable token per login, no tab thrown out, every call answered |
| Registration (`S/user_store.go`, `H/admin_handlers.go`, `S/admin_invite_store.go`) | invite codes, accounts | register, create and reset a code, expire codes of an erased user | concurrent transactions, locks, transaction time | one account per use, none burned for nobody |
| Accounts (`H/account_contact_handlers.go`, `S/contact_store.go`, `H/middleware.go`, `H/ws_ticket.go`, `H/ws_auth_middleware.go`) | the account's data, tickets, sessions | authenticated writes, erasure, ticket exchange | check and write apart, sessions on other instances | an erased account stays erased |
| Notifier (`N`) | handlers in flight, counters | receive, presence check, push token, retries, restart | lost events, retries, shutdown in backoff | each event once, none for ever |
| Web client conversation (`W/context/ChatContext.tsx`) | message list with optimistic entries | live event, page, send, retry, delete | every operation awaits in its middle | each message shown once, failures shown as failures |
| Web client socket (`W/hooks/useWebSocket.ts`) | two refs, timers, sockets | connect, reconnect, cleanup | awaits a ticket, stale closures | one socket, none after logout, always back |
| End-to-end keys (`W/lib/crypto.ts`, `W/api/keys.ts`, `W/context/ChatContext.tsx`, `H/key_handlers.go`) | key pair per browser and account, public key, shared-key cache per tab | generate, upload, fetch, derive, key_changed, wipe at logout | several tabs, five awaits in one function, pushes that overtake it | no tab keeps a secret its peer cannot have |
| Rate limiting (`H/ratelimit.go`, `H/middleware_*_ratelimit.go`) | a bucket and a last-used time per key | allow, refuse, evict | the clock is read before the mutex is taken; eviction resets a bucket | no key gets more than its budget |
| Server process (`cmd/server/main.go`) | subscriber loops | start, restart a subscriber, shut down | shutdown does not wait for WebSocket handlers | see Messaging, WsHub, Presence |
| JWT, routing, migrations, metrics, screens, desktop client, deployment | little or none | | | not modelled, see the end |

`PROJECT.json` lists the same components with their source files, the hazards at the
line where each bites, and for every definition of a module the lines it stands for.

## Modules

Each component has a module, an `MC` module with the constants TLC needs, one
`.cfg` per run, and proofs: `<Component>Proofs`, except that `PresenceProofs` is also about Notifier, which reads what Presence
writes, and `WebClientProofs` is about the three modules of the web client. Modules that share a module of proofs share their names too, so Notifier,
KeyExchange and ChatClient call their specifications `NotifierSpec`, `KeySpec` and `ChatSpec`, and so on. A definition named
`Mutant...` stands directly before the definition it is a faulty variant of; no specification uses it:
they show what a plausible bug would look like to the properties.

**WsHub** - one hub. `hpc`, `rpc`, `wpc` are where the handler, the readPump and the
writePump of a connection are. A registry operation under the hub's mutex is one step;
what follows an unlock is its own. `enqueueDropSlow` is two steps, the check of
`closed` and the send, and `closeWith` three. Frames are numbers, so that a gap in a stream can
be seen; the token bucket is a free answer of `Allow`.

**Presence** - one user's connections on several instances and one follower. A Redis command is a
step. `Faults` names which commands may fail; `faults` remembers which lasting ones did.

**Messaging** - the table, the requests, the channel, one subscriber per instance and the
connections. The SQL statement of a request, its publish and each push are steps. A publish may fail (the request
is then `"lost"`), and so may a load, a replay and a subscription. A push reaches a connection's frames at once; the queue is WsHub's subject.

**Sessions** - one browser. Its tabs, its calls that meet a 401, the refresh handler they
post to, login and logout. A JavaScript task between two awaits is a step, and so is a Redis
command. A tab may close or reload at any await (`LeaveTab`): the browser frees its Web Lock, its calls end without their
catch blocks (`"left"`, or `"lost"` if a refresh was posted), and the handler of a lost call goes on, or gives up when it notices
(`HandlerGivesUp`). What `localStorage` holds stays, so another tab, or the same one, may post the same token while that handler runs.
`family` records the login a token descends from.

**ChatClient** - the list of one conversation, with the server reduced to the table. An insert is two steps, since
a BIGSERIAL id is drawn (`seq`, `drawn`) before its row is committed; a page may read the table in between. The event of a committed row is in
`unsent` until a goroutine has published it and a subscriber has pushed it (`PushEvent`), in any order, or it is lost (`LoseEvent`); a replay may fail too.
`begun`, `dropped` and `untold` remember that a list was begun by something other than a page, what a page took out of it, and the messages that no event,
replay or page has brought to the client. Sorting and filtering are written with `Nth`, the n-th smallest member
of a set of numbers, so that lemmas about them can be proved.

**Registration** - transactions of `RegisterWithInvite` and `DeleteAccountGDPR`, a statement per
step, with the row lock of the code, the unique index on usernames (an insert waits for an undecided
row) and PostgreSQL's deadlock detection. `NOW()` is the time at which a transaction began. A request of the administrator is let in by
`AuthMiddleware`, which reads the account, and `AdminOnly` (`AdminAsks`, `allowed`), and writes in a later step (`AdminCreate`, `AdminReset`), whatever has
become of the account by then.
**Membership** is what registration promises, with joining, leaving, asking for a code, issuing and resetting as single steps: only a member called
Admin asks, and codes are issued and reset only for who asked. Registration implements it (`ActsAtomically`), reading `created` as the codes that exist, the
names of live accounts as the members and `allowed` as what was asked.

**Accounts** - one account. A request is its check and its write; erasure is its
checks, its SELECT, its transaction and the eviction; a WebSocket request is
redeeming a ticket (or a Bearer token), the liveness check and the registration in the hub.

**Notifier** - the publications of `message.created` and one handler for each that is received. Each remote
call of a handler is a step and may fail.

**WebSocketHook** - one tab. `waiting` are the calls of `connect` that await a ticket,
`ws` and `reconnTimer` are the refs, `sock` the sockets that exist. `overlap` remembers that a
connect was overtaken while it waited.

**KeyExchange** - two users who are contacts, their tabs and browsers. Key pairs are numbers; a shared secret is the pair of keys it was
derived from. `getSharedKey` and `publishKey` are cut at their awaits; IndexedDB and `localStorage` belong to the browser, the cache to the
tab. `late` marks a secret cached by a call that an eviction overtook. **WebClient** declares what the three modules of the web client have in common, the
model value `None`.

**Limiter** - one `KeyedLimiter`. A request reads the clock, waits for the mutex (at most `MaxWait` ticks), evicts what is old, and takes a
token or is refused; buckets fill when they are used, as in `rate.Limiter`. **TokenBuckets** is what it promises: one
permanent bucket per key, with no entries and no times. Limiter implements it (`ActsAsTokenBuckets`), reading a missing entry as a full bucket.

The modules overlap where the components meet, and say so: a push in Messaging is an enqueue in WsHub, the
`Register` of Messaging is `AddClient` of WsHub and of Accounts, presence is a
flag in Notifier. They are not composed into one specification: the products are
out of reach, and each hand-over is one operation.

## What the runs show

| Run | Shows |
|---|---|
| `WsHub_single` | one connection with snapshot, replay and typing frames: its stream has no gap (`WireHasNoGap`), as long as it is open it has been given everything (`OpenClientIsComplete`), and a client that anybody closed leaves the hub with all its goroutines (`ClosedClientGoes`) |
| `Presence` | a user whose connections are all gone is not listed (`NoGhostOnline`), was announced offline last (`LastEventIsOffline`) and is not shown online by a follower (`FollowerSeesOffline`), as long as no crash or failing command of the named kinds came in between |
| `Messaging` | resends answer with the same message (`IdempotentSend`), only the two parties are told (`OnlyParticipantsAreTold`), a subscriber pushes no text after the deletion (`NoTextPushedAfterDeletion`), in the behaviours without a fault replay and live pushes leave no hole (`CatchUpMissesNothing`), and what is published reaches every registered connection of both parties, the sender's own included, unless the publish failed, or that connection's instance lost its subscription or a load (`PublishedReachesEveryone`) |
| `Sessions` | a login has at most one refresh token besides those issued to a tab that had left, and the browser holds none of these (`OneLiveTokenPerLogin`); without a failure or a logout a refresh is refused only after a tab left before it heard of its new token (`SessionSurvives`); every call ends, also when the tab that has the lock leaves (`EveryCallEnds`) |
| `ChatClient` | a peer's message is shown once (`PeerMessageShownOnce`), an entry that looks pending is being sent (`PendingIsBeingSent`), a text is stored twice only after a lost answer (`StoredOnceUnlessAnswerLost`), and with all pages read the list lacks no message of the peer that an event or a replay has brought or a page could see, although ids commit out of order and events come late or never (`NoGapInHistory`) |
| `Registration` | one account per use of a code (`OneAccountPerUse`), no code burned without an account (`BurnedMeansAdmitted`), unique names (`NamesUnique`), an expired code admits only after an erasure moved its expiry (`OnlyErasureRevives`), every transaction ends (`EveryTransactionEnds`), and the interleaved statements amount to the atomic steps of Membership, the administrator's writes to requests that were let in while there was an administrator (`ActsAtomically`) |
| `Accounts` | a ticket admits one connection (`TicketAdmitsOnce`), one of two erasures erases (`ErasedOnce`), and after what was in flight has ended nothing about the account comes back (`ErasureSettles`) |
| `Notifier` | the counters account for every handler and each event is pushed at most once (`EveryEventCounted`), every handler ends (`EveryEventEnds`), an offline user with a token is notified unless every attempt fails (`OfflineIsNotified`) |
| `WebSocketHook` | one socket, none and no timer after logout, unless a connect was overtaken (`OneSocketUnlessOvertaken`), and a tab that lost its socket gets one again (`Reconnects`) |
| `KeyExchange` | a tab whose cached secret was made useless by another tab's new key is about to be told, or its peer is about to announce its own key and so tell it (`StaleKeyIsNoticed`) |
| `Limiter` | evictions and stale clock readings give no key more than its budget (`WithinBudget`), and the limiter cannot be told from buckets that are never evicted (`ActsAsTokenBuckets`) |
| `WsHub_panic` | a violation: a client is closed between `closed.Load()` and the send of `enqueueDropSlow`, so the send panics. `PROJECT.json` quotes the comment it contradicts |

The type invariants of WsHub, Sessions, ChatClient, Notifier and KeyExchange are checked by their runs and proved, the others are proved. Most
also say which states the control points allow together (a queue within its bound, a token
issued before it is live, an entry that failed and has no id, ...).

### Where the code departs from what is said of it

The conditions in the properties are not caution: each is there because the
code does otherwise without it. TLC gives the behaviour when the condition is removed.

- *Snapshot and replay longer than the queue* (`H/ws.go:342`): they are enqueued before the writePump starts, so
  the client that asked is closed as slow. `OpenClientIsComplete` speaks of clients that stay open.
- *Connect between DECR and DEL* (`H/presence.go:66`): the last Disconnect then erases the counter and the name of a user
  who is connected. The presence properties speak of users without connections only.
- *Stale snapshot* (`H/ws.go:328`): an offline event that is delivered between reading and sending the snapshot is
  overwritten by it. `FollowerSeesOffline` requires `~raced`.
- *Crash and shutdown* (`H/presence.go:22`, `cmd/server/main.go:216`): only the counter has a TTL; the field in `presence:names` stays.
  A graceful shutdown is no better: `srv.Shutdown` does not wait for hijacked connections, so main may return before their
  Disconnects have run. `NoGhostOnline` excludes both.
- *Read receipts* (`H/message_handlers.go:374`) are pushed on the instance that serves the reader and not published.
  `PublishedReachesEveryone` is about sends and deletes.
- *Message deleted during a replay* (`H/ws.go:339`): it is pushed with its text after its deletion.
  `NoTextPushedAfterDeletion` excludes frames of the replay.
- *A failed publish or load* (`H/message_handlers.go:239`, `:132`) is logged and the event is gone; Redis keeps nothing for a subscriber that is down.
  `PublishedReachesEveryone` names these (`Lost`) for the connection they concern, and for no other.
- *A tab that closes or reloads during a refresh* (`W/api/auth.ts:49`): the server has rotated, or is about to, and nobody stores the answer. The browser
  frees the Web Lock, `localStorage` keeps the deleted token, and the next mount effect posts it and is refused: the user has to log in again. `SessionSurvives`
  names this as the only such case (`Unheard`). If the next refresh is posted before the first handler has deleted the token, both handlers answer, and the
  token issued to the tab that has gone stays in Redis until it expires; `OneLiveTokenPerLogin` counts the others (`Stray`).
- *The refresh of an opening tab* (`W/context/AuthContext.tsx:41`) does not go through `tryRefresh`,
  so two refreshes of one tab may run; that the lock keeps them apart is `SessionSurvives`.
- *Logout beside a refresh* (`W/api/auth.ts:76`) can leave the token the refresh obtained; `SessionSurvives` and
  `OneLiveTokenPerLogin` claim nothing about it being revoked.
- *Optimistic entries and the first page* (`W/context/ChatContext.tsx:226`): the page replaces the list, and an own message may vanish
  or be shown twice. `PeerMessageShownOnce` is about the peer's messages.
- *Retry* (`W/context/ChatContext.tsx:324`) takes a new `clientMessageId`, so the server does not recognise it.
  `StoredOnceUnlessAnswerLost` has the condition in its name.
- *Live message before a conversation is opened* (`W/context/ChatContext.tsx:223`): its history is then not fetched.
  `NoGapInHistory` excludes it (`begun`).
- *Pages and late commits* (`S/message_store.go:97`): the server's README says of the cursor "stable under concurrent inserts, no skipped
  rows"; a page can pass an id whose row commits later. The live event, or the replay after a reconnect, brings that message; when the publish or the
  load fails, nothing does until the next reconnect, and the list has a gap. `NoGapInHistory` names what none of them has brought (`untold`). What they
  brought is lost again when a page replaces the list (`W/context/ChatContext.tsx:226`, `:381`); `NoGapInHistory` excludes it (`dropped`).
- *Own key* (`W/context/ChatContext.tsx:98`): `GetKeyHandler` answers 404 to everybody who is not a contact of the owner, the owner included, so the
  comparison with the server's copy never succeeds, and every cache miss uploads and announces the key. `StaleKeyIsNoticed` rests
  on it: it is this announcement that evicts the stale secrets of others.
- *Self-healing* (`W/context/ChatContext.tsx:91`): an upload that fails is logged, the secret is cached all the same, and the code
  that would try again is not reached while the cache hits. `StaleKeyIsNoticed` excludes it (`lost`), and a `key_changed` that does not arrive: it is
  pushed on the instance that served the upload only.
- *Eviction during a derivation* (`W/context/ChatContext.tsx:115`): the call in progress caches the old secret after the eviction. Excluded (`late`).
- *Unavailable keys* (`W/api/keys.ts:29`): every error looks like "no key", and a message is then sent without encryption.
- *Logout with two accounts in one browser* (`W/api/auth.ts:81`): the key pair that is wiped is that of the account named last in `localStorage`.
- *Budgets* (`H/router.go:39`) are kept per process and per limiter; behind a load balancer a key has one budget per instance.
- *Erasure and expired codes* (`S/contact_store.go:106`): step 3 sets `expires_at` to now for expired codes too, and a registration that began
  earlier is admitted. `OnlyErasureRevives` names this as the only way.
- *Resends and notifications* (`H/message_handlers.go:231`): a resend publishes again and is pushed again;
  `EveryEventCounted` counts per event. `NotificationsSkipped`, described as counting recipients who were online, also counts those without a token.
- *Logout while a ticket is awaited* (`W/hooks/useWebSocket.ts:44`, `:62`): the socket is created after the cleanup. `OneSocketUnlessOvertaken`
  excludes it.
- *A tab opened while logged in* (`W/hooks/useWebSocket.ts:30`) has no token when the effect runs, and nothing runs it again.
  `Reconnects` starts with a connect that found a token.
- *Admin requests and erasure* (`H/middleware.go:70`, `S/admin_invite_store.go:73`): the account is read before the handler runs and not again, so the admin's
  request may create or reset a code after the admin's account was erased, and such a code is not among those the erasure expired. Membership says so.
- *Writes in flight during an erasure* (`S/user_store.go:194`) and *sessions on other instances* (`H/account_contact_handlers.go:76`) survive it.
  `ErasureSettles` begins when nothing is in flight, and does not say that sessions end.

### Bounds

Every hazard needs two or three actors: the runs have two connections (one in WsHub, see below), registrations, erasures, tabs, calls or
requests, three connections in Presence, and two instances wherever instances matter. Queues hold one or two frames, so that they
fill; pages hold one message, so that history has several; there are three delivery
attempts as in the code. In `WsHub_single` typing frames go to a second user without connections, so that the
readPump's path is taken without a second set of pumps; what two tabs share, the limiter, is proved. Messaging, Sessions and ChatClient have one kind of fault in a
behaviour (`MaxFaults`, `MaxChatFaults`), as often as it likes, Presence all kinds. In Messaging the sender alice is connected to one instance and the
recipient bob to the other; carol, who is not connected, may write to bob, so that alice is a bystander too. The two requests are
interchangeable, and the constraint `InOrder` keeps one order of each pair: the first is alice's. In Sessions one tab leaves once (`MaxLeaves`): enough for a handler
whose client has gone beside the refresh of another tab or of the reloaded one; three tokens are enough for both to answer. In ChatClient
one row is deleted (`MaxDeletes`), by either user and as often as requests for it overlap. In Registration the
administrator has one request under way at a time (`MaxAsked`), which may wait through an erasure. KeyExchange has two tabs of one user and one of the other, two calls under way
(`MaxCalls`) and one logout, with the login that may follow it: enough for two key pairs of one user. In Limiter the lifetime is the least that the
assumption allows (burst 2, wait 1, lifetime 3) and the clock runs long enough (5) for entries to be evicted and come back. Every remote call of
the notifier may fail. Counters that the code does not bound (`MaxId`, `MaxToken`, `MaxEvents`, `MaxLogins`, `MaxResets`,
`MaxTime`, `MaxDrops`, `MaxLogouts`, `MaxClock`, ...) are constants used in guards. Symmetry is used only over
identities that no definition tells apart and in no run with a liveness property. Deadlock is not
checked: with its requests served and its bounds used up, every model stops.

### Fairness

Weak fairness of the steps of goroutines, handlers and JavaScript tasks that can run:
Go's scheduler, the database and the event loop give it. The request timeout of
the HTTP stack makes an awaited call end, with success or not. Strong fairness is assumed
only for a call that waits for the Web Lock in Sessions, since the
lock is granted in the order of the requests. In Messaging only the publishing goroutines and the subscribers are assumed to go on: the property is about nothing
else. Registration assumes that PostgreSQL breaks a
deadlock. No fairness is assumed of users, admins, faults, ticks of the clock, or peers. In
WebSocketHook faults are bounded by `MaxDrops`: a server that refuses for ever keeps a
tab unconnected.

## What is proved

TLAPS checks these for every value of the constants that satisfies the modules' assumptions.

- `WsHubProofs`: `TypeCorrect`, `LimiterShared`, `NoGapOnTheWire`, `OpenClientComplete`. `SharedLimiter` alone is not inductive: removing the limiter with
  the last client is right only because a readPump that holds a limiter is still in the
  user's set. `LInv` adds `RegisteredWhileServed` and `PumpsAfterHandler`. The streams need `EInv`: as long as the
  writePump has not dropped anything, the events in a connection's queue continue those on its wire one by one (`Covers`), and while nobody has closed it they
  reach up to the event that the subscriber still owes it, or to the user's last event (`Reaches`). It uses that the subscriber serves one event at a
  time (`PushInv`), and that nobody knows a connection before `addClient` (`FreshInv`). The run has one connection; the theorems are about any number.
- `PresenceProofs`: `TypeCorrect`, `GhostFree`, `OfflineAnnounced`, `FollowerCorrected`. The invariant bounds the counter by the
  number of connections between INCR and DECR (`CountBound`), so the DECR that leaves none
  answers at most 0, and the listed name (`NamedIsOwned`) and the last "online" (`OnlineIsOwned`)
  always have a connection that will still remove or revoke them. It uses that the set of connections is finite. `FInv` adds the follower: while it shows the user
  online, or is about to because its snapshot lists the name, some connection will still revoke it or an event is in the channel (`FollowerIsCorrected`), and the last event
  there is the last one published (`LastIsPublished`).
- `MessagingProofs`: `TypeCorrect`, `DeletionIsFinal`, `SendIsIdempotent`, `ToldOnlyToParties`, `CatchUpComplete`. `DInv`: whatever announces a deletion, from
  a request over the channel and a subscriber's hand to a frame, is about a row that is deleted, rows stay deleted, and
  while a subscriber holds a text no connection of its instance has been told of its deletion (`TextInHandIsFresh`). `SInv` ties
  an answer to the row with the same sender and client id, of which there is one. `OInv` says of whoever is about
  to be told (receipts, the users a subscriber still has to serve, replays), and whoever has been, that they are a party of the row; rows never change (`RowsStand`). `CInv`, for behaviours without a fault: all
  subscribers are subscribed, a connection that is live has nothing left to replay, and whatever is due to a connection has been pushed to it, is in its
  replay, or is in a request, in its instance's queue or in its subscriber's hand.
- `RegistrationProofs`: `TypeCorrect`, `InviteIsSingleUse`, `NoBurnWithoutAccount`, `UsernamesUnique`, `RevivedOnlyByErasure`, `Implements`. Between its UPDATE and its
  end a registration holds the lock of its unused code (`Progress`), so each commit turns an
  unused code into a used one and the accounts a code admitted are its resets, plus one while it is
  used (`Counted`); names have one holder, committed or not (`OneHolder`). From the same invariant every commit is a `Join`
  or a `Leave` of Membership, `AdminAsks` is an `Ask` (the account it found is a member at that moment), the administrator's writes are its `Issue` and `Reset` for a request that
  was let in, or settle it without effect, and every other statement is a stutter. For expired codes `EInv` adds that one stays expired for a registration until an erasure that began later
  commits (`StaysExpired`), and that whoever got past the UPDATE with such a code met a revived one (`PassedOnlyRevived`).
- `SessionsProofs`: `TypeCorrect`, `OneTokenPerLogin`, `NoRefreshRefused`. A token is *known* unless it was issued to a tab that had left. The token in the
  store is the only known one of its login, and no handler of a call that is still there is about to issue another (`Sole`), except while the call that posted it has the
  lock (`ClientInv`, `RotationInv`, `OneKnown`). A handler whose tab has gone may work for the same token as a later call; what it issues nobody holds
  (`Answers`), so it does not count, and it cannot get into the store. A login under way has a family of its own (`LoginIsNew`). As long as nothing has failed, nobody has logged
  out and no exchange was left behind (`Untroubled`), the stored token is live or being exchanged by the holder of the lock, and whoever may refresh finds one
  (`SessionInv`). The assumption on the constants only says what kinds of value they are.
- `AccountsProofs`: `TypeCorrect`, `TicketUsedOnce`, `OneErases`, `ErasureIsFinal`. A ticket somebody came with is gone from
  Redis (`Redeemed`) and nothing stores it again; an erasure commits only while `deleted_at` is unset.
- `LimiterProofs`: `TypeCorrect`, `BudgetKept`, `Implements`. A bucket was last used at most `MaxWait` after the time in its entry,
  so one that is older than `Ttl >= Burst + MaxWait` has filled up (`EvictedIsFull`), and replacing it by a new one changes no level. The
  assumption is weak: `H/router.go` has 10 minutes beside bursts that refill in 2 seconds.
- `PresenceProofs`, on Notifier: `NotifierType`, `NotifierCounts`. The counters are compared with the number of handlers that returned, so a return must
  add one member to a finite set: an event is in the channel at most once (`QueuedOnce`), has no outcome before its handler returns (`OutcomeAtReturn`), and a handler in
  backoff has an attempt left (`AttemptLeft`), so that a push is one of `MaxAttempts`. The theorem holds for any finite set of events.
- `WebClientProofs`, on WebSocketHook: `TypeCorrect`, `OneSocket`. Without an overtaken call at most one of a waiting call, a
  current socket and a timer exists, and none when the hook is disabled (`OneInCharge`).
- `WebClientProofs`, on KeyExchange: `KeyTypes`, `OneSideOnly`, `StaleKeyNoticed`. That a stale secret is noticed is not inductive, and
  what makes it so says more about the protocol: unless an upload or a push was lost, of two users who write to each other *at most one side
  holds a secret* that nothing is about to evict (`OneSideHolds`). A call derives only after an upload, since `GET /keys/me` is a 404, and the
  upload tells every tab of the peer to evict. So if a tab holds a secret and the peer cannot have the same one, the peer has none, and will announce its key before it derives one.
- `WebClientProofs`, on ChatClient: `ChatTypes`, `ShownOnceAlways`, `PendingSent`, `StoredOnce`, `NoGap`, all from the invariant `ChatInv` (theorem `ChatInvariant`).
  - What `Sorted` and `Keep` return is proved without induction over lists: a non-empty set of numbers has a least member (`Least`, from
    `WFMin`), hence the n-th one exists, the n-th ones ascend and they exhaust the set (`NthExists`, `NthAscends`). Each action is then reduced to what it does
    to the set of entries (`Of`), to what the list has at most once (`Once`), and to its own operation (`Becomes`).
  - *Sends*: a text has one request, or is marked as failed, never both (`OneSender`); an unmarked entry has its request (`Pending`). As long as no answer is lost, a stored text is
    neither marked nor in a request that has not stored it (`StoredIsSettled`). So a retry, which needs the mark, sends what was not stored.
  - *History*: a message of the peer's is `Safe` if it is in the list, recorded as dropped, not brought by anything yet (`untold`), on the socket or being
    decrypted. A page that is requested starts where everything before it is safe, one that was read lacks only what is safe or lies beyond it
    (`PageMissesNothing`), and so does the list it ends in (`ListMissesNothing`). An id that commits after a page has passed it is safe from its
    commit on: it is `untold` until its event or a replay puts it on the socket (`UntoldAfter`), and if that never happens it stays so, which is the gap the property names. A
    page that shows it ends that too. For any page size.

Every inductive invariant was checked by TLC on the instance of its component's run before it was proved, that of Sessions also with two logins and four tokens.

Only model-checked:

- everything under fairness (`ClosedClientGoes`, `PublishedReachesEveryone`, `EveryCallEnds`, `EveryTransactionEnds`, `EveryEventEnds`, `OfflineIsNotified`,
  `Reconnects`): TLAPS 1.4.5 does not reason about ENABLED;

All invariants and all action properties that the runs check are also proved, except the one that
`WsHub_panic` refutes. The proofs cite the library's theorems on finite sets, functions, sequences and well-founded orders.

## Not modelled

- The cryptography, JWT parsing, CORS, body limits, request validation, health checks: no state, or a library's.
- Pages by `beforeId`, which no client of the repository asks for, and start-up, which is over before there is a client.
- Typing indicators and unread counters of the web client: display state that nothing else reads.
- Lists and searches that only read; screens; metrics, tracing and error reports; migrations; deployment.
- The desktop client, an older client of the same API.
- The browser fallback for refreshes without Web Locks.

## Plan

Done, in this order of importance: WsHub, Presence, Messaging, Sessions, ChatClient, Registration, Accounts, Notifier,
WebSocketHook, KeyExchange, Limiter, the two refinements, and proofs of every safety property.

What would come next: an abstract *Delivery* specification that Messaging refines (each message is pushed to each party's connection
before its deletion and never after), a property of read receipts on the reader's instance, and unread counters in ChatClient.
