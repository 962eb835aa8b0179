----------------------------- MODULE ChatClient -----------------------------
(***************************************************************************)
(* One conversation in the web client: the message list of ChatProvider     *)
(* (context/ChatContext.tsx) for one peer, fed by the WebSocket, by pages of *)
(* history and by the user's own sends, retries and deletes, all of which    *)
(* await something before they update the list.                              *)
(*                                                                         *)
(* A step is what runs between two awaits.  The server is the table of the   *)
(* conversation: a soft delete and a page read are one statement each; an    *)
(* insert takes its id from the sequence before it commits, so rows appear   *)
(* out of the order of their ids.  Its event is published by a goroutine     *)
(* afterwards, so events come in any order, or never: a failed publish and a *)
(* message the subscriber cannot load are only logged.                       *)
(* Texts are numbered; encryption is left out, so tryDecrypt is only the     *)
(* wait it causes.  One peer suffices: lists of different peers share        *)
(* nothing.  A send's optimistic id is the negated number of its text        *)
(* (optimisticIdSeq counts down from -1).                                    *)
(***************************************************************************)
EXTENDS Integers, Sequences, FiniteSets, SequencesExt, WebClient

CONSTANTS
    Ops,            \* asynchronous operations of the client
    MaxId,          \* bound: ids the server hands out
    MaxTexts,       \* bound: texts the user composes
    MaxDeletes,     \* bound: deletes begin while fewer rows are deleted
    MaxReconnects,  \* bound: reconnects of the WebSocket
    PageSize,       \* messages per page of history
    ChatFaults,     \* kinds of fault the environment injects
    MaxChatFaults   \* bound: kinds of fault in one behaviour

Ids               == 1 .. MaxId
Texts             == 1 .. MaxTexts
Entries           == [id : (-MaxTexts) .. MaxId, failed : BOOLEAN]
ChatFaultKinds    == {"refused", "answer", "event", "replay"}

ASSUME ChatClientAssumption ==
    /\ MaxId \in Nat /\ MaxTexts \in Nat /\ MaxDeletes \in Nat
    /\ MaxReconnects \in Nat /\ MaxChatFaults \in Nat
    /\ PageSize \in Nat \ {0}
    /\ ChatFaults \subseteq ChatFaultKinds
    /\ None \notin Nat /\ None \notin Seq(Entries)

VARIABLES
    row,         \* per id: 0 for a message of the peer, the text of an own one, or None
    deleted,     \* ids with deleted_at set
    seq,         \* next value of the id sequence
    drawn,       \* ids of the peer's inserts that have not committed
    unsent,      \* events whose rows are committed, not yet pushed to the WebSocket
    wire,        \* events of the WebSocket not yet handled
    reconnects,  \* number of reconnects so far
    known,       \* loadContacts has delivered the peer
    active,      \* the peer is the active one
    list,        \* messages[peer]: entries with an id and the failed mark; or None
    hasMore,     \* hasMore[peer]
    last,        \* lastMsgId[peer]
    decrypting,  \* per id: calls of onMessage that await tryDecrypt
    texts,       \* number of texts composed so far
    op,          \* per operation: what it does, where it is, what it has read
    faults,      \* kinds of fault that have happened
    begun,       \* history: something else than a page began the list
    dropped,     \* history: messages a page that replaced the list took out of it
    untold       \* history: messages of the peer that no event, replay or page has brought

table == <<row, deleted, seq, drawn>>
socket == <<unsent, wire, reconnects>>
page  == <<hasMore, last>>
past  == <<begun, dropped, untold>>
chatVars  == <<table, socket, known, active, list, page, decrypting, texts, op, faults, past>>

NoOp == [kind |-> "none", pc |-> "idle", target |-> 0, id |-> 0, raw |-> <<>>, more |-> FALSE]

ChatInit ==
    /\ row = [id \in Ids |-> None] /\ deleted = {} /\ seq = 1 /\ drawn = {}
    /\ unsent = {} /\ wire = <<>> /\ reconnects = 0 /\ known = FALSE /\ active = FALSE
    /\ list = None /\ hasMore = FALSE /\ last = 0 /\ decrypting = [id \in Ids |-> 0]
    /\ texts = 0 /\ op = [o \in Ops |-> NoOp] /\ faults = {}
    /\ begun = FALSE /\ dropped = {} /\ untold = {}

Fails(k) ==
    /\ k \in ChatFaults /\ (k \in faults \/ Cardinality(faults) < MaxChatFaults)
    /\ faults' = faults \cup {k}
Works    == UNCHANGED faults

Event(type, id) == [type |-> type, id |-> id]

Inserted  == {id \in Ids : row[id] # None}
Entry(id) == [id |-> id, failed |-> FALSE]
Listed    == IF list = None THEN <<>> ELSE list
Holds(l, id) == \E j \in 1 .. Len(l) : l[j].id = id

\* The n-th member of a set of numbers in ascending order, all of them, and what a
\* list keeps at some of its positions.
Nth(S, n)      == CHOOSE i \in S : Cardinality({k \in S : k <= i}) = n
Sorted(S)      == [n \in 1 .. Cardinality(S) |-> Nth(S, n)]
Keep(l, S)     == [n \in 1 .. Cardinality(S) |-> l[Nth(S, n)]]
Without(l, id) == Keep(l, {j \in 1 .. Len(l) : l[j].id # id})

-----------------------------------------------------------------------------
(* The peer, and the server's events *)

\* nextval of the peer's INSERT ...
PeerDraw ==
    /\ seq \in Ids
    /\ seq' = seq + 1
    /\ drawn' = drawn \cup {seq}
    /\ UNCHANGED <<row, deleted, socket, known, active, list, page, decrypting, texts, op, faults, past>>

\* ... and its commit; then a goroutine has message.created to publish.
PeerSend ==
    \E id \in drawn :
        /\ row' = [row EXCEPT ![id] = 0]
        /\ drawn' = drawn \ {id}
        /\ unsent' = unsent \cup {Event("message", id)}
        /\ untold' = untold \cup {id}
        /\ UNCHANGED <<deleted, seq, wire, reconnects, known, active, list, page, decrypting, texts,
                       op, faults, begun, dropped>>

\* The bound on deletes; deleting once more what is deleted is always possible.
MayDelete(id) == id \in deleted \/ Cardinality(deleted) < MaxDeletes

PeerDelete ==
    \E id \in Inserted \ deleted :
        /\ row[id] = 0 /\ MayDelete(id)
        /\ deleted' = deleted \cup {id}
        /\ unsent' = unsent \cup {Event("deleted", id)}
        /\ UNCHANGED <<row, seq, drawn, wire, reconnects, known, active, list, page, decrypting,
                       texts, op, faults, past>>

\* An event is published, and a subscriber pushes it ...
PushEvent ==
    \E e \in unsent :
        /\ unsent' = unsent \ {e}
        /\ wire' = Append(wire, e)
        /\ untold' = IF e.type = "message" THEN untold \ {e.id} ELSE untold
        /\ UNCHANGED <<table, reconnects, known, active, list, page, decrypting, texts, op, faults,
                       begun, dropped>>

\* ... or the publish fails, or the subscriber cannot load the message.
LoseEvent ==
    \E e \in unsent :
        /\ Fails("event")
        /\ unsent' = unsent \ {e}
        /\ UNCHANGED <<table, wire, reconnects, known, active, list, page, decrypting, texts, op,
                       past>>

\* useWebSocket connects again without a sinceId: what was on the old socket is
\* lost and every message to the user that is not deleted is replayed, or none if
\* the server cannot read them.
Replayed == Sorted({id \in Inserted \ deleted : row[id] = 0})
OnWire(id) == \E j \in 1 .. Len(wire) : wire[j] = Event("message", id)
Reconnect ==
    /\ reconnects < MaxReconnects
    /\ reconnects' = reconnects + 1
    /\ \/ /\ Works
          /\ wire' = [j \in 1 .. Len(Replayed) |-> Event("message", Replayed[j])]
          /\ untold' = {}
       \/ /\ Fails("replay")
          /\ wire' = <<>>
          /\ untold' = untold \cup {id \in Ids : OnWire(id) /\ ~Holds(Listed, id)}
    /\ UNCHANGED <<table, unsent, known, active, list, page, decrypting, texts, op, begun, dropped>>

\* onMessage, up to tryDecrypt: a message of an unknown sender is dropped.
OnMessage ==
    /\ wire # <<>> /\ Head(wire).type = "message"
    /\ wire' = Tail(wire)
    /\ decrypting' = IF known THEN [decrypting EXCEPT ![Head(wire).id] = @ + 1] ELSE decrypting
    /\ UNCHANGED <<table, unsent, reconnects, known, active, list, page, texts, op, faults, past>>

\* A list that something else than a page has begun looks loaded to selectPeer.
Begins == begun' = (begun \/ list = None) /\ UNCHANGED <<dropped, untold>>

\* The rest of onMessage.
MutantSkipOld(id) == IF id <= last \/ Holds(Listed, id) THEN list ELSE Append(Listed, Entry(id))
MutantAppendAlways(id) == Append(Listed, Entry(id))
AfterMessage(id) == IF Holds(Listed, id) THEN list ELSE Append(Listed, Entry(id))
Decrypted(id) ==
    /\ decrypting[id] > 0
    /\ decrypting' = [decrypting EXCEPT ![id] = @ - 1]
    /\ list' = AfterMessage(id)
    /\ Begins
    /\ UNCHANGED <<table, socket, known, active, page, texts, op, faults>>

OnMessageDeleted ==
    /\ wire # <<>> /\ Head(wire).type = "deleted"
    /\ wire' = Tail(wire)
    /\ list' = IF list = None THEN None ELSE Without(list, Head(wire).id)
    /\ UNCHANGED <<table, unsent, reconnects, known, active, page, decrypting, texts, op, faults, past>>

LoadContacts ==
    /\ ~known
    /\ known' = TRUE
    /\ UNCHANGED <<table, socket, active, list, page, decrypting, texts, op, faults, past>>

-----------------------------------------------------------------------------
(* Reading history *)

\* selectPeer: the first page is fetched unless there is a list already.
SelectPeer(o) ==
    /\ known /\ op[o].pc = "idle"
    /\ active' = TRUE
    /\ op' = IF list # None THEN op
             ELSE [op EXCEPT ![o] = [NoOp EXCEPT !.kind = "select", !.pc = "get"]]
    /\ UNCHANGED <<table, socket, known, list, page, decrypting, texts, faults, past>>

\* loadMoreMessages: the page after the last one; the button is disabled meanwhile.
LoadMore(o) ==
    /\ active /\ hasMore /\ op[o].pc = "idle"
    /\ \A q \in Ops : op[q].kind # "more"
    /\ op' = [op EXCEPT ![o] = [NoOp EXCEPT !.kind = "more", !.pc = "get", !.target = last]]
    /\ UNCHANGED <<table, socket, known, active, list, page, decrypting, texts, faults, past>>

\* ListConversationSince(target), with deleted messages; or the request fails.
GetPage(o) ==
    LET rows == Sorted({id \in Inserted : id > op[o].target}) IN
    /\ op[o].pc = "get"
    /\ \/ /\ Works
          /\ op' = [op EXCEPT ![o].pc = "got", ![o].more = Len(rows) > PageSize,
                              ![o].raw = SubSeq(rows, 1, IF Len(rows) > PageSize
                                                         THEN PageSize ELSE Len(rows))]
       \/ Fails("refused") /\ op' = [op EXCEPT ![o] = NoOp]
    /\ UNCHANGED <<table, socket, known, active, list, page, decrypting, texts, past>>

PageEntries(o) == [j \in 1 .. Len(op[o].raw) |-> Entry(op[o].raw[j])]
Fresh(o) == Keep(PageEntries(o), {j \in 1 .. Len(op[o].raw) : ~Holds(Listed, op[o].raw[j])})

\* History: the client has what is in the page.
Brings(o) == untold' = untold \ ToSet(op[o].raw)

\* The page replaces the list (selectPeer, and deleteMessage's restore) ...
ShowFirstPage(o) ==
    /\ op[o].pc = "got" /\ op[o].kind \in {"select", "delete"}
    /\ list' = PageEntries(o)
    /\ dropped' = dropped \cup {id \in Ids : Holds(Listed, id) /\ ~Holds(PageEntries(o), id)}
    /\ IF op[o].kind = "select"
       THEN /\ hasMore' = op[o].more
            /\ last' = IF op[o].raw = <<>> THEN last ELSE Last(op[o].raw)
            /\ begun' = FALSE
       ELSE UNCHANGED <<page, begun>>
    /\ Brings(o)
    /\ op' = [op EXCEPT ![o] = NoOp]
    /\ UNCHANGED <<table, socket, known, active, decrypting, texts, faults>>

\* ... or what is new of it is appended (loadMoreMessages).
ShowNextPage(o) ==
    /\ op[o].pc = "got" /\ op[o].kind = "more"
    /\ IF op[o].raw = <<>> THEN UNCHANGED <<list, page>>
       ELSE /\ list' = IF Fresh(o) = <<>> THEN list ELSE Listed \o Fresh(o)
            /\ hasMore' = op[o].more
            /\ last' = Last(op[o].raw)
    /\ Brings(o)
    /\ op' = [op EXCEPT ![o] = NoOp]
    /\ UNCHANGED <<table, socket, known, active, decrypting, texts, faults, begun, dropped>>

-----------------------------------------------------------------------------
(* Sending *)

\* sendMessage: the optimistic entry, then the shared key and the POST.
Send(o) ==
    /\ active /\ op[o].pc = "idle" /\ texts < MaxTexts
    /\ texts' = texts + 1
    /\ list' = Append(Listed, Entry(-(texts + 1)))
    /\ op' = [op EXCEPT ![o] = [NoOp EXCEPT !.kind = "send", !.pc = "post", !.target = -(texts + 1)]]
    /\ Begins
    /\ UNCHANGED <<table, socket, known, active, page, decrypting, faults>>

MutantMarkEvery(l, id, f) == [j \in 1 .. Len(l) |-> [l[j] EXCEPT !.failed = f]]
MarkFailed(l, id, f) ==
    [j \in 1 .. Len(l) |-> IF l[j].id = id THEN [l[j] EXCEPT !.failed = f] ELSE l[j]]

\* retryMessage, on an entry marked failed.
MutantRetryPending(o) ==
    /\ active /\ op[o].pc = "idle"
    /\ \E j \in 1 .. Len(Listed) :
          /\ list[j].id < 0
          /\ list' = MarkFailed(list, list[j].id, FALSE)
          /\ op' = [op EXCEPT ![o] = [NoOp EXCEPT !.kind = "send", !.pc = "post", !.target = list[j].id]]
    /\ UNCHANGED <<table, socket, known, active, page, decrypting, texts, faults, past>>
Retry(o) ==
    /\ active /\ op[o].pc = "idle"
    /\ \E j \in 1 .. Len(Listed) :
          /\ list[j].failed
          /\ list' = MarkFailed(list, list[j].id, FALSE)
          /\ op' = [op EXCEPT ![o] = [NoOp EXCEPT !.kind = "send", !.pc = "post", !.target = list[j].id]]
    /\ UNCHANGED <<table, socket, known, active, page, decrypting, texts, faults, past>>

\* POST /messages under a new clientMessageId, so a new row each time.  The request
\* is refused, or gets an id ...
Post(o) ==
    /\ op[o].pc = "post"
    /\ \/ /\ Fails("refused")
          /\ op' = [op EXCEPT ![o].pc = "failed"] /\ UNCHANGED seq
       \/ /\ seq \in Ids /\ Works
          /\ seq' = seq + 1
          /\ op' = [op EXCEPT ![o].pc = "insert", ![o].id = seq]
    /\ UNCHANGED <<row, deleted, drawn, socket, known, active, list, page, decrypting, texts, past>>

\* ... and is stored and answered, or stored and the answer is lost.
Insert(o) ==
    /\ op[o].pc = "insert"
    /\ row' = [row EXCEPT ![op[o].id] = -op[o].target]
    /\ \/ Works /\ op' = [op EXCEPT ![o].pc = "posted"]
       \/ Fails("answer") /\ op' = [op EXCEPT ![o].pc = "failed"]
    /\ UNCHANGED <<deleted, seq, drawn, socket, known, active, list, page, decrypting, texts, past>>

\* The optimistic entry becomes the saved message; if it is gone, nothing does.
Confirm(o) ==
    /\ op[o].pc = "posted"
    /\ list' = [j \in 1 .. Len(Listed) |->
                  IF Listed[j].id = op[o].target THEN Entry(op[o].id) ELSE Listed[j]]
    /\ op' = [op EXCEPT ![o] = NoOp]
    /\ UNCHANGED <<table, socket, known, active, page, decrypting, texts, faults, past>>

MutantNothingOnFailure(o) == Listed
AfterFailure(o) == MarkFailed(Listed, op[o].target, TRUE)
SendFailed(o) ==
    /\ op[o].pc = "failed"
    /\ list' = AfterFailure(o)
    /\ op' = [op EXCEPT ![o] = NoOp]
    /\ UNCHANGED <<table, socket, known, active, page, decrypting, texts, faults, past>>

-----------------------------------------------------------------------------
(* Deleting *)

\* deleteMessage: the entry goes at once.
Delete(o) ==
    /\ active /\ op[o].pc = "idle"
    /\ \E j \in 1 .. Len(Listed) :
          /\ list[j].id > 0 /\ row[list[j].id] # 0 /\ MayDelete(list[j].id)
          /\ list' = Without(list, list[j].id)
          /\ op' = [op EXCEPT ![o] = [NoOp EXCEPT !.kind = "delete", !.pc = "del", !.id = list[j].id]]
    /\ UNCHANGED <<table, socket, known, active, page, decrypting, texts, faults, past>>

\* DELETE /messages/{id}; on an error (also 404) the first page is fetched again.
DeleteRow(o) ==
    LET id == op[o].id
        restore == [op EXCEPT ![o].pc = "get"]
    IN
    /\ op[o].pc = "del"
    /\ \/ /\ Works /\ id \notin deleted
          /\ deleted' = deleted \cup {id}
          /\ unsent' = unsent \cup {Event("deleted", id)}
          /\ op' = [op EXCEPT ![o] = NoOp]
       \/ Works /\ id \in deleted /\ op' = restore /\ UNCHANGED <<deleted, unsent>>
       \/ Fails("refused") /\ op' = restore /\ UNCHANGED <<deleted, unsent>>
    /\ UNCHANGED <<row, seq, drawn, wire, reconnects, known, active, list, page, decrypting, texts, past>>

-----------------------------------------------------------------------------
OpStep(o) ==
    \/ GetPage(o) \/ ShowFirstPage(o) \/ ShowNextPage(o)
    \/ Post(o) \/ Insert(o) \/ Confirm(o) \/ SendFailed(o) \/ DeleteRow(o)

ChatNext ==
    \/ PeerDraw \/ PeerSend \/ PeerDelete \/ PushEvent \/ LoseEvent \/ Reconnect
    \/ OnMessage \/ OnMessageDeleted \/ LoadContacts
    \/ \E id \in Ids : Decrypted(id)
    \/ \E o \in Ops : SelectPeer(o) \/ LoadMore(o) \/ Send(o) \/ Retry(o) \/ Delete(o) \/ OpStep(o)

ChatSpec == ChatInit /\ [][ChatNext]_chatVars

-----------------------------------------------------------------------------
(* Properties *)

\* Type correctness; what has been deleted or is being decrypted was inserted.
ChatTypeOK ==
    /\ row \in [Ids -> (0 .. MaxTexts) \cup {None}] /\ deleted \subseteq Inserted
    /\ wire \in Seq([type : {"message", "deleted"}, id : Inserted])
    /\ unsent \subseteq [type : {"message", "deleted"}, id : Inserted] /\ untold \subseteq Inserted
    /\ reconnects \in 0 .. MaxReconnects /\ texts \in 0 .. MaxTexts
    /\ known \in BOOLEAN /\ active \in BOOLEAN /\ hasMore \in BOOLEAN
    /\ list \in Seq(Entries) \cup {None} /\ last \in 0 .. MaxId
    /\ \A j \in 1 .. Len(Listed) : Listed[j].id > 0 => row[Listed[j].id] # None /\ ~Listed[j].failed
    /\ decrypting \in [Ids -> Nat] /\ \A id \in Ids : decrypting[id] > 0 => id \in Inserted
    /\ op \in [Ops -> [kind : {"none", "select", "more", "send", "delete"},
                       pc : {"idle", "get", "got", "post", "insert", "posted", "failed", "del"},
                       target : (-MaxTexts) .. MaxId, id : 0 .. MaxId,
                       raw : Seq(Ids), more : BOOLEAN]]
    /\ faults \subseteq ChatFaultKinds /\ begun \in BOOLEAN /\ dropped \subseteq Ids
    /\ seq \in 1 .. MaxId + 1 /\ drawn \subseteq Ids \ Inserted

\* Replays after reconnects, pages of history and live events overlap, and each is
\* applied after a wait, yet no message of the peer is in the list twice ("Guard
\* against duplicates that may arrive via WS while we were fetching").
PeerMessageShownOnce ==
    \A i, j \in 1 .. Len(Listed) :
        (Listed[i].id = Listed[j].id /\ Listed[i].id > 0 /\ row[Listed[i].id] = 0) => i = j

\* "messages appear instantly, confirmed or rolled back on server response" (web
\* README): an optimistic entry that is not marked failed has a request that will
\* settle it, whatever replaced the list meanwhile.
PendingIsBeingSent ==
    \A j \in 1 .. Len(Listed) :
        (Listed[j].id < 0 /\ ~Listed[j].failed)
        => \E o \in Ops : op[o].target = Listed[j].id /\ op[o].pc \in {"post", "insert", "posted", "failed"}

\* "The server uses ON CONFLICT DO NOTHING to deduplicate retries" (server README), but
\* retryMessage makes a new clientMessageId.  Still a text is stored twice only if
\* the answer to a request that stored it was lost, however sends, retries, pages
\* and events overlap.
StoredOnceUnlessAnswerLost ==
    "answer" \notin faults =>
        \A x, y \in Inserted : (row[x] = row[y] /\ row[x] # 0) => x = y

\* Nothing is under way in the client or on its socket.
Quiet ==
    /\ wire = <<>> /\ \A id \in Ids : decrypting[id] = 0
    /\ \A o \in Ops : op[o].pc = "idle"

\* "stable under concurrent inserts, no skipped rows" (server README): a row can
\* commit after a page has passed its id, and only the live event or a replay shows it
\* then.  With all pages read, a message of the peer is missing from the list only if it
\* committed behind them and neither has reached the socket since (its event is lost or
\* still to come), if a page that replaced the list took it out, or if the list was not
\* begun by a page.
NoGapInHistory ==
    (Quiet /\ list # None /\ ~hasMore /\ ~begun) =>
        \A id \in Inserted \ (deleted \cup dropped \cup untold) : row[id] = 0 => Holds(list, id)
=============================================================================
