------------------------------ MODULE Accounts ------------------------------
(***************************************************************************)
(* One account, the requests that write its data, its WebSocket sessions on   *)
(* several instances, and its erasure: AuthMiddleware and WSAuthMiddleware,   *)
(* the ticket exchange, the handlers for the public key, the password, the    *)
(* push token and the contacts, and DeleteAccountHandler.                    *)
(*                                                                         *)
(* A handler checks the account and writes in separate statements.  The      *)
(* transaction of DeleteAccountGDPR is two steps, its SELECT and the rest:    *)
(* its UPDATE of the users row changes a unique column, so it excludes the    *)
(* other writers of that row and the inserts that refer to it until COMMIT.  *)
(***************************************************************************)
EXTENDS Integers, FiniteSets

CONSTANTS
    Requests,        \* requests that write
    Deletions,       \* calls of DeleteAccountHandler
    Conns, Tickets,  \* WebSocket requests, and tickets
    Instances, InstanceOf,   \* of deletions and connections
    None

\* What is stored about the account: users.public_key, password_hash and
\* push_token, its messages' bodies, its contacts, and others' contacts to it.
Items == {"key", "password", "push", "message", "contact", "follower"}
\* The items a request can add, and the one it can remove.
Ops == [add : Items \cup {None}, drop : {"contact", None}]
Op(add, drop) == [add |-> add, drop |-> drop]

ASSUME AccountsAssumption ==
    /\ \A x \in Deletions \cup Conns : InstanceOf[x] \in Instances
    /\ None \notin Requests \cup Tickets \cup Items \cup Deletions

VARIABLES
    deleted,   \* users.deleted_at is set
    data,      \* items that are present
    erasures,  \* history: deletions that committed an erasure
    rpc, rop,  \* per request: step, and what it is to write
    dpc,       \* per deletion: step
    ticket,    \* per ticket: "none", "checked", "stored" in Redis, "gone", "refused"
    cpc, via   \* per connection: step, and the ticket it came with

store == <<deleted, data, erasures>>
reqs  == <<rpc, rop>>
wss   == <<ticket, cpc, via>>
vars  == <<store, reqs, dpc, wss>>

Init ==
    /\ deleted = FALSE /\ data \in {{"password"}, Items} /\ erasures = {}
    /\ rpc = [r \in Requests |-> "idle"] /\ rop = [r \in Requests |-> Op(None, None)]
    /\ dpc = [d \in Deletions |-> "idle"] /\ ticket = [t \in Tickets |-> "none"]
    /\ cpc = [c \in Conns |-> "idle"] /\ via = [c \in Conns |-> None]

-----------------------------------------------------------------------------
(* Requests that write *)

\* GetUserByID: the account exists and is not deleted.  AuthMiddleware refuses
\* the request otherwise.
MutantAnyAccount == TRUE
Exists == ~deleted

\* The check of a request: AuthMiddleware for the account's own requests, the
\* SELECT of AddContact for another user who adds the account.
Check(r, op) ==
    /\ rpc[r] = "idle"
    /\ IF Exists
       THEN /\ rpc' = [rpc EXCEPT ![r] = IF op.add = "password" THEN "verify" ELSE "write"]
            /\ rop' = [rop EXCEPT ![r] = op]
       ELSE /\ rpc' = [rpc EXCEPT ![r] = "refused"]
            /\ UNCHANGED rop
    /\ UNCHANGED <<store, dpc, wss>>

\* ChangePasswordHandler: GetUserByUsername and the comparison of the hash.
PasswordMatches == ~deleted /\ "password" \in data
Verify(r) ==
    /\ rpc[r] = "verify"
    /\ rpc' = [rpc EXCEPT ![r] = IF PasswordMatches THEN "write" ELSE "refused"]
    /\ UNCHANGED <<store, rop, dpc, wss>>

\* SetPublicKey, SetPushToken, UpdatePassword (UPDATE users ... WHERE id = $1), the
\* INSERTs of a message and of a contact, and the DELETE of a contact.
Write(r) ==
    /\ rpc[r] = "write"
    /\ data' = (data \ {rop[r].drop}) \cup ({rop[r].add} \ {None})
    /\ rpc' = [rpc EXCEPT ![r] = "done"]
    /\ UNCHANGED <<deleted, erasures, rop, dpc, wss>>

\* The operations, by what they write: UploadKeyHandler, ChangePasswordHandler,
\* RegisterPushTokenHandler, SendMessageHandler, AddContactHandler of the account and of
\* another user who adds it, and RemoveContactHandler.
UploadKey(r)         == Check(r, Op("key", None))
ChangePassword(r)    == Check(r, Op("password", None))
RegisterPushToken(r) == Check(r, Op("push", None))
SendMessage(r)       == Check(r, Op("message", None))
AddContact(r)        == Check(r, Op("contact", None))
AddedByAnother(r)    == Check(r, Op("follower", None))
RemoveContact(r)     == Check(r, Op(None, "contact"))

-----------------------------------------------------------------------------
(* DeleteAccountHandler *)

DeleteCheck(d) ==
    /\ dpc[d] = "idle"
    /\ dpc' = [dpc EXCEPT ![d] = IF Exists THEN "verify" ELSE "refused"]
    /\ UNCHANGED <<store, reqs, wss>>

DeleteVerify(d) ==
    /\ dpc[d] = "verify"
    /\ dpc' = [dpc EXCEPT ![d] = IF PasswordMatches THEN "lookup" ELSE "refused"]
    /\ UNCHANGED <<store, reqs, wss>>

\* DeleteAccountGDPR: SELECT username ... AND deleted_at IS NULL.
DeleteLookup(d) ==
    /\ dpc[d] = "lookup"
    /\ dpc' = [dpc EXCEPT ![d] = IF deleted THEN "refused" ELSE "erase"]
    /\ UNCHANGED <<store, reqs, wss>>

\* UPDATE users ... AND deleted_at IS NULL finds the row.
MutantNoRecheck == TRUE
StillThere == ~deleted

\* What the transaction removes; push_token is not among it.
Erased == {"key", "password", "message", "contact", "follower"}

\* The rest of the transaction, with its COMMIT; ErrAlreadyDeleted when the row is
\* not found, and a rollback when a statement fails.
Erase(d) ==
    /\ dpc[d] = "erase"
    /\ \/ /\ StillThere
          /\ deleted' = TRUE
          /\ data' = data \ Erased
          /\ erasures' = erasures \cup {d}
          /\ dpc' = [dpc EXCEPT ![d] = "disconnect"]
       \/ /\ dpc' = [dpc EXCEPT ![d] = "refused"]
          /\ UNCHANGED store
    /\ UNCHANGED <<reqs, wss>>

\* hub.DisconnectUser of the instance that serves the request, then 204.
DisconnectUser(d) ==
    /\ dpc[d] = "disconnect"
    /\ dpc' = [dpc EXCEPT ![d] = "done"]
    /\ cpc' = [c \in Conns |-> IF cpc[c] = "session" /\ InstanceOf[c] = InstanceOf[d]
                               THEN "closed" ELSE cpc[c]]
    /\ UNCHANGED <<store, reqs, ticket, via>>

-----------------------------------------------------------------------------
(* WSTicketHandler, WSAuthMiddleware and WebSocketHandler *)

\* AuthMiddleware of a request for a ticket.
TicketCheck(t) ==
    /\ ticket[t] = "none"
    /\ ticket' = [ticket EXCEPT ![t] = IF Exists THEN "checked" ELSE "refused"]
    /\ UNCHANGED <<store, reqs, dpc, cpc, via>>

\* SET with a TTL of 30 seconds; an error is answered with 500.
StoreTicket(t) ==
    /\ ticket[t] = "checked"
    /\ \E outcome \in {"stored", "refused"} : ticket' = [ticket EXCEPT ![t] = outcome]
    /\ UNCHANGED <<store, reqs, dpc, cpc, via>>

TicketExpires(t) ==
    /\ ticket[t] = "stored"
    /\ ticket' = [ticket EXCEPT ![t] = "gone"]
    /\ UNCHANGED <<store, reqs, dpc, cpc, via>>

\* GETDEL
MutantGet(t) == ticket
GetDel(t) == [ticket EXCEPT ![t] = "gone"]
Redeem(c, t) ==
    /\ cpc[c] = "idle"
    /\ \/ /\ ticket[t] = "stored"
          /\ ticket' = GetDel(t)
          /\ cpc' = [cpc EXCEPT ![c] = "check"]
          /\ via' = [via EXCEPT ![c] = t]
       \/ /\ ticket[t] = "gone"
          /\ cpc' = [cpc EXCEPT ![c] = "refused"]
          /\ UNCHANGED <<ticket, via>>
    /\ UNCHANGED <<store, reqs, dpc>>

\* Without a ticket, a valid JWT in the Authorization header is accepted.
Bearer(c) ==
    /\ cpc[c] = "idle"
    /\ cpc' = [cpc EXCEPT ![c] = "check"]
    /\ UNCHANGED <<store, reqs, dpc, ticket, via>>

\* GetUserByID of WSAuthMiddleware.
WSCheck(c) ==
    /\ cpc[c] = "check"
    /\ cpc' = [cpc EXCEPT ![c] = IF Exists THEN "upgrade" ELSE "refused"]
    /\ UNCHANGED <<store, reqs, dpc, ticket, via>>

\* Upgrade and hub.addClient.
AddClient(c) ==
    /\ cpc[c] = "upgrade"
    /\ cpc' = [cpc EXCEPT ![c] = "session"]
    /\ UNCHANGED <<store, reqs, dpc, ticket, via>>

SessionEnds(c) ==
    /\ cpc[c] = "session"
    /\ cpc' = [cpc EXCEPT ![c] = "closed"]
    /\ UNCHANGED <<store, reqs, dpc, ticket, via>>

-----------------------------------------------------------------------------
Next ==
    \/ \E r \in Requests :
          \/ UploadKey(r) \/ ChangePassword(r) \/ RegisterPushToken(r) \/ SendMessage(r)
          \/ AddContact(r) \/ AddedByAnother(r) \/ RemoveContact(r)
          \/ Verify(r) \/ Write(r)
    \/ \E d \in Deletions :
          DeleteCheck(d) \/ DeleteVerify(d) \/ DeleteLookup(d) \/ Erase(d) \/ DisconnectUser(d)
    \/ \E t \in Tickets : TicketCheck(t) \/ StoreTicket(t) \/ TicketExpires(t)
    \/ \E c \in Conns :
          (\E t \in Tickets : Redeem(c, t)) \/ Bearer(c) \/ WSCheck(c) \/ AddClient(c) \/ SessionEnds(c)

Spec == Init /\ [][Next]_vars

-----------------------------------------------------------------------------
(* Properties *)

Sessions == {c \in Conns : cpc[c] = "session"}

\* The variables have their types; the account is deleted exactly when an erasure
\* committed.
TypeOK ==
    /\ deleted \in BOOLEAN /\ data \subseteq Items /\ erasures \subseteq Deletions
    /\ rpc \in [Requests -> {"idle", "verify", "write", "done", "refused"}]
    /\ rop \in [Requests -> Ops]
    /\ dpc \in [Deletions -> {"idle", "verify", "lookup", "erase", "disconnect", "done", "refused"}]
    /\ ticket \in [Tickets -> {"none", "checked", "stored", "gone", "refused"}]
    /\ cpc \in [Conns -> {"idle", "check", "upgrade", "session", "closed", "refused"}]
    /\ via \in [Conns -> Tickets \cup {None}]
    /\ deleted <=> erasures # {}

\* One ticket lets in one connection, however many requests present it at once
\* (GETDEL in WSAuthMiddleware).
TicketAdmitsOnce ==
    \A c, d \in Conns : c # d /\ via[c] # None => via[c] # via[d]

\* Two erasure requests of one account never both erase it and write two records
\* to gdpr_deletion_log.
ErasedOnce == Cardinality(erasures) <= 1

\* What passed its check and has not finished.
InFlight ==
    {r \in Requests : rpc[r] \in {"verify", "write"}} \cup {c \in Conns : cpc[c] = "upgrade"}

\* Once the account is deleted and what passed its check before has finished,
\* nothing about the account is stored again and no session begins.
ErasureSettles ==
    [][deleted /\ InFlight = {} =>
          data' \subseteq data /\ Sessions' \subseteq Sessions /\ InFlight' = {}]_vars
=============================================================================
