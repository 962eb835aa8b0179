--------------------------- MODULE AccountsProofs ---------------------------
(***************************************************************************)
(* Accounts for any number of requests, erasures, tickets and connections.   *)
(* TypeOK, which ties deleted_at to the committed erasures, is inductive      *)
(* alone.  That a ticket admits once needs that a ticket somebody came with   *)
(* is gone from Redis, which GETDEL makes true and nothing undoes.           *)
(***************************************************************************)
EXTENDS Accounts, TLAPS, FiniteSetTheorems

USE AccountsAssumption

\* A ticket that a connection came with is no longer in Redis, and it came alone.
Redeemed ==
    /\ \A c \in Conns : via[c] # None => ticket[via[c]] = "gone"
    /\ \A c, d \in Conns : c # d /\ via[c] # None => via[c] # via[d]

\* At most one erasure has committed.
OneErasure == \A d, e \in erasures : d = e

AInv == TypeOK /\ Redeemed /\ OneErasure

-----------------------------------------------------------------------------
\* Check(r, op) keeps the types, whatever a request is to write.
LEMMA CheckTyped ==
    ASSUME TypeOK, NEW r \in Requests, NEW op \in Ops, Check(r, op)
    PROVE  TypeOK'
  BY DEF TypeOK, Check, Exists, store, wss

\* The steps of a request change neither tickets nor erasures.
LEMMA RequestStep ==
    ASSUME TypeOK, NEW r \in Requests,
           \/ UploadKey(r) \/ ChangePassword(r) \/ RegisterPushToken(r) \/ SendMessage(r)
           \/ AddContact(r) \/ AddedByAnother(r) \/ RemoveContact(r)
           \/ Verify(r) \/ Write(r)
    PROVE  TypeOK' /\ UNCHANGED <<deleted, erasures, wss, dpc>>
  <1>1. ASSUME NEW add \in Items \cup {None}, NEW drop \in {"contact", None}, Check(r, Op(add, drop))
        PROVE  TypeOK' /\ UNCHANGED <<deleted, erasures, wss, dpc>>
    <2>1. Op(add, drop) \in Ops  BY DEF Op, Ops
    <2>2. TypeOK'  BY <1>1, <2>1, CheckTyped
    <2> QED  BY <1>1, <2>2 DEF Check, store, wss
  <1>2. CASE \/ UploadKey(r) \/ ChangePassword(r) \/ RegisterPushToken(r) \/ SendMessage(r)
             \/ AddContact(r) \/ AddedByAnother(r)
    <2>1. PICK add \in Items : Check(r, Op(add, None))
      BY <1>2 DEF UploadKey, ChangePassword, RegisterPushToken, SendMessage, AddContact,
                  AddedByAnother, Items
    <2> QED  BY <1>1, <2>1
  <1>3. CASE RemoveContact(r)
    BY <1>1, <1>3 DEF RemoveContact
  <1>4. CASE Verify(r)
    BY <1>4 DEF Verify, TypeOK, store, wss
  <1>5. CASE Write(r)
    BY <1>5 DEF Write, TypeOK, Ops, wss
  <1> QED  BY <1>2, <1>3, <1>4, <1>5

\* The steps of a deletion leave the tickets alone; only the first to find the row
\* adds an erasure.
LEMMA DeletionStep ==
    ASSUME TypeOK, OneErasure, NEW d \in Deletions,
           DeleteCheck(d) \/ DeleteVerify(d) \/ DeleteLookup(d) \/ Erase(d) \/ DisconnectUser(d)
    PROVE  TypeOK' /\ OneErasure' /\ UNCHANGED <<ticket, via>>
  <1>1. CASE DeleteCheck(d)
    BY <1>1 DEF DeleteCheck, TypeOK, OneErasure, store, reqs, wss
  <1>2. CASE DeleteVerify(d)
    BY <1>2 DEF DeleteVerify, TypeOK, OneErasure, store, reqs, wss
  <1>3. CASE DeleteLookup(d)
    BY <1>3 DEF DeleteLookup, TypeOK, OneErasure, store, reqs, wss
  <1>4. CASE Erase(d)
    <2>1. CASE /\ ~deleted
               /\ deleted' = TRUE
               /\ data' = data \ Erased
               /\ erasures' = erasures \cup {d}
               /\ dpc' = [dpc EXCEPT ![d] = "disconnect"]
      <3>1. erasures' = {d}  BY <2>1 DEF TypeOK
      <3>2. OneErasure'  BY <3>1 DEF OneErasure
      <3>3. deleted' <=> erasures' # {}  BY <2>1, <3>1
      <3>4. TypeOK'  BY <1>4, <2>1, <3>3 DEF Erase, TypeOK, reqs, wss
      <3> QED  BY <1>4, <3>2, <3>4 DEF Erase, wss
    <2>2. CASE dpc' = [dpc EXCEPT ![d] = "refused"] /\ UNCHANGED store
      BY <1>4, <2>2 DEF Erase, TypeOK, OneErasure, store, reqs, wss
    <2> QED  BY <1>4, <2>1, <2>2 DEF Erase, StillThere
  <1>5. CASE DisconnectUser(d)
    BY <1>5 DEF DisconnectUser, TypeOK, OneErasure, store, reqs
  <1> QED  BY <1>1, <1>2, <1>3, <1>4, <1>5

\* The steps of a request for a ticket: none brings back a ticket that is gone.
LEMMA TicketStep ==
    ASSUME TypeOK, Redeemed, NEW t \in Tickets,
           TicketCheck(t) \/ StoreTicket(t) \/ TicketExpires(t)
    PROVE  TypeOK' /\ Redeemed' /\ UNCHANGED erasures
  <1>1. /\ UNCHANGED <<deleted, data, erasures, rpc, rop, dpc, cpc, via>>
        /\ ticket[t] # "gone"
        /\ \E s \in {"checked", "refused", "stored", "gone"} : ticket' = [ticket EXCEPT ![t] = s]
    BY DEF TicketCheck, StoreTicket, TicketExpires, store, reqs
  <1>2. TypeOK'  BY <1>1 DEF TypeOK
  <1>3. Redeemed'  BY <1>1 DEF TypeOK, Redeemed
  <1> QED  BY <1>1, <1>2, <1>3

\* The steps of a WebSocket request: GETDEL gives a ticket to one of them.
LEMMA ConnStep ==
    ASSUME TypeOK, Redeemed, NEW c \in Conns,
           \/ \E t \in Tickets : Redeem(c, t)
           \/ Bearer(c) \/ WSCheck(c) \/ AddClient(c) \/ SessionEnds(c)
    PROVE  TypeOK' /\ Redeemed' /\ UNCHANGED erasures
  <1>1. CASE \E t \in Tickets : Redeem(c, t)
    <2>1. PICK t \in Tickets : Redeem(c, t)  BY <1>1
    <2>2. TypeOK' /\ UNCHANGED erasures
      BY <2>1 DEF Redeem, GetDel, TypeOK, store, reqs
    <2>3. Redeemed'
      BY <2>1 DEF Redeem, GetDel, TypeOK, Redeemed
    <2> QED  BY <2>2, <2>3
  <1>2. CASE Bearer(c) \/ WSCheck(c) \/ AddClient(c) \/ SessionEnds(c)
    <2>1. /\ UNCHANGED <<deleted, data, erasures, rpc, rop, dpc, ticket, via>>
          /\ \E s \in {"check", "upgrade", "refused", "session", "closed"} :
                cpc' = [cpc EXCEPT ![c] = s]
      BY <1>2 DEF Bearer, WSCheck, AddClient, SessionEnds, store, reqs
    <2> QED  BY <2>1 DEF TypeOK, Redeemed
  <1> QED  BY <1>1, <1>2

LEMMA AInvInit == Init => AInv
  <1> SUFFICES ASSUME Init PROVE AInv  OBVIOUS
  <1>1. data \subseteq Items  BY DEF Init, Items
  <1>2. TypeOK  BY <1>1 DEF Init, TypeOK, Ops, Op
  <1>3. Redeemed /\ OneErasure  BY DEF Init, Redeemed, OneErasure
  <1> QED  BY <1>2, <1>3 DEF AInv

LEMMA AInvNext == AInv /\ [Next]_vars => AInv'
  <1> SUFFICES ASSUME AInv, [Next]_vars PROVE AInv'  OBVIOUS
  <1> USE DEF AInv
  <1>1. ASSUME NEW r \in Requests,
               \/ UploadKey(r) \/ ChangePassword(r) \/ RegisterPushToken(r) \/ SendMessage(r)
               \/ AddContact(r) \/ AddedByAnother(r) \/ RemoveContact(r)
               \/ Verify(r) \/ Write(r)
        PROVE  AInv'
    <2>1. TypeOK' /\ UNCHANGED <<deleted, erasures, wss, dpc>>  BY <1>1, RequestStep
    <2> QED  BY <2>1 DEF Redeemed, OneErasure, wss
  <1>2. ASSUME NEW d \in Deletions,
               DeleteCheck(d) \/ DeleteVerify(d) \/ DeleteLookup(d) \/ Erase(d) \/ DisconnectUser(d)
        PROVE  AInv'
    <2>1. TypeOK' /\ OneErasure' /\ UNCHANGED <<ticket, via>>  BY <1>2, DeletionStep
    <2> QED  BY <2>1 DEF Redeemed
  <1>3. ASSUME NEW t \in Tickets, TicketCheck(t) \/ StoreTicket(t) \/ TicketExpires(t)
        PROVE  AInv'
    <2>1. TypeOK' /\ Redeemed' /\ UNCHANGED erasures  BY <1>3, TicketStep
    <2> QED  BY <2>1 DEF OneErasure
  <1>4. ASSUME NEW c \in Conns,
               \/ \E t \in Tickets : Redeem(c, t)
               \/ Bearer(c) \/ WSCheck(c) \/ AddClient(c) \/ SessionEnds(c)
        PROVE  AInv'
    <2>1. TypeOK' /\ Redeemed' /\ UNCHANGED erasures  BY <1>4, ConnStep
    <2> QED  BY <2>1 DEF OneErasure
  <1>5. CASE UNCHANGED vars
    BY <1>5 DEF TypeOK, Redeemed, OneErasure, vars, store, reqs, wss
  <1> QED  BY <1>1, <1>2, <1>3, <1>4, <1>5 DEF Next

LEMMA AInvHolds == Spec => []AInv
  BY AInvInit, AInvNext, PTL DEF Spec

-----------------------------------------------------------------------------
\* The types of Accounts hold in every reachable state, and deleted_at is set exactly
\* when an erasure of DeleteAccountGDPR committed.
THEOREM TypeCorrect == Spec => []TypeOK
  <1>1. AInv => TypeOK  BY DEF AInv
  <1> QED  BY <1>1, AInvHolds, PTL

\* However many connections present it at once, and however many tickets there are,
\* a ticket lets in one connection (GETDEL in WSAuthMiddleware).
THEOREM TicketUsedOnce == Spec => []TicketAdmitsOnce
  <1>1. AInv => TicketAdmitsOnce  BY DEF AInv, Redeemed, TicketAdmitsOnce
  <1> QED  BY <1>1, AInvHolds, PTL

\* However many erasure requests of one account race, one of them erases it and logs
\* the deletion: the second check of deleted_at in DeleteAccountGDPR finds no row.
THEOREM OneErases == Spec => []ErasedOnce
  <1>1. ASSUME AInv PROVE ErasedOnce
    <2>1. CASE erasures = {}
      BY <2>1, FS_EmptySet DEF ErasedOnce
    <2>2. CASE erasures # {}
      <3>1. PICK d \in erasures : TRUE  BY <2>2
      <3>2. erasures = {d}  BY <1>1, <3>1 DEF AInv, OneErasure
      <3>3. Cardinality({d}) = 1  BY FS_Singleton
      <3> QED  BY <3>2, <3>3 DEF ErasedOnce
    <2> QED  BY <2>1, <2>2
  <1> QED  BY <1>1, AInvHolds, PTL

\* Once an account is deleted and the requests that had passed their check are over,
\* no step of any number of requests stores anything about it or begins a session:
\* each handler's first query finds no account.
THEOREM ErasureIsFinal == Spec => ErasureSettles
  <1>1. ASSUME TypeOK, [Next]_vars, deleted, InFlight = {}
        PROVE  data' \subseteq data /\ Sessions' \subseteq Sessions /\ InFlight' = {}
    <2>0. /\ \A r \in Requests : rpc[r] \notin {"verify", "write"}
          /\ \A c \in Conns : cpc[c] # "upgrade"
      BY <1>1 DEF InFlight
    <2>1. ASSUME data' \subseteq data,
                 \A r \in Requests : rpc'[r] \notin {"verify", "write"},
                 \A c \in Conns : cpc'[c] # "upgrade" /\ (cpc'[c] = "session" => cpc[c] = "session")
          PROVE  data' \subseteq data /\ Sessions' \subseteq Sessions /\ InFlight' = {}
      BY <2>1 DEF Sessions, InFlight
    <2>2. ASSUME NEW r \in Requests, NEW op \in Ops, Check(r, op)
          PROVE  data' = data /\ cpc' = cpc /\ rpc' = [rpc EXCEPT ![r] = "refused"]
      BY <1>1, <2>2 DEF Check, Exists, store, wss
    <2>3. ASSUME NEW r \in Requests,
                 \/ UploadKey(r) \/ ChangePassword(r) \/ RegisterPushToken(r) \/ SendMessage(r)
                 \/ AddContact(r) \/ AddedByAnother(r) \/ RemoveContact(r)
                 \/ Verify(r) \/ Write(r)
          PROVE  data' \subseteq data /\ Sessions' \subseteq Sessions /\ InFlight' = {}
      <3>1. ~Verify(r) /\ ~Write(r)  BY <2>0 DEF Verify, Write
      <3>2. \E op \in Ops : Check(r, op)
        <4>1. \A add \in Items : Op(add, None) \in Ops  BY DEF Op, Ops
        <4>2. Op(None, "contact") \in Ops  BY DEF Op, Ops
        <4>3. CASE RemoveContact(r)  BY <4>2, <4>3 DEF RemoveContact
        <4>4. CASE ~RemoveContact(r)
          <5>1. \E add \in Items : Check(r, Op(add, None))
            BY <2>3, <3>1, <4>4 DEF UploadKey, ChangePassword, RegisterPushToken, SendMessage,
                                    AddContact, AddedByAnother, Items
          <5> QED  BY <4>1, <5>1
        <4> QED  BY <4>3, <4>4
      <3>3. data' = data /\ cpc' = cpc /\ rpc' = [rpc EXCEPT ![r] = "refused"]
        BY <2>2, <3>2
      <3> QED  BY <1>1, <2>0, <2>1, <3>3 DEF TypeOK
    <2>4. ASSUME NEW d \in Deletions,
                 DeleteCheck(d) \/ DeleteVerify(d) \/ DeleteLookup(d) \/ Erase(d) \/ DisconnectUser(d)
          PROVE  data' \subseteq data /\ Sessions' \subseteq Sessions /\ InFlight' = {}
      <3>1. data' \subseteq data /\ rpc' = rpc
        BY <2>4 DEF DeleteCheck, DeleteVerify, DeleteLookup, Erase, DisconnectUser, store, reqs
      <3>2. cpc' = cpc \/ DisconnectUser(d)
        BY <2>4 DEF DeleteCheck, DeleteVerify, DeleteLookup, Erase, wss
      <3>3. \A c \in Conns : cpc'[c] # "upgrade" /\ (cpc'[c] = "session" => cpc[c] = "session")
        BY <2>0, <3>2 DEF DisconnectUser
      <3> QED  BY <2>0, <2>1, <3>1, <3>3
    <2>5. ASSUME NEW t \in Tickets, TicketCheck(t) \/ StoreTicket(t) \/ TicketExpires(t)
          PROVE  data' \subseteq data /\ Sessions' \subseteq Sessions /\ InFlight' = {}
      <3>1. UNCHANGED <<data, rpc, cpc>>
        BY <2>5 DEF TicketCheck, StoreTicket, TicketExpires, store, reqs
      <3> QED  BY <2>0, <2>1, <3>1
    <2>6. ASSUME NEW c \in Conns,
                 \/ \E t \in Tickets : Redeem(c, t)
                 \/ Bearer(c) \/ WSCheck(c) \/ AddClient(c) \/ SessionEnds(c)
          PROVE  data' \subseteq data /\ Sessions' \subseteq Sessions /\ InFlight' = {}
      <3>1. UNCHANGED <<data, rpc>>
        BY <2>6 DEF Redeem, Bearer, WSCheck, AddClient, SessionEnds, store, reqs
      <3>2. \E s \in {"check", "refused", "closed"} : cpc' = [cpc EXCEPT ![c] = s]
        BY <1>1, <2>0, <2>6 DEF Redeem, Bearer, WSCheck, AddClient, SessionEnds, Exists
      <3> QED  BY <1>1, <2>0, <2>1, <3>1, <3>2 DEF TypeOK
    <2>7. CASE UNCHANGED vars
      BY <2>0, <2>1, <2>7 DEF vars, store, reqs, wss
    <2> QED  BY <1>1, <2>3, <2>4, <2>5, <2>6, <2>7 DEF Next
  <1>2. TypeOK /\ [Next]_vars
          => [deleted /\ InFlight = {} =>
                data' \subseteq data /\ Sessions' \subseteq Sessions /\ InFlight' = {}]_vars
    BY <1>1
  <1> QED  BY <1>2, TypeCorrect, PTL DEF Spec, ErasureSettles
=============================================================================
