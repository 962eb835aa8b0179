---------------------------- MODULE Registration ----------------------------
(***************************************************************************)
(* Invite-only registration: RegisterWithInvite (store/user_store.go), the   *)
(* administrator's create and reset of invite codes                          *)
(* (store/admin_invite_store.go) and the part of DeleteAccountGDPR           *)
(* (store/contact_store.go) that frees a username and expires the codes its  *)
(* owner created.                                                            *)
(*                                                                         *)
(* RegisterWithInvite and DeleteAccountGDPR are transactions: one SQL         *)
(* statement is one step, its effects are seen by others at COMMIT, and a    *)
(* statement waits while another transaction holds the row it needs (READ    *)
(* COMMITTED: it then looks at the row again).  NOW() is the time at which   *)
(* the transaction began.  PostgreSQL breaks a cycle of waiting transactions *)
(* by aborting one of them.                                                  *)
(* An account is named after the registration that created it: the two do    *)
(* not compete for a lock, as the registration has committed before the      *)
(* account can be deleted.                                                   *)
(* Only the account called Admin creates and resets codes.  Its requests are *)
(* checked before the statement that writes, so what they write may come     *)
(* after the erasure of the account that sent them.                          *)
(***************************************************************************)
EXTENDS Integers, FiniteSets

CONSTANTS
    Regs,      \* registrations (calls of RegisterHandler)
    Seed,      \* the account that exists from the start, called Admin
    Codes, Names, Admin,
    MaxTime,   \* bound: the clock
    MaxResets, \* bound: resets of one code
    MaxAsked,  \* bound: requests of the administrator under way at once
    None,      \* model value: absent
    Faults     \* kinds of fault the environment injects

Accounts   == Regs \cup {Seed}
Time       == 0 .. MaxTime
Never      == MaxTime + 1      \* expires_at IS NULL
FaultKinds == {"insert", "commit", "token", "delete"}
\* The administrator's requests that write.
AdminRequests == [op : {"create", "reset"}, code : Codes]

ASSUME RegistrationAssumption ==
    /\ Seed \notin Regs /\ None \notin Accounts /\ Admin \in Names /\ None \notin Names
    /\ MaxTime \in Nat /\ MaxResets \in Nat /\ MaxAsked \in Nat
    /\ IsFiniteSet(Regs)
    /\ Faults \subseteq FaultKinds

VARIABLES
    clock,
    created,   \* codes with a row in invite_codes
    usedBy,    \* per code: used_by, committed
    expires,   \* per code: expires_at, committed
    lock,      \* per code: registration or deletion that has changed its row and not committed
    resets,    \* per code: how often the administrator made it usable again
    allowed,   \* requests of the administrator that are let in and have not written
    account,   \* per account: "none", "pending" (inserted, not committed), "live", "gone"
    name,      \* per account: the username asked for
    rpc, rcode, rnow,  \* per registration: step, invite code, NOW()
    expired,   \* history, per registration: codes that had expired when it began
    dpc, dnow, dtodo   \* per account: its deletion's step, NOW(), codes still to expire

codes == <<created, usedBy, expires, resets, allowed>>
regs  == <<rpc, rcode, rnow, expired>>
dels  == <<dpc, dnow, dtodo>>
users == <<account, name>>
vars  == <<clock, codes, lock, users, regs, dels>>

Init ==
    /\ clock = 0 /\ created = {} /\ allowed = {}
    /\ usedBy = [c \in Codes |-> None] /\ expires = [c \in Codes |-> Never]
    /\ lock = [c \in Codes |-> None] /\ resets = [c \in Codes |-> 0]
    /\ account = [a \in Accounts |-> IF a = Seed THEN "live" ELSE "none"]
    /\ name = [a \in Accounts |-> IF a = Seed THEN Admin ELSE None]
    /\ rpc = [r \in Regs |-> "idle"] /\ rcode = [r \in Regs |-> None]
    /\ rnow = [r \in Regs |-> 0] /\ expired = [r \in Regs |-> {}]
    /\ dpc = [a \in Accounts |-> "idle"] /\ dnow = [a \in Accounts |-> 0]
    /\ dtodo = [a \in Accounts |-> {}]

Tick ==
    /\ clock < MaxTime
    /\ clock' = clock + 1
    /\ UNCHANGED <<codes, lock, users, regs, dels>>

-----------------------------------------------------------------------------
(* The administrator *)

\* AuthMiddleware finds the account of the token by its id and not deleted, and
\* AdminOnly compares the name in the token.
MutantTokenIsEnough(a) == account[a] \in {"live", "gone"} /\ name[a] = Admin
LetIn(a) == account[a] = "live" /\ name[a] = Admin
AdminAsks(q) ==
    /\ q \notin allowed /\ Cardinality(allowed) < MaxAsked
    /\ \E a \in Accounts : LetIn(a)
    /\ allowed' = allowed \cup {q}
    /\ UNCHANGED <<clock, created, usedBy, expires, resets, lock, users, regs, dels>>

\* AdminCreateInvite: a new code, with or without an expiry; a code that exists is
\* refused.
AdminCreate(c, until) ==
    LET q == [op |-> "create", code |-> c] IN
    /\ q \in allowed
    /\ allowed' = allowed \ {q}
    /\ created' = created \cup {c}
    /\ expires' = IF c \in created THEN expires ELSE [expires EXCEPT ![c] = until]
    /\ UNCHANGED <<clock, usedBy, resets, lock, users, regs, dels>>

\* AdminResetInvite: UPDATE, so it waits for a transaction that has the row.  It
\* finds no row of an unknown code, and writes nothing new into that of an unused one.
AdminReset(c) ==
    LET q == [op |-> "reset", code |-> c] IN
    /\ q \in allowed
    /\ lock[c] = None
    /\ usedBy[c] # None => resets[c] < MaxResets
    /\ allowed' = allowed \ {q}
    /\ usedBy' = [usedBy EXCEPT ![c] = None]
    /\ resets' = [resets EXCEPT ![c] = IF usedBy[c] = None THEN @ ELSE @ + 1]
    /\ UNCHANGED <<clock, created, expires, lock, users, regs, dels>>

-----------------------------------------------------------------------------
(* RegisterHandler and RegisterWithInvite *)

\* BEGIN
Begin(r, c, n) ==
    /\ rpc[r] = "idle"
    /\ rpc' = [rpc EXCEPT ![r] = "consume"]
    /\ rcode' = [rcode EXCEPT ![r] = c]
    /\ rnow' = [rnow EXCEPT ![r] = clock]
    /\ name' = [name EXCEPT ![r] = n]
    /\ expired' = [expired EXCEPT ![r] = {x \in created : expires[x] <= clock}]
    /\ UNCHANGED <<clock, codes, lock, account, dels>>

\* A transaction ends: its row locks go, and so do its uncommitted rows.
Release(t) == lock' = [c \in Codes |-> IF lock[c] = t THEN None ELSE lock[c]]
MutantLocksStay(r, outcome) ==
    /\ rpc' = [rpc EXCEPT ![r] = outcome]
    /\ account' = [account EXCEPT ![r] = "none"]
    /\ UNCHANGED <<usedBy, lock>>
MutantStaysBurned(r, outcome) ==
    /\ rpc' = [rpc EXCEPT ![r] = outcome]
    /\ account' = [account EXCEPT ![r] = "none"]
    /\ usedBy' = [c \in Codes |-> IF lock[c] = r THEN name[r] ELSE usedBy[c]]
    /\ Release(r)
Rollback(r, outcome) ==
    /\ rpc' = [rpc EXCEPT ![r] = outcome]
    /\ account' = [account EXCEPT ![r] = "none"]
    /\ Release(r)
    /\ UNCHANGED usedBy

\* The WHERE clause of the UPDATE: unused, and expires_at > NOW().
MutantValidAtExpiry(r, c) == c \in created /\ usedBy[c] = None /\ expires[c] >= rnow[r]
Valid(r, c) == c \in created /\ usedBy[c] = None /\ expires[c] > rnow[r]

\* The UPDATE waits while another transaction has the row.
MutantNoRowLock(r, c) == TRUE
RowFree(r, c) == lock[c] = None

\* UPDATE invite_codes SET used_by: ErrInvalidInviteCode if no row matches.
Consume(r) ==
    LET c == rcode[r] IN
    /\ rpc[r] = "consume"
    /\ RowFree(r, c)
    /\ \/ /\ Valid(r, c)
          /\ lock' = [lock EXCEPT ![c] = r]
          /\ rpc' = [rpc EXCEPT ![r] = "insert"]
          /\ UNCHANGED <<account, usedBy>>
       \/ ~Valid(r, c) /\ Rollback(r, "invalid")
    /\ UNCHANGED <<clock, created, expires, resets, allowed, name, rcode, rnow, expired, dels>>

\* Accounts whose name is n, committed or not; the old name of an account is in
\* the unique index until its deletion commits.
Holders(n) == {a \in Accounts : name[a] = n /\ account[a] \in {"pending", "live"}}
Deleting(a)  == dpc[a] \in {"anonymized", "expire"}
\* Some transaction that has not ended decides whether n is free.
Undecided(n) == \E a \in Holders(n) : account[a] = "pending" \/ Deleting(a)
MutantCommittedOnly(r, n) == \A a \in Holders(n) : account[a] = "pending" \/ Deleting(a)
NameFree(r, n) == Holders(n) = {}

\* INSERT INTO users: it waits for a transaction that inserted or is giving up the
\* same username; ErrUsernameTaken on a conflict.  Both errors roll back.
Insert(r) ==
    LET n == name[r] IN
    /\ rpc[r] = "insert"
    /\ \/ /\ NameFree(r, n)
          /\ account' = [account EXCEPT ![r] = "pending"]
          /\ rpc' = [rpc EXCEPT ![r] = "commit"]
          /\ UNCHANGED <<lock, usedBy>>
       \/ ~NameFree(r, n) /\ ~Undecided(n) /\ Rollback(r, "taken")
       \/ "insert" \in Faults /\ Rollback(r, "failed")
    /\ UNCHANGED <<clock, created, expires, resets, allowed, name, rcode, rnow, expired, dels>>

\* used_by as of the commit.
MutantCodeKept(r) == usedBy
CodeBurned(r) == [usedBy EXCEPT ![rcode[r]] = name[r]]

\* COMMIT.  When it reports an error it may or may not have taken effect.
Commit(r) ==
    /\ rpc[r] = "commit"
    /\ \/ /\ \E outcome \in {"respond"} \cup (IF "commit" \in Faults THEN {"failed"} ELSE {}) :
                rpc' = [rpc EXCEPT ![r] = outcome]
          /\ account' = [account EXCEPT ![r] = "live"]
          /\ usedBy' = CodeBurned(r)
          /\ Release(r)
       \/ /\ "commit" \in Faults
          /\ Rollback(r, "failed")
    /\ UNCHANGED <<clock, created, expires, resets, allowed, name, rcode, rnow, expired, dels>>

\* The rest of RegisterHandler: tokens, then the answer.  When the refresh token
\* cannot be stored the account exists and the answer is an error.
Respond(r) ==
    /\ rpc[r] = "respond"
    /\ \E outcome \in {"ok"} \cup (IF "token" \in Faults THEN {"failed"} ELSE {}) :
          rpc' = [rpc EXCEPT ![r] = outcome]
    /\ UNCHANGED <<clock, codes, lock, users, rcode, rnow, expired, dels>>

-----------------------------------------------------------------------------
(* DeleteAccountGDPR *)

\* Each account asks for its erasure once.  BEGIN, and step 1: its row is anonymized.
DeleteBegin(a) ==
    /\ account[a] = "live"
    /\ dpc[a] = "idle"
    /\ dpc' = [dpc EXCEPT ![a] = "anonymized"]
    /\ dnow' = [dnow EXCEPT ![a] = clock]
    /\ UNCHANGED <<clock, codes, lock, users, regs, dtodo>>

\* Steps 2 and 3: the UPDATE finds the unused codes the account created.
DeleteFinds(a) ==
    /\ dpc[a] = "anonymized"
    /\ dpc' = [dpc EXCEPT ![a] = "expire"]
    /\ dtodo' = [dtodo EXCEPT ![a] =
                   IF name[a] = Admin THEN {c \in created : usedBy[c] = None} ELSE {}]
    /\ UNCHANGED <<clock, codes, lock, users, regs, dnow>>

\* One row of the UPDATE, once nobody else has it; a code that was used meanwhile
\* is passed over.
DeleteLocks(a, c) ==
    /\ dpc[a] = "expire"
    /\ c \in dtodo[a]
    /\ lock[c] = None
    /\ lock' = IF usedBy[c] = None THEN [lock EXCEPT ![c] = a] ELSE lock
    /\ dtodo' = [dtodo EXCEPT ![a] = @ \ {c}]
    /\ UNCHANGED <<clock, codes, users, regs, dpc, dnow>>

\* An error of any step: tx.Rollback.
DeleteRollback(a) ==
    /\ dpc' = [dpc EXCEPT ![a] = "failed"]
    /\ dtodo' = [dtodo EXCEPT ![a] = {}]
    /\ Release(a)
    /\ UNCHANGED <<clock, codes, users, regs, dnow>>
DeleteFails(a) ==
    /\ "delete" \in Faults
    /\ Deleting(a)
    /\ DeleteRollback(a)

\* Steps 4 and 5, and COMMIT.
DeleteCommit(a) ==
    /\ dpc[a] = "expire"
    /\ dtodo[a] = {}
    /\ dpc' = [dpc EXCEPT ![a] = "done"]
    /\ account' = [account EXCEPT ![a] = "gone"]
    /\ expires' = [c \in Codes |-> IF lock[c] = a THEN dnow[a] ELSE expires[c]]
    /\ Release(a)
    /\ UNCHANGED <<clock, created, usedBy, resets, allowed, name, regs, dnow, dtodo>>

\* A registration holds a code the deletion wants, and wants the username the
\* deletion is giving up: PostgreSQL aborts either.
Cycle(r, a) ==
    /\ rpc[r] = "insert" /\ dpc[a] = "expire"
    /\ name[r] = name[a]
    /\ lock[rcode[r]] = r /\ rcode[r] \in dtodo[a]
AbortRegistration(r, a) ==
    /\ Cycle(r, a)
    /\ Rollback(r, "failed")
    /\ UNCHANGED <<clock, created, expires, resets, allowed, name, rcode, rnow, expired, dels>>
AbortDeletion(r, a) ==
    /\ Cycle(r, a)
    /\ DeleteRollback(a)

-----------------------------------------------------------------------------
RegisterStep(r) == Consume(r) \/ Insert(r) \/ Commit(r) \/ Respond(r)
DeleteStep(a)   == DeleteFinds(a) \/ (\E c \in Codes : DeleteLocks(a, c)) \/ DeleteCommit(a)
Deadlock        == \E r \in Regs, a \in Accounts : AbortRegistration(r, a) \/ AbortDeletion(r, a)

Next ==
    \/ Tick
    \/ \E q \in AdminRequests : AdminAsks(q)
    \/ \E c \in Codes, until \in Time \cup {Never} : AdminCreate(c, until)
    \/ \E c \in Codes : AdminReset(c)
    \/ \E r \in Regs, c \in Codes, n \in Names : Begin(r, c, n)
    \/ \E r \in Regs : RegisterStep(r)
    \/ \E a \in Accounts : DeleteBegin(a) \/ DeleteStep(a) \/ DeleteFails(a)
    \/ Deadlock

Spec == Init /\ [][Next]_vars

\* The statements of a transaction follow each other, and the database finds
\* deadlocks.
FairSpec ==
    /\ Spec
    /\ \A r \in Regs : WF_vars(RegisterStep(r))
    /\ \A a \in Accounts : WF_vars(DeleteStep(a))
    /\ WF_vars(Deadlock)

-----------------------------------------------------------------------------
(* Properties *)

\* The variables have their types, and a code without a row in invite_codes is
\* neither locked, nor used, nor about to be used by anybody.
TypeOK ==
    /\ clock \in Time /\ created \subseteq Codes /\ usedBy \in [Codes -> Names \cup {None}]
    /\ expires \in [Codes -> Time \cup {Never}] /\ lock \in [Codes -> Accounts \cup {None}]
    /\ resets \in [Codes -> 0 .. MaxResets] /\ allowed \subseteq AdminRequests
    /\ account \in [Accounts -> {"none", "pending", "live", "gone"}]
    /\ name \in [Accounts -> Names \cup {None}]
    /\ rpc \in [Regs -> {"idle", "consume", "insert", "commit", "respond",
                        "ok", "invalid", "taken", "failed"}]
    /\ rcode \in [Regs -> Codes \cup {None}]
    /\ rnow \in [Regs -> Time] /\ dnow \in [Accounts -> Time]
    /\ dpc \in [Accounts -> {"idle", "anonymized", "expire", "done", "failed"}]
    /\ dtodo \in [Accounts -> SUBSET created] /\ expired \in [Regs -> SUBSET created]
    /\ \A c \in Codes \ created : lock[c] = None /\ usedBy[c] = None
    /\ \A r \in Regs : rpc[r] \in {"insert", "commit"} => rcode[r] \in created

\* The accounts an invite code let in.
Admitted(c) == {r \in Regs : rcode[r] = c /\ account[r] \in {"live", "gone"}}

\* An invite code admits one account, and one more for every time the
\* administrator reset it, whichever registrations race for it
\* (RegisterWithInvite's UPDATE ... WHERE used_by IS NULL).
OneAccountPerUse == \A c \in Codes : Cardinality(Admitted(c)) <= resets[c] + 1

\* A code that is marked as used admitted an account under the name it records:
\* a registration that fails after the UPDATE does not burn its code.
BurnedMeansAdmitted ==
    \A c \in Codes : usedBy[c] # None => \E r \in Admitted(c) : name[r] = usedBy[c]

\* Two accounts that are not deleted never have the same username, whether the
\* name was free, given up by an erasure, or asked for twice at once.
NamesUnique ==
    \A a, b \in Accounts :
        account[a] = "live" /\ account[b] = "live" /\ name[a] = name[b] => a = b

\* A code that has expired when a registration begins admits that registration
\* only if an erasure that began later set its expires_at again: step 3 of
\* DeleteAccountGDPR does not leave out codes that have expired.
OnlyErasureRevives ==
    \A r \in Regs : account[r] \in {"live", "gone"} /\ rcode[r] \in expired[r] =>
        \E a \in Accounts : dpc[a] = "done" /\ dnow[a] > rnow[r]

\* The usernames of the accounts that are not deleted.
Members == {name[a] : a \in {x \in Accounts : account[x] = "live"}}
Ledger == INSTANCE Membership WITH issued <- created, members <- Members, asked <- allowed

\* The transactions of RegisterWithInvite and DeleteAccountGDPR, statement by
\* statement and interleaved, look like the single steps of Membership: an account
\* appears in the same step in which its code is used up, and under a free name.
\* Whoever is erased between AuthMiddleware and the write, codes come and become
\* usable again only by requests an administrator who was a member has sent.
ActsAtomically == Ledger!Spec

\* Every registration is answered and every erasure ends, in whatever order they
\* lock invite codes and usernames.
EveryTransactionEnds ==
    /\ \A r \in Regs :
          rpc[r] = "consume" ~> rpc[r] \in {"ok", "invalid", "taken", "failed"}
    /\ \A a \in Accounts : Deleting(a) ~> ~Deleting(a)
=============================================================================
