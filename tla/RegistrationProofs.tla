------------------------- MODULE RegistrationProofs -------------------------
(***************************************************************************)
(* Proofs about Registration for any registrations, codes, names and faults. *)
(*                                                                         *)
(* The argument: between its UPDATE and the end of its transaction a         *)
(* registration has the lock on its code, and the code is unused; nobody     *)
(* else commits a use or a reset of it.  So each commit turns an unused code *)
(* into a used one, and each reset a used one into an unused one: the number *)
(* of accounts a code admitted is its number of resets, plus one while it is *)
(* used.                                                                    *)
(*   A code that had expired when a registration began stays so for it,      *)
(* unless an erasure that began later writes expires_at again: the UPDATE    *)
(* compares with the registration's own NOW().                               *)
(***************************************************************************)
EXTENDS Registration, FiniteSetTheorems, TLAPS

\* Where a registration is determines what it has: a code and a name, a row of
\* its own, and the lock of its unused code.
Progress ==
    \A r \in Regs :
        /\ rpc[r] # "idle" => rcode[r] \in Codes /\ name[r] \in Names
        /\ rpc[r] \in {"idle", "consume", "insert", "invalid", "taken"} => account[r] = "none"
        /\ rpc[r] = "commit" => account[r] = "pending"
        /\ rpc[r] \in {"insert", "commit"} => lock[rcode[r]] = r /\ usedBy[rcode[r]] = None

\* Only a live account is being deleted.
DeletionsOfLive == \A a \in Accounts : Deleting(a) => account[a] = "live"

\* A name has one holder, in a committed row or not.
OneHolder ==
    \A a, b \in Accounts :
        (/\ account[a] \in {"pending", "live"} /\ account[b] \in {"pending", "live"}
         /\ name[a] = name[b]) => a = b

\* Every use and every reset of a code is counted.
Uses(c) == IF usedBy[c] = None THEN 0 ELSE 1
Counted == \A c \in Codes : Cardinality(Admitted(c)) = resets[c] + Uses(c)

Rest == Progress /\ DeletionsOfLive /\ OneHolder /\ Counted /\ BurnedMeansAdmitted
IInv == TypeOK /\ Rest

-----------------------------------------------------------------------------
\* The accounts a code admitted are finitely many.
LEMMA AdmittedFinite ==
  ASSUME NEW c \in Codes
  PROVE  IsFiniteSet(Admitted(c)) /\ Cardinality(Admitted(c)) \in Nat
<1>1. Admitted(c) \in SUBSET Regs
  BY DEF Admitted
<1>2. IsFiniteSet(Admitted(c))
  BY <1>1, FS_Subset, RegistrationAssumption
<1>3. QED
  BY <1>2, FS_CardinalityType

\* The type invariant holds initially.
LEMMA InitTypeOK == Init => TypeOK
  BY RegistrationAssumption DEF Init, TypeOK, Accounts, Time, Never, AdminRequests

\* Every step preserves the type invariant.
LEMMA NextTypeOK == TypeOK /\ [Next]_vars => TypeOK'
<1> SUFFICES ASSUME TypeOK, [Next]_vars PROVE TypeOK'
  OBVIOUS
<1> USE RegistrationAssumption
<1>1. CASE Tick
  BY <1>1 DEF Tick, TypeOK, codes, users, regs, dels, Time
<1>2. ASSUME NEW c \in Codes, NEW until \in Time \cup {Never}, AdminCreate(c, until) PROVE TypeOK'
  <2>1. expires' \in [Codes -> Time \cup {Never}]
    BY <1>2 DEF AdminCreate, TypeOK
  <2> QED BY <1>2, <2>1 DEF AdminCreate, TypeOK, users, regs, dels
<1>3. ASSUME NEW c \in Codes, AdminReset(c) PROVE TypeOK'
  BY <1>3 DEF AdminReset, TypeOK, users, regs, dels
<1>4. ASSUME NEW r \in Regs, NEW c \in Codes, NEW n \in Names, Begin(r, c, n) PROVE TypeOK'
  BY <1>4 DEF Begin, TypeOK, codes, dels, Accounts
<1>5. ASSUME NEW r \in Regs, Consume(r) PROVE TypeOK'
  BY <1>5 DEF Consume, Rollback, Release, Valid, TypeOK, dels, Accounts
<1>6. ASSUME NEW r \in Regs, Insert(r) PROVE TypeOK'
  BY <1>6 DEF Insert, Rollback, Release, TypeOK, dels, Accounts
<1>7. ASSUME NEW r \in Regs, Commit(r) PROVE TypeOK'
  BY <1>7 DEF Commit, CodeBurned, Rollback, Release, TypeOK, dels, Accounts
<1>8. ASSUME NEW r \in Regs, Respond(r) PROVE TypeOK'
  BY <1>8 DEF Respond, TypeOK, codes, users, dels
<1>9. ASSUME NEW a \in Accounts, DeleteBegin(a) PROVE TypeOK'
  BY <1>9 DEF DeleteBegin, TypeOK, codes, users, regs
<1>10. ASSUME NEW a \in Accounts, DeleteFinds(a) PROVE TypeOK'
  BY <1>10 DEF DeleteFinds, TypeOK, codes, users, regs
<1>11. ASSUME NEW a \in Accounts, NEW c \in Codes, DeleteLocks(a, c) PROVE TypeOK'
  BY <1>11 DEF DeleteLocks, TypeOK, codes, users, regs
<1>12. ASSUME NEW a \in Accounts, DeleteCommit(a) PROVE TypeOK'
  BY <1>12 DEF DeleteCommit, Release, TypeOK, regs
<1>13. ASSUME NEW a \in Accounts, DeleteRollback(a) PROVE TypeOK'
  BY <1>13 DEF DeleteRollback, Release, TypeOK, codes, users, regs
<1>14. ASSUME NEW r \in Regs, NEW a \in Accounts, AbortRegistration(r, a) PROVE TypeOK'
  BY <1>14 DEF AbortRegistration, Rollback, Release, TypeOK, dels, Accounts
<1>15. CASE UNCHANGED vars
  BY <1>15 DEF vars, codes, users, regs, dels, TypeOK
<1>a. ASSUME NEW q \in AdminRequests, AdminAsks(q) PROVE TypeOK'
  BY <1>a DEF AdminAsks, TypeOK, users, regs, dels
<1>16. QED
  BY <1>a, <1>1, <1>2, <1>3, <1>4, <1>5, <1>6, <1>7, <1>8, <1>9, <1>10, <1>11, <1>12, <1>13,
     <1>14, <1>15
     DEF Next, RegisterStep, DeleteStep, DeleteFails, Deadlock, AbortDeletion

-----------------------------------------------------------------------------
\* The accounting of a code stands as long as the accounts it admitted, its
\* owner and its resets do.
LEMMA CountStands ==
  ASSUME Counted, BurnedMeansAdmitted, usedBy' = usedBy, resets' = resets,
         \A c \in Codes : Admitted(c)' = Admitted(c),
         \A c \in Codes : \A r \in Admitted(c) : name'[r] = name[r]
  PROVE  Counted' /\ BurnedMeansAdmitted'
  BY DEF Counted, Uses, BurnedMeansAdmitted

\* A registration that rolls back leaves no account and no lock.
LEMMA RollbackKeeps ==
  ASSUME TypeOK, Rest, NEW r \in Regs, rpc[r] \in {"consume", "insert", "commit"},
         NEW outcome \in {"invalid", "taken", "failed"}, Rollback(r, outcome),
         UNCHANGED <<resets, name, rcode, dpc>>
  PROVE  Rest'
<1> USE RegistrationAssumption
<1>1. account[r] \in {"none", "pending"} /\ account' = [account EXCEPT ![r] = "none"]
  BY DEF Rest, Progress, Rollback
<1>2. Progress'
  <2> SUFFICES ASSUME NEW q \in Regs PROVE Progress!(q)'
    BY DEF Progress
  <2>1. CASE q = r
    BY <2>1, <1>1 DEF Rest, Progress, Rollback, TypeOK, Accounts
  <2>2. CASE q # r
    <3>1. rpc'[q] = rpc[q] /\ account'[q] = account[q] /\ usedBy' = usedBy
      BY <2>2, <1>1 DEF Rollback, TypeOK, Accounts
    <3>2. ASSUME rpc[q] \in {"insert", "commit"} PROVE lock'[rcode[q]] = q
      BY <2>2, <3>2 DEF Rest, Progress, Rollback, Release
    <3>3. QED
      BY <3>1, <3>2 DEF Rest, Progress
  <2>3. QED
    BY <2>1, <2>2
<1>3. DeletionsOfLive'
  BY <1>1 DEF Rest, DeletionsOfLive, Deleting, TypeOK, Accounts
<1>4. OneHolder'
  BY <1>1 DEF Rest, OneHolder, TypeOK, Accounts
<1>5. \A c \in Codes : Admitted(c)' = Admitted(c)
  BY <1>1 DEF Admitted, TypeOK, Accounts
<1>6. QED
  BY <1>2, <1>3, <1>4, <1>5, CountStands DEF Rest, Rollback

\* A deletion that ends gives back its own locks only, never a registration's.
LEMMA DeletionKeepsLocks ==
  ASSUME TypeOK, Rest, NEW a \in Accounts, Deleting(a), Release(a),
         UNCHANGED <<usedBy, name, rpc, rcode>>,
         account' = account \/ account' = [account EXCEPT ![a] = "gone"]
  PROVE  Progress'
<1> SUFFICES ASSUME NEW q \in Regs PROVE Progress!(q)'
  BY DEF Progress
<1>1. account[a] = "live"
  BY DEF Rest, DeletionsOfLive
<1>2. ASSUME rpc[q] \in {"insert", "commit"} PROVE lock'[rcode[q]] = q
  BY <1>1, <1>2 DEF Rest, Progress, Release
<1>3. account'[q] = account[q] \/ q = a
  BY DEF TypeOK, Accounts
<1>4. QED
  BY <1>1, <1>2, <1>3 DEF Rest, Progress

\* The commit of a registration counts one use of its code.
LEMMA CommitKeeps ==
  ASSUME TypeOK, Rest, NEW r \in Regs, rpc[r] = "commit",
         NEW outcome \in {"respond", "failed"}, rpc' = [rpc EXCEPT ![r] = outcome],
         account' = [account EXCEPT ![r] = "live"], usedBy' = CodeBurned(r), Release(r),
         UNCHANGED <<resets, name, rcode, dpc>>
  PROVE  Rest'
<1> DEFINE c == rcode[r]
<1> USE RegistrationAssumption
<1>1. /\ c \in Codes /\ name[r] \in Names /\ account[r] = "pending"
      /\ lock[c] = r /\ usedBy[c] = None
  BY DEF Rest, Progress
<1>2. Progress'
  <2> SUFFICES ASSUME NEW q \in Regs PROVE Progress!(q)'
    BY DEF Progress
  <2>1. CASE q = r
    BY <2>1, <1>1 DEF Rest, Progress, TypeOK, Accounts
  <2>2. CASE q # r
    <3>1. rpc'[q] = rpc[q] /\ account'[q] = account[q]
      BY <2>2 DEF TypeOK, Accounts
    <3>2. ASSUME rpc[q] \in {"insert", "commit"}
          PROVE  lock'[rcode[q]] = q /\ usedBy'[rcode[q]] = None
      <4>1. lock[rcode[q]] = q /\ rcode[q] \in Codes /\ usedBy[rcode[q]] = None
        BY <3>2 DEF Rest, Progress
      <4>2. rcode[q] # c
        BY <4>1, <1>1, <2>2
      <4>3. QED
        BY <4>1, <4>2, <2>2 DEF Release, CodeBurned, TypeOK
    <3>3. QED
      BY <3>1, <3>2 DEF Rest, Progress
  <2>3. QED
    BY <2>1, <2>2
<1>3. DeletionsOfLive'
  BY DEF Rest, DeletionsOfLive, Deleting, TypeOK, Accounts
<1>4. OneHolder'
  BY <1>1 DEF Rest, OneHolder, TypeOK, Accounts
<1>5. Admitted(c)' = Admitted(c) \cup {r} /\ r \notin Admitted(c)
  BY <1>1 DEF Admitted, TypeOK, Accounts
<1>6. \A d \in Codes \ {c} : Admitted(d)' = Admitted(d) /\ usedBy'[d] = usedBy[d]
  BY <1>1 DEF Admitted, TypeOK, Accounts, CodeBurned
<1>7. usedBy'[c] = name[r] /\ usedBy'[c] # None
  BY <1>1 DEF CodeBurned, TypeOK
<1>8. Counted'
  <2>1. Cardinality(Admitted(c)') = Cardinality(Admitted(c)) + 1
    BY <1>1, <1>5, AdmittedFinite, FS_AddElement
  <2>2. Cardinality(Admitted(c)) = resets[c] /\ resets[c] \in Nat
    BY <1>1 DEF Rest, Counted, Uses, TypeOK
  <2>3. Cardinality(Admitted(c)') = resets'[c] + Uses(c)'
    BY <2>1, <2>2, <1>7 DEF Uses
  <2>4. QED
    BY <2>3, <1>6 DEF Rest, Counted, Uses
<1>9. BurnedMeansAdmitted'
  BY <1>5, <1>6, <1>7 DEF Rest, BurnedMeansAdmitted
<1>10. QED
  BY <1>2, <1>3, <1>4, <1>8, <1>9 DEF Rest

\* The inductive invariant holds initially.
LEMMA InitIInv == Init => IInv
<1> SUFFICES ASSUME Init PROVE IInv
  OBVIOUS
<1>1. TypeOK
  BY InitTypeOK
<1>2. Progress /\ DeletionsOfLive /\ OneHolder
  BY RegistrationAssumption DEF Init, Progress, DeletionsOfLive, Deleting, OneHolder, Accounts
<1>3. \A c \in Codes : Admitted(c) = {}
  BY RegistrationAssumption DEF Init, Admitted, Accounts
<1>4. \A c \in Codes : usedBy[c] = None /\ resets[c] = 0
  BY DEF Init
<1>5. Counted /\ BurnedMeansAdmitted
  BY <1>3, <1>4, FS_EmptySet DEF Counted, Uses, BurnedMeansAdmitted
<1>6. QED
  BY <1>1, <1>2, <1>5 DEF IInv, Rest

\* Every step preserves it.
LEMMA NextIInv == IInv /\ [Next]_vars => IInv'
<1> SUFFICES ASSUME IInv, [Next]_vars PROVE IInv'
  OBVIOUS
<1> USE RegistrationAssumption
<1>t. TypeOK /\ TypeOK' /\ Rest
  BY NextTypeOK DEF IInv
<1>1. ASSUME UNCHANGED <<usedBy, lock, resets, users, rpc, rcode, dpc>> PROVE Rest'
  BY <1>t, <1>1 DEF Rest, Progress, DeletionsOfLive, Deleting, OneHolder, Counted, Uses,
     BurnedMeansAdmitted, Admitted, users
<1>2. ASSUME \/ Tick \/ \E q \in AdminRequests : AdminAsks(q)
             \/ \E c \in Codes, until \in Time \cup {Never} : AdminCreate(c, until)
      PROVE  Rest'
  BY <1>1, <1>2 DEF Tick, AdminAsks, AdminCreate, codes, regs, dels
<1>3. ASSUME NEW c \in Codes, AdminReset(c) PROVE Rest'
  <2>1. Progress' /\ DeletionsOfLive' /\ OneHolder'
    BY <1>t, <1>3 DEF AdminReset, Rest, Progress, DeletionsOfLive, Deleting, OneHolder, users,
       regs, dels, TypeOK
  <2>2. \A d \in Codes : Admitted(d)' = Admitted(d)
    BY <1>3 DEF AdminReset, Admitted, users, regs
  <2>3. Counted'
    BY <1>t, <1>3, <2>2 DEF AdminReset, Rest, Counted, Uses, TypeOK
  <2>4. BurnedMeansAdmitted'
    BY <1>t, <1>3, <2>2 DEF AdminReset, Rest, BurnedMeansAdmitted, TypeOK, users
  <2>5. QED
    BY <2>1, <2>3, <2>4 DEF Rest
<1>4. ASSUME NEW r \in Regs, NEW c \in Codes, NEW n \in Names, Begin(r, c, n) PROVE Rest'
  <2>1. account[r] = "none" /\ account' = account
    BY <1>t, <1>4 DEF Begin, Rest, Progress
  <2>2. Progress' /\ DeletionsOfLive' /\ OneHolder'
    BY <1>t, <1>4, <2>1 DEF Begin, Rest, Progress, DeletionsOfLive, Deleting, OneHolder, codes,
       dels, TypeOK, Accounts
  <2>3. \A d \in Codes : Admitted(d)' = Admitted(d) /\ r \notin Admitted(d)
    BY <1>t, <1>4, <2>1 DEF Begin, Admitted, TypeOK
  <2>4. \A d \in Codes : \A q \in Admitted(d) : name'[q] = name[q]
    BY <1>t, <1>4, <2>3 DEF Begin, Admitted, TypeOK, Accounts
  <2>5. QED
    BY <1>t, <1>4, <2>2, <2>3, <2>4, CountStands DEF Begin, Rest, codes
<1>5. ASSUME NEW r \in Regs, Consume(r) PROVE Rest'
  <2>1. CASE ~Valid(r, rcode[r])
    BY <1>t, <1>5, <2>1, RollbackKeeps DEF Consume, dels
  <2>2. CASE Valid(r, rcode[r])
    <3>1. /\ rpc[r] = "consume" /\ lock[rcode[r]] = None /\ usedBy[rcode[r]] = None
          /\ lock' = [lock EXCEPT ![rcode[r]] = r] /\ rpc' = [rpc EXCEPT ![r] = "insert"]
          /\ UNCHANGED <<usedBy, account, name, rcode, resets, dpc>>
      BY <1>5, <2>2 DEF Consume, RowFree, Valid, dels
    <3>2. Progress'
      BY <1>t, <3>1 DEF Rest, Progress, TypeOK, Accounts
    <3>3. DeletionsOfLive' /\ OneHolder' /\ \A d \in Codes : Admitted(d)' = Admitted(d)
      BY <1>t, <3>1 DEF Rest, DeletionsOfLive, Deleting, OneHolder, Admitted
    <3>4. QED
      BY <1>t, <3>1, <3>2, <3>3, CountStands DEF Rest
  <2>3. QED
    BY <2>1, <2>2
<1>6. ASSUME NEW r \in Regs, Insert(r) PROVE Rest'
  <2>1. ASSUME NEW outcome \in {"taken", "failed"}, Rollback(r, outcome) PROVE Rest'
    BY <1>t, <1>6, <2>1, RollbackKeeps DEF Insert, dels
  <2>2. CASE /\ NameFree(r, name[r]) /\ account' = [account EXCEPT ![r] = "pending"]
             /\ rpc' = [rpc EXCEPT ![r] = "commit"] /\ UNCHANGED <<lock, usedBy>>
    <3>1. rpc[r] = "insert" /\ account[r] = "none" /\ UNCHANGED <<name, rcode, resets, dpc>>
      BY <1>t, <1>6 DEF Insert, Rest, Progress, dels
    <3>2. Progress' /\ DeletionsOfLive'
      BY <1>t, <2>2, <3>1 DEF Rest, Progress, DeletionsOfLive, Deleting, TypeOK, Accounts
    <3>3. OneHolder'
      BY <1>t, <2>2, <3>1 DEF Rest, OneHolder, NameFree, Holders, TypeOK, Accounts
    <3>4. \A d \in Codes : Admitted(d)' = Admitted(d)
      BY <1>t, <2>2, <3>1 DEF Admitted, TypeOK, Accounts
    <3>5. QED
      BY <1>t, <2>2, <3>1, <3>2, <3>3, <3>4, CountStands DEF Rest
  <2>3. QED
    BY <1>6, <2>1, <2>2 DEF Insert
<1>7. ASSUME NEW r \in Regs, Commit(r) PROVE Rest'
  <2>1. CASE Rollback(r, "failed")
    BY <1>t, <1>7, <2>1, RollbackKeeps DEF Commit, dels
  <2>2. ASSUME NEW outcome \in {"respond", "failed"}, rpc' = [rpc EXCEPT ![r] = outcome],
               account' = [account EXCEPT ![r] = "live"], usedBy' = CodeBurned(r), Release(r)
        PROVE  Rest'
    BY <1>t, <1>7, <2>2, CommitKeeps DEF Commit, dels
  <2>3. QED
    BY <1>7, <2>1, <2>2 DEF Commit
<1>8. ASSUME NEW r \in Regs, Respond(r) PROVE Rest'
  <2>1. Progress' /\ DeletionsOfLive' /\ OneHolder' /\ \A d \in Codes : Admitted(d)' = Admitted(d)
    BY <1>t, <1>8 DEF Respond, Rest, Progress, DeletionsOfLive, Deleting, OneHolder, Admitted,
       codes, users, dels, TypeOK
  <2>2. QED
    BY <1>t, <1>8, <2>1, CountStands DEF Respond, Rest, codes, users
<1>9. ASSUME NEW a \in Accounts, DeleteBegin(a) \/ DeleteFinds(a) PROVE Rest'
  <2>1. UNCHANGED <<usedBy, lock, resets, account, name, rpc, rcode>>
    BY <1>9 DEF DeleteBegin, DeleteFinds, codes, users, regs
  <2>2. DeletionsOfLive'
    BY <1>t, <1>9, <2>1 DEF DeleteBegin, DeleteFinds, Rest, DeletionsOfLive, Deleting, TypeOK
  <2>3. Progress' /\ OneHolder' /\ \A d \in Codes : Admitted(d)' = Admitted(d)
    BY <1>t, <2>1 DEF Rest, Progress, OneHolder, Admitted
  <2>4. QED
    BY <1>t, <2>1, <2>2, <2>3, CountStands DEF Rest
<1>10. ASSUME NEW a \in Accounts, NEW c \in Codes, DeleteLocks(a, c) PROVE Rest'
  <2>1. /\ UNCHANGED <<usedBy, resets, account, name, rpc, rcode, dpc>>
        /\ lock[c] = None /\ \A d \in Codes \ {c} : lock'[d] = lock[d]
    BY <1>t, <1>10 DEF DeleteLocks, codes, users, regs, TypeOK
  <2>2. Progress'
    BY <1>t, <2>1 DEF Rest, Progress, Accounts
  <2>3. DeletionsOfLive' /\ OneHolder' /\ \A d \in Codes : Admitted(d)' = Admitted(d)
    BY <1>t, <2>1 DEF Rest, DeletionsOfLive, Deleting, OneHolder, Admitted
  <2>4. QED
    BY <1>t, <2>1, <2>2, <2>3, CountStands DEF Rest
<1>11. ASSUME NEW a \in Accounts, DeleteCommit(a) PROVE Rest'
  <2>1. /\ Deleting(a) /\ account[a] = "live" /\ Release(a)
        /\ account' = [account EXCEPT ![a] = "gone"] /\ dpc' = [dpc EXCEPT ![a] = "done"]
        /\ UNCHANGED <<usedBy, resets, name, rpc, rcode>>
    BY <1>t, <1>11 DEF DeleteCommit, Deleting, Rest, DeletionsOfLive, regs
  <2>2. Progress'
    BY <1>t, <2>1, DeletionKeepsLocks
  <2>3. DeletionsOfLive' /\ OneHolder'
    BY <1>t, <2>1 DEF Rest, DeletionsOfLive, Deleting, OneHolder, TypeOK
  <2>4. \A d \in Codes : Admitted(d)' = Admitted(d)
    BY <1>t, <2>1 DEF Admitted, TypeOK
  <2>5. QED
    BY <1>t, <2>1, <2>2, <2>3, <2>4, CountStands DEF Rest
<1>12. ASSUME NEW a \in Accounts, Deleting(a), DeleteRollback(a) PROVE Rest'
  <2>1. /\ Release(a) /\ dpc' = [dpc EXCEPT ![a] = "failed"]
        /\ UNCHANGED <<usedBy, resets, account, name, rpc, rcode>>
    BY <1>12 DEF DeleteRollback, codes, users, regs
  <2>2. Progress'
    BY <1>t, <1>12, <2>1, DeletionKeepsLocks
  <2>3. DeletionsOfLive' /\ OneHolder' /\ \A d \in Codes : Admitted(d)' = Admitted(d)
    BY <1>t, <2>1 DEF Rest, DeletionsOfLive, Deleting, OneHolder, Admitted, TypeOK
  <2>4. QED
    BY <1>t, <2>1, <2>2, <2>3, CountStands DEF Rest
<1>13. ASSUME NEW r \in Regs, NEW a \in Accounts, AbortRegistration(r, a) PROVE Rest'
  <2>1. /\ rpc[r] \in {"consume", "insert", "commit"} /\ Rollback(r, "failed")
        /\ UNCHANGED <<resets, name, rcode, dpc>>
    BY <1>13 DEF AbortRegistration, Cycle, dels
  <2>2. QED
    BY <1>t, <2>1, RollbackKeeps
<1>14. ASSUME NEW r \in Regs, NEW a \in Accounts, AbortDeletion(r, a) PROVE Rest'
  <2>1. Deleting(a) /\ DeleteRollback(a)
    BY <1>14 DEF AbortDeletion, Cycle, Deleting
  <2>2. QED
    BY <1>12, <2>1
<1>15. ASSUME UNCHANGED vars PROVE Rest'
  BY <1>1, <1>15 DEF vars, codes, users, regs, dels
<1>16. Rest'
  BY <1>2, <1>3, <1>4, <1>5, <1>6, <1>7, <1>8, <1>9, <1>10, <1>11, <1>12, <1>13, <1>14, <1>15
     DEF Next, RegisterStep, DeleteStep, DeleteFails, Deadlock
<1>17. QED
  BY <1>t, <1>16 DEF IInv

-----------------------------------------------------------------------------
\* The inductive invariant holds throughout.
THEOREM Invariant == Spec => []IInv
  BY InitIInv, NextIInv, PTL DEF Spec

\* Registration is type correct: no step of RegisterWithInvite, the admin
\* handlers or DeleteAccountGDPR touches a code that has no row.
THEOREM TypeCorrect == Spec => []TypeOK
<1>1. IInv => TypeOK
  BY DEF IInv
<1>2. QED
  BY <1>1, Invariant, PTL

\* However many registrations race for a code, RegisterWithInvite admits one
\* account for it and one more per reset.
THEOREM InviteIsSingleUse == Spec => []OneAccountPerUse
<1>1. IInv => OneAccountPerUse
  BY DEF IInv, Rest, Counted, Uses, OneAccountPerUse, TypeOK
<1>2. QED
  BY <1>1, Invariant, PTL

\* A code marked as used by RegisterWithInvite admitted the account it names.
THEOREM NoBurnWithoutAccount == Spec => []BurnedMeansAdmitted
<1>1. IInv => BurnedMeansAdmitted
  BY DEF IInv, Rest
<1>2. QED
  BY <1>1, Invariant, PTL

\* No two accounts that are not deleted share a username, however
\* RegisterWithInvite and DeleteAccountGDPR interleave.
THEOREM UsernamesUnique == Spec => []NamesUnique
<1>1. IInv => NamesUnique
  BY DEF IInv, Rest, OneHolder, NamesUnique
<1>2. QED
  BY <1>1, Invariant, PTL

-----------------------------------------------------------------------------
(* Expired codes *)

\* An erasure that began after registration r has committed.
Revived(r) == \E a \in Accounts : dpc[a] = "done" /\ dnow[a] > rnow[r]

\* A code that had expired when r began is still expired for r, unless revived.
StaysExpired ==
    \A r \in Regs : \A c \in expired[r] : expires[c] <= rnow[r] \/ Revived(r)

\* A registration that got past its UPDATE with such a code met a revived one.
PassedOnlyRevived ==
    \A r \in Regs :
        rcode[r] \in expired[r] /\ (rpc[r] \in {"insert", "commit"} \/ account[r] # "none")
            => Revived(r)

EInv == IInv /\ StaysExpired /\ PassedOnlyRevived

\* An erasure that committed stays committed and keeps its NOW().
LEMMA RevivedStays ==
  ASSUME TypeOK, [Next]_vars, NEW r \in Regs, rnow'[r] = rnow[r], Revived(r)
  PROVE  Revived(r)'
<1> PICK a \in Accounts : dpc[a] = "done" /\ dnow[a] > rnow[r]
  BY DEF Revived
<1>1. ASSUME NEW b \in Accounts, b # a, \E s : dpc' = [dpc EXCEPT ![b] = s] PROVE dpc'[a] = "done"
  BY <1>1 DEF TypeOK
<1>2. ASSUME NEW b \in Accounts,
             \/ DeleteBegin(b) \/ DeleteFinds(b) \/ DeleteCommit(b)
             \/ Deleting(b) /\ DeleteRollback(b)
      PROVE  dpc'[a] = "done" /\ dnow'[a] = dnow[a]
  <2>1. CASE b = a
    BY <1>2, <2>1 DEF DeleteBegin, DeleteFinds, DeleteCommit, Deleting
  <2>2. CASE b # a
    BY <1>1, <1>2, <2>2 DEF DeleteBegin, DeleteFinds, DeleteCommit, DeleteRollback, TypeOK
  <2>3. QED
    BY <2>1, <2>2
<1>3. dpc'[a] = "done" /\ dnow'[a] = dnow[a]
  <2>1. \/ UNCHANGED <<dpc, dnow>>
        \/ \E b \in Accounts : \/ DeleteBegin(b) \/ DeleteFinds(b) \/ DeleteCommit(b)
                               \/ Deleting(b) /\ DeleteRollback(b)
    BY Zenon DEF Next, vars, dels, Tick, AdminAsks, AdminCreate, AdminReset, Begin, RegisterStep,
       Consume, Insert, Commit, Respond, DeleteStep, DeleteLocks, DeleteFails, Deadlock, Cycle, Deleting,
       AbortRegistration, AbortDeletion
  <2>2. QED
    BY <2>1, <1>2
<1>4. QED
  BY <1>3 DEF Revived

\* Only the administrator's create, a Begin and the commit of an erasure change
\* what StaysExpired speaks of.
LEMMA ExpiryStep ==
  ASSUME [Next]_vars
  PROVE  \/ UNCHANGED <<created, expires, rnow, expired>>
         \/ /\ \E c \in Codes, until \in Time \cup {Never} : AdminCreate(c, until)
            /\ UNCHANGED <<rnow, expired>>
         \/ \E r \in Regs, c \in Codes, n \in Names : Begin(r, c, n)
         \/ \E a \in Accounts : DeleteCommit(a) /\ UNCHANGED <<rnow, expired>>
BY Zenon DEF Next, vars, codes, regs, Tick, AdminAsks, AdminCreate, AdminReset, RegisterStep,
   Consume, Insert, Commit, Respond, DeleteBegin, DeleteStep, DeleteFinds, DeleteLocks, DeleteCommit,
   DeleteFails, DeleteRollback, Deadlock, AbortRegistration, AbortDeletion

\* Every step preserves StaysExpired: the commit of an erasure gives the codes it
\* has locked the time at which it began.
LEMMA ExpiredStays == TypeOK /\ StaysExpired /\ [Next]_vars => StaysExpired'
<1> SUFFICES ASSUME TypeOK, StaysExpired, [Next]_vars,
                    NEW r \in Regs, NEW c \in expired'[r]
             PROVE  expires'[c] <= rnow'[r] \/ Revived(r)'
  BY DEF StaysExpired
<1>1. ASSUME rnow'[r] = rnow[r], c \in expired[r], expires'[c] = expires[c]
      PROVE  expires'[c] <= rnow'[r] \/ Revived(r)'
  BY <1>1, RevivedStays DEF StaysExpired
<1>2. ASSUME NEW d \in Codes, NEW until \in Time \cup {Never}, AdminCreate(d, until),
             UNCHANGED <<rnow, expired>>
      PROVE  expires'[c] <= rnow'[r] \/ Revived(r)'
  <2>1. c \in expired[r] /\ c \in created
    BY <1>2 DEF TypeOK
  <2>2. expires'[c] = expires[c]
    BY <1>2, <2>1 DEF AdminCreate, TypeOK
  <2>3. QED
    BY <1>1, <1>2, <2>2
<1>3. ASSUME NEW q \in Regs, NEW d \in Codes, NEW n \in Names, Begin(q, d, n)
      PROVE  expires'[c] <= rnow'[r] \/ Revived(r)'
  <2>1. CASE q = r
    BY <1>3, <2>1 DEF Begin, codes, TypeOK
  <2>2. CASE q # r
    BY <1>1, <1>3, <2>2 DEF Begin, codes, TypeOK
  <2>3. QED
    BY <2>1, <2>2
<1>4. ASSUME NEW a \in Accounts, DeleteCommit(a), UNCHANGED <<rnow, expired>>
      PROVE  expires'[c] <= rnow'[r] \/ Revived(r)'
  <2>1. c \in Codes /\ c \in expired[r]
    BY <1>4 DEF TypeOK
  <2>2. CASE lock[c] # a
    BY <1>1, <1>4, <2>1, <2>2 DEF DeleteCommit
  <2>3. CASE lock[c] = a
    <3>1. expires'[c] = dnow[a] /\ dnow'[a] = dnow[a] /\ dpc'[a] = "done"
      BY <1>4, <2>1, <2>3 DEF DeleteCommit, TypeOK
    <3>2. dnow[a] \in Int /\ rnow[r] \in Int
      BY RegistrationAssumption DEF TypeOK, Time
    <3>3. QED
      BY <1>4, <3>1, <3>2 DEF Revived
  <2>4. QED
    BY <2>2, <2>3
<1>5. CASE UNCHANGED <<created, expires, rnow, expired>>
  BY <1>1, <1>5
<1>6. QED
  BY <1>2, <1>3, <1>4, <1>5, ExpiryStep

\* Every step preserves PassedOnlyRevived: the UPDATE asks for expires_at > NOW().
LEMMA PassedStays == EInv /\ [Next]_vars => PassedOnlyRevived'
<1> SUFFICES ASSUME EInv, [Next]_vars, NEW r \in Regs, rcode'[r] \in expired'[r],
                    rpc'[r] \in {"insert", "commit"} \/ account'[r] # "none"
             PROVE  Revived(r)'
  BY DEF PassedOnlyRevived
<1>t. TypeOK /\ IInv' /\ r \in Accounts
  BY NextIInv DEF EInv, IInv, Accounts
<1>1. ~\E c \in Codes, n \in Names : Begin(r, c, n)
  <2> SUFFICES ASSUME NEW c \in Codes, NEW n \in Names, Begin(r, c, n) PROVE FALSE
    OBVIOUS
  <2>1. rpc'[r] = "consume"
    BY <1>t DEF Begin, TypeOK
  <2>2. account'[r] = "none"
    BY <1>t, <2>1 DEF IInv, Rest, Progress
  <2>3. QED
    BY <2>1, <2>2
<1>2. rnow'[r] = rnow[r] /\ rcode'[r] = rcode[r] /\ expired'[r] = expired[r]
  <2>1. ASSUME NEW q \in Regs, q # r, NEW c \in Codes, NEW n \in Names, Begin(q, c, n)
        PROVE  rnow'[r] = rnow[r] /\ rcode'[r] = rcode[r] /\ expired'[r] = expired[r]
    BY <1>t, <2>1 DEF Begin, TypeOK
  <2>2. \/ UNCHANGED <<rcode, rnow, expired>>
        \/ \E q \in Regs, c \in Codes, n \in Names : Begin(q, c, n)
    BY Zenon DEF Next, vars, regs, Tick, AdminAsks, AdminCreate, AdminReset, RegisterStep, Consume,
       Insert, Commit, Respond, DeleteBegin, DeleteStep, DeleteFinds, DeleteLocks, DeleteCommit,
       DeleteFails, DeleteRollback, Deadlock, AbortRegistration, AbortDeletion
  <2>3. QED
    BY <1>1, <2>1, <2>2
<1>3. ASSUME rpc[r] \in {"insert", "commit"} \/ account[r] # "none" PROVE Revived(r)'
  BY <1>t, <1>2, <1>3, RevivedStays DEF EInv, PassedOnlyRevived
<1>4. ASSUME rpc[r] \notin {"insert", "commit"}, account[r] = "none" PROVE Revived(r)'
  <2>1. Consume(r) /\ Valid(r, rcode[r])
    <3>1. ASSUME NEW q \in Regs, q # r, RegisterStep(q) \/ \E a \in Accounts : AbortRegistration(q, a)
          PROVE  rpc'[r] = rpc[r] /\ account'[r] = account[r]
      BY <1>t, <3>1 DEF RegisterStep, Consume, Insert, Commit, Respond, AbortRegistration,
         Rollback, TypeOK, users
    <3>2. ASSUME Insert(r) \/ Commit(r) \/ Respond(r) \/ \E a \in Accounts : AbortRegistration(r, a)
          PROVE  FALSE
      <4>1. Respond(r) \/ rpc[r] \in {"insert", "commit"}
        BY <3>2 DEF Insert, Commit, AbortRegistration, Cycle
      <4>2. Respond(r) /\ account'[r] = "none"
        BY <1>4, <4>1 DEF Respond, users
      <4>3. rpc'[r] \in {"ok", "failed"}
        BY <1>t, <4>2 DEF Respond, TypeOK
      <4>4. QED
        BY <4>2, <4>3
    <3>3. ASSUME Consume(r), ~Valid(r, rcode[r]) PROVE FALSE
      <4>1. Rollback(r, "invalid")
        BY <3>3 DEF Consume
      <4>2. QED
        BY <1>t, <4>1 DEF Rollback, TypeOK
    <3>4. ASSUME NEW a \in Accounts, DeleteCommit(a) PROVE rpc' = rpc /\ account'[r] = account[r]
      <4>1. account[a] = "live"
        BY <3>4 DEF EInv, IInv, Rest, DeletionsOfLive, Deleting, DeleteCommit
      <4>2. QED
        BY <1>t, <1>4, <3>4, <4>1 DEF DeleteCommit, regs, TypeOK
    <3>5. ASSUME NEW q \in Regs, NEW c \in Codes, NEW n \in Names, Begin(q, c, n)
          PROVE  rpc'[r] = rpc[r] /\ account'[r] = account[r]
      BY <1>1, <1>t, <3>5 DEF Begin, TypeOK
    <3>6. \/ UNCHANGED <<rpc, account>>
          \/ \E q \in Regs : RegisterStep(q) \/ \E a \in Accounts : AbortRegistration(q, a)
          \/ \E a \in Accounts : DeleteCommit(a)
          \/ \E q \in Regs, c \in Codes, n \in Names : Begin(q, c, n)
      BY Zenon DEF Next, vars, regs, users, Tick, AdminAsks, AdminCreate, AdminReset, DeleteBegin,
         DeleteStep, DeleteFinds, DeleteLocks, DeleteFails, DeleteRollback, Deadlock, AbortDeletion
    <3>7. PICK q \in Regs : RegisterStep(q) \/ \E a \in Accounts : AbortRegistration(q, a)
      BY <1>4, <3>4, <3>5, <3>6
    <3>8. q = r
      BY <1>4, <3>1, <3>7
    <3>9. QED
      BY <3>2, <3>3, <3>7, <3>8 DEF RegisterStep
  <2>2. expires[rcode[r]] > rnow[r] /\ rcode[r] \in expired[r] /\ rcode[r] \in Codes
    BY <1>t, <1>2, <2>1 DEF Valid, TypeOK
  <2>3. expires[rcode[r]] \in Int /\ rnow[r] \in Int
    BY <1>t, <2>2, RegistrationAssumption DEF TypeOK, Time, Never
  <2>4. Revived(r)
    BY <2>2, <2>3 DEF EInv, StaysExpired
  <2>5. QED
    BY <1>t, <1>2, <2>4, RevivedStays
<1>5. QED
  BY <1>3, <1>4

\* An invite code that had expired when RegisterWithInvite began admits its
\* account only if DeleteAccountGDPR has set expires_at again since.
THEOREM RevivedOnlyByErasure == Spec => []OnlyErasureRevives
<1>1. Init => EInv
  BY InitIInv, RegistrationAssumption DEF Init, EInv, StaysExpired, PassedOnlyRevived, Accounts
<1>2. EInv /\ [Next]_vars => EInv'
  BY NextIInv, ExpiredStays, PassedStays DEF EInv, IInv
<1>3. EInv => OnlyErasureRevives
  BY DEF EInv, PassedOnlyRevived, Revived, OnlyErasureRevives
<1>4. QED
  BY <1>1, <1>2, <1>3, PTL DEF Spec

-----------------------------------------------------------------------------
(* Registration implements Membership *)

\* Steps that leave the live accounts and their names leave the members.
LEMMA MembersStand ==
  ASSUME \A a \in Accounts : (account'[a] = "live") <=> (account[a] = "live"),
         \A a \in Accounts : account[a] = "live" => name'[a] = name[a]
  PROVE  Members' = Members
BY DEF Members

\* A registration that rolls back had no live account.
LEMMA RollbackMembers ==
  ASSUME IInv, NEW r \in Regs, rpc[r] \in {"consume", "insert", "commit"}, NEW outcome,
         Rollback(r, outcome), UNCHANGED name
  PROVE  Members' = Members /\ usedBy' = usedBy
<1>1. account[r] # "live" /\ account' = [account EXCEPT ![r] = "none"] /\ usedBy' = usedBy
  BY DEF IInv, Rest, Progress, Rollback
<1>2. \A a \in Accounts : (account'[a] = "live") <=> (account[a] = "live")
  BY <1>1 DEF IInv, TypeOK
<1>3. QED
  BY <1>1, <1>2, MembersStand

\* The commit of a registration is a Join.
LEMMA CommitJoins ==
  ASSUME IInv, NEW r \in Regs, rpc[r] = "commit", account' = [account EXCEPT ![r] = "live"],
         usedBy' = CodeBurned(r), UNCHANGED <<created, allowed, name>>
  PROVE  Ledger!Next
<1> PICK c \in Codes, n \in Names : c = rcode[r] /\ n = name[r]
  BY DEF IInv, Rest, Progress
<1>1. c \in created /\ usedBy[c] = None /\ account[r] = "pending" /\ r \in Accounts
  BY DEF IInv, TypeOK, Rest, Progress, Accounts
<1>2. n \notin Members
  BY <1>1 DEF Members, IInv, Rest, OneHolder
<1>3. \A a \in Accounts : account'[a] = "live" <=> (account[a] = "live" \/ a = r)
  BY <1>1 DEF IInv, TypeOK
<1>4. Members' = Members \cup {n}
  BY <1>1, <1>3 DEF Members
<1>5. usedBy' = [usedBy EXCEPT ![c] = n]
  BY DEF CodeBurned
<1>6. Ledger!Join(c, n)
  BY <1>1, <1>2, <1>4, <1>5 DEF Ledger!Join
<1>7. QED
  BY <1>6 DEF Ledger!Next

\* The commit of an erasure is a Leave.
LEMMA EraseLeaves ==
  ASSUME IInv, NEW a \in Accounts, DeleteCommit(a), name[a] \in Names
  PROVE  Ledger!Next
<1> PICK n \in Names : n = name[a]
  OBVIOUS
<1>1. account[a] = "live" /\ account' = [account EXCEPT ![a] = "gone"]
      /\ UNCHANGED <<created, usedBy, allowed, name>>
  BY DEF IInv, Rest, DeletionsOfLive, Deleting, DeleteCommit
<1>2. n \in Members
  BY <1>1 DEF Members
<1>3. \A b \in Accounts : account'[b] = "live" <=> (account[b] = "live" /\ b # a)
  BY <1>1 DEF IInv, TypeOK
<1>4. \A b \in Accounts : account[b] = "live" /\ b # a => name[b] # n
  BY <1>1 DEF IInv, Rest, OneHolder
<1>5. Members' = Members \ {n}
  BY <1>1, <1>3, <1>4 DEF Members
<1>6. Ledger!Leave(n)
  BY <1>1, <1>2, <1>5 DEF Ledger!Leave
<1>7. QED
  BY <1>6 DEF Ledger!Next

\* A live account has a name.
LEMMA LiveIsNamed ==
  ASSUME IInv, NEW a \in Accounts, account[a] = "live", name[Seed] = Admin
  PROVE  name[a] \in Names
BY RegistrationAssumption DEF IInv, Rest, Progress, Accounts

\* The initial states are those of Membership.
LEMMA InitRefines == Init => Ledger!Init /\ name[Seed] = Admin
<1> SUFFICES ASSUME Init PROVE Ledger!Init /\ name[Seed] = Admin
  OBVIOUS
<1>1. \A a \in Accounts : account[a] = "live" <=> a = Seed
  BY DEF Init
<1>2. name[Seed] = Admin
  BY DEF Init, Accounts
<1>3. Members = {Admin}
  BY <1>1, <1>2 DEF Members, Accounts
<1>4. QED
  BY <1>2, <1>3 DEF Init, Ledger!Init

\* Every step is a step or a stutter of Membership.
LEMMA NextRefines ==
  IInv /\ name[Seed] = Admin /\ [Next]_vars
    => [Ledger!Next]_(Ledger!vars) /\ name'[Seed] = Admin
<1> SUFFICES ASSUME IInv, name[Seed] = Admin, [Next]_vars
             PROVE  [Ledger!Next]_(Ledger!vars) /\ name'[Seed] = Admin
  OBVIOUS
<1> USE RegistrationAssumption
<1> DEFINE Goal == [Ledger!Next]_(Ledger!vars)
<1>1. ASSUME UNCHANGED <<created, usedBy, allowed>>, Members' = Members PROVE Goal
  BY <1>1 DEF Ledger!vars
<1>2. ASSUME UNCHANGED <<created, usedBy, allowed, users>> PROVE Goal
  BY <1>1, <1>2, MembersStand DEF users
<1>3. ASSUME NEW q \in AdminRequests, AdminAsks(q) PROVE Goal
  <2>1. Members' = Members
    BY <1>3, MembersStand DEF AdminAsks, users
  <2>2. Admin \in Members
    BY <1>3 DEF AdminAsks, LetIn, Members
  <2>3. Ledger!Ask(q)
    BY <1>3, <2>1, <2>2 DEF AdminAsks, Ledger!Ask
  <2>4. q \in Ledger!Requests
    BY DEF AdminRequests, Ledger!Requests
  <2>5. QED
    BY <2>3, <2>4 DEF Ledger!Next
<1>4. ASSUME NEW c \in Codes, NEW until \in Time \cup {Never}, AdminCreate(c, until) PROVE Goal
  <2>1. Members' = Members
    BY <1>4, MembersStand DEF AdminCreate, users
  <2>2. Ledger!Issue(c)
    BY <1>4, <2>1 DEF AdminCreate, Ledger!Issue, Ledger!Done
  <2>3. QED
    BY <2>2 DEF Ledger!Next
<1>5. ASSUME NEW c \in Codes, AdminReset(c) PROVE Goal
  <2>1. Members' = Members
    BY <1>5, MembersStand DEF AdminReset, users
  <2>2. Ledger!Reset(c)
    BY <1>5, <2>1 DEF AdminReset, Ledger!Reset, Ledger!Done
  <2>3. QED
    BY <2>2 DEF Ledger!Next
<1>6. ASSUME NEW r \in Regs, NEW c \in Codes, NEW n \in Names, Begin(r, c, n) PROVE Goal
  <2>1. account[r] # "live" /\ \A a \in Accounts : a # r => name'[a] = name[a]
    BY <1>6 DEF Begin, IInv, Rest, Progress, TypeOK
  <2>2. Members' = Members
    BY <1>6, <2>1, MembersStand DEF Begin
  <2>3. QED
    BY <1>1, <1>6, <2>2 DEF Begin, codes
<1>7. ASSUME NEW r \in Regs, Consume(r) \/ Insert(r) PROVE Goal
  <2>1. rpc[r] \in {"consume", "insert", "commit"} /\ UNCHANGED <<created, allowed, name>>
    BY <1>7 DEF Consume, Insert
  <2>2. ASSUME NEW outcome, Rollback(r, outcome) PROVE Goal
    BY <1>1, <2>1, <2>2, RollbackMembers
  <2>3. CASE UNCHANGED <<account, usedBy>>
    BY <1>2, <2>1, <2>3 DEF users
  <2>4. CASE rpc[r] = "insert" /\ account' = [account EXCEPT ![r] = "pending"] /\ UNCHANGED usedBy
    <3>1. \A a \in Accounts : (account'[a] = "live") <=> (account[a] = "live")
      BY <2>4 DEF IInv, Rest, Progress, TypeOK
    <3>2. QED
      BY <1>1, <2>1, <2>4, <3>1, MembersStand
  <2>5. QED
    BY <1>7, <2>2, <2>3, <2>4 DEF Consume, Insert
<1>8. ASSUME NEW r \in Regs, Commit(r) PROVE Goal
  BY <1>1, <1>8, RollbackMembers, CommitJoins DEF Commit
<1>9. ASSUME NEW a \in Accounts, DeleteCommit(a) PROVE Goal
  BY <1>9, LiveIsNamed, EraseLeaves DEF DeleteCommit, IInv, Rest, DeletionsOfLive, Deleting
<1>10. ASSUME NEW r \in Regs, NEW a \in Accounts, AbortRegistration(r, a) PROVE Goal
  BY <1>1, <1>10, RollbackMembers DEF AbortRegistration, Cycle
<1>11. CASE Tick
  BY <1>2, <1>11 DEF Tick, codes, users
<1>12. ASSUME NEW r \in Regs, Respond(r) PROVE Goal
  BY <1>2, <1>12 DEF Respond, codes, users
<1>13. ASSUME NEW a \in Accounts,
              \/ DeleteBegin(a) \/ DeleteFinds(a) \/ DeleteRollback(a)
              \/ \E c \in Codes : DeleteLocks(a, c)
       PROVE  Goal
  BY <1>2, <1>13 DEF DeleteBegin, DeleteFinds, DeleteRollback, DeleteLocks, codes, users
<1>14. CASE UNCHANGED vars
  BY <1>2, <1>14 DEF vars, codes, users
<1>15. Goal
  BY <1>3, <1>4, <1>5, <1>6, <1>7, <1>8, <1>9, <1>10, <1>11, <1>12, <1>13, <1>14
     DEF Next, RegisterStep, DeleteStep, DeleteFails, Deadlock, AbortDeletion
<1>16. name'[Seed] = Admin
  <2>1. ASSUME NEW r \in Regs, NEW c \in Codes, NEW n \in Names, Begin(r, c, n)
        PROVE  name'[Seed] = name[Seed]
    BY <2>1 DEF Begin, IInv, TypeOK, Accounts
  <2>2. CASE UNCHANGED name
    BY <2>2
  <2>3. QED
    BY <2>1, <2>2 DEF Next, vars, users, Tick, AdminAsks, AdminCreate, AdminReset, RegisterStep,
       Consume, Insert, Commit, Respond, DeleteBegin, DeleteStep, DeleteFinds, DeleteLocks, DeleteCommit,
       DeleteFails, DeleteRollback, Deadlock, AbortRegistration, AbortDeletion
<1>17. QED
  BY <1>15, <1>16

\* The interleaved statements of RegisterWithInvite, DeleteAccountGDPR and the
\* administrator's handlers implement Membership: every registration takes effect
\* in one step, account, name and code together, or not at all, and codes are created
\* and reset only by requests that AuthMiddleware let in while the administrator's
\* account was live.  The account may be erased by the time they write.
THEOREM Implements == Spec => ActsAtomically
<1>1. Spec => []IInv
  BY Invariant
<1>2. Init => Ledger!Init /\ name[Seed] = Admin
  BY InitRefines
<1>3. IInv /\ name[Seed] = Admin /\ [Next]_vars
        => [Ledger!Next]_(Ledger!vars) /\ (name[Seed] = Admin)'
  BY NextRefines
<1>4. QED
  BY <1>1, <1>2, <1>3, PTL DEF Spec, ActsAtomically, Ledger!Spec
=============================================================================
