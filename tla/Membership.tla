----------------------------- MODULE Membership -----------------------------
(***************************************************************************)
(* What invite-only registration promises, with every operation in one step: *)
(* a member joins by using up an invite code that exists and is unused, under *)
(* a username no member has; codes are created, and used ones made usable  *)
(* again, by requests sent while the administrator's name is a member's, even *)
(* if it no longer is when they are carried out; a member who leaves frees *)
(* the username and uses up nothing.                                       *)
(***************************************************************************)
CONSTANTS
    Codes, Names,
    Admin,     \* the administrator's username
    None       \* model value: absent

VARIABLES
    issued,    \* invite codes that exist
    usedBy,    \* per code: the username it admitted, or None
    members,   \* usernames of the accounts that are not deleted
    asked      \* requests of the administrator's that are not done

vars == <<issued, usedBy, members, asked>>

Requests == [op : {"create", "reset"}, code : Codes]

Init ==
    /\ issued = {}
    /\ usedBy = [c \in Codes |-> None]
    /\ members = {Admin}
    /\ asked = {}

Ask(q) ==
    /\ Admin \in members
    /\ asked' = asked \cup {q}
    /\ UNCHANGED <<issued, usedBy, members>>

\* A request is carried out once.
Done(q) ==
    /\ q \in asked
    /\ asked' = asked \ {q}

Issue(c) ==
    /\ Done([op |-> "create", code |-> c])
    /\ issued' = issued \cup {c}
    /\ UNCHANGED <<usedBy, members>>

Reset(c) ==
    /\ Done([op |-> "reset", code |-> c])
    /\ usedBy' = [usedBy EXCEPT ![c] = None]
    /\ UNCHANGED <<issued, members>>

Join(c, n) ==
    /\ c \in issued /\ usedBy[c] = None
    /\ n \notin members
    /\ usedBy' = [usedBy EXCEPT ![c] = n]
    /\ members' = members \cup {n}
    /\ UNCHANGED <<issued, asked>>

Leave(n) ==
    /\ n \in members
    /\ members' = members \ {n}
    /\ UNCHANGED <<issued, usedBy, asked>>

Next ==
    \/ \E q \in Requests : Ask(q)
    \/ \E c \in Codes : Issue(c) \/ Reset(c)
    \/ \E c \in Codes, n \in Names : Join(c, n)
    \/ \E n \in Names : Leave(n)

Spec == Init /\ [][Next]_vars
=============================================================================
