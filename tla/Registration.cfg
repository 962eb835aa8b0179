\* Two registrations and the erasure of accounts race for one code and two names.
SPECIFICATION FairSpec
CONSTANTS
    r1 = r1 r2 = r2 c1 = c1 admin = admin bob = bob
    None = None
    Regs = {r1, r2}
    Seed = seed
    Codes = {c1}
    Names = {admin, bob}
    Admin = admin
    MaxTime = 1
    MaxResets = 1
    MaxAsked = 1
    Faults = {"insert", "commit", "token", "delete"}
INVARIANTS OneAccountPerUse BurnedMeansAdmitted NamesUnique OnlyErasureRevives
PROPERTIES ActsAtomically EveryTransactionEnds
CHECK_DEADLOCK FALSE
