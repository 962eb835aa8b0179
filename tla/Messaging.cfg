\* A resend, a delete, a receipt or another sender; both parties connected; every kind of fault.
SPECIFICATION FairSpec
CONSTANTS
    a1 = a1
    b1 = b1
    r1 = r1
    r2 = r2
    k1 = k1
    None = None
    Users = {"alice", "bob", "carol"}
    Instances = {"i1", "i2"}
    Conns = {a1, b1}
    UserOf <- ConnUserOf
    InstanceOf <- ConnInstanceOf
    Reqs = {r1, r2}
    Pairs <- ToBob
    ClientIds = {k1}
    SinceIds = {0}
    MaxId = 2
    Faults = {"respond", "publish", "load", "replay", "subscriber"}
    MaxFaults = 1
INVARIANTS IdempotentSend OnlyParticipantsAreTold NoTextPushedAfterDeletion CatchUpMissesNothing
CONSTRAINT InOrder
PROPERTIES PublishedReachesEveryone
CHECK_DEADLOCK FALSE
