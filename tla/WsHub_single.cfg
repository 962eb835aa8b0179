\* One connection, a queue of two frames, snapshot and replay.
SPECIFICATION FairSpec
CONSTANTS
    c1 = c1
    u1 = u1
    u2 = u2
    NoConn = NoConn
    Conns = {c1}
    Users = {u1, u2}
    UserOf <- OneConn
    sendQueueSize = 2
    SnapshotLen = 1
    ReplayLen = 2
    MaxEvents = 2
INVARIANTS TypeOK WireHasNoGap OpenClientIsComplete
CHECK_DEADLOCK FALSE
PROPERTIES ClosedClientGoes
