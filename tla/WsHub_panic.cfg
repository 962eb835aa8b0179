\* One connection closed while the subscriber is between the check and the send.
SPECIFICATION Spec
CONSTANTS
    c1 = c1
    u1 = u1
    u2 = u2
    NoConn = NoConn
    Conns = {c1}
    Users = {u1}
    UserOf <- OneConn
    sendQueueSize = 2
    SnapshotLen = 0
    ReplayLen = 0
    MaxEvents = 1
CHECK_DEADLOCK FALSE
INVARIANTS NoSendOnClosedChannel
