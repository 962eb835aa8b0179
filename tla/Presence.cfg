\* Three connections on two instances; every kind of fault.
SPECIFICATION Spec
CONSTANTS
    c1 = c1
    c2 = c2
    c3 = c3
    i1 = i1
    i2 = i2
    Conns = {c1, c2, c3}
    InstanceOf <- TwoInstances
    Faults = {"incr", "expire", "hset", "decr", "del", "hdel", "publish", "ttl", "crash"}
INVARIANTS NoGhostOnline LastEventIsOffline FollowerSeesOffline
CHECK_DEADLOCK FALSE
