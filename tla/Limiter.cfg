\* Two keys and two requests; the entries of both can be evicted and come back.
SPECIFICATION Spec
CONSTANTS
    NoEntry = NoEntry
    Keys = {k1, k2}
    Reqs = {r1, r2}
    Burst = 2
    MaxWait = 1
    Ttl = 3
    MaxClock = 5
INVARIANTS WithinBudget
PROPERTIES ActsAsTokenBuckets
CHECK_DEADLOCK FALSE
