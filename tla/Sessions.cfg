\* Two tabs, one of which leaves, two calls, one login and logout, any one fault.
SPECIFICATION FairSpec
CONSTANTS
    t1 = t1 t2 = t2 p1 = p1 p2 = p2 p3 = p3
    None = None
    Tabs = {t1, t2}
    Calls = {p1, p2}
    MaxToken = 3
    MaxLogins = 1
    MaxLeaves = 1
    Faults = {"network", "server", "redis"}
    MaxFaults = 1
INVARIANTS TypeOK OneLiveTokenPerLogin SessionSurvives
PROPERTIES EveryCallEnds
CHECK_DEADLOCK FALSE
