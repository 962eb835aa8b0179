\* Up to three overlapping calls of connect(), three logins and three failures.
SPECIFICATION FairSpec
CONSTANTS
    k1 = k1 k2 = k2 k3 = k3
    None = None
    Calls = {k1, k2, k3}
    MaxLogins = 3
    MaxDrops = 3
INVARIANTS OneSocketUnlessOvertaken
PROPERTIES Reconnects
CHECK_DEADLOCK FALSE
