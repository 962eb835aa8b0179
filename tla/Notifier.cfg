\* Two events, every remote call may fail, two changes of the environment.
SPECIFICATION NotifierFairSpec
CONSTANTS
    p1 = p1 p2 = p2 t1 = t1 t2 = t2
    None = None
    Pubs = {p1, p2}
    Tokens = {t1, t2}
    MaxAttempts = 3
    MaxChanges = 2
INVARIANTS NotifierTypeOK EveryEventCounted
PROPERTIES EveryEventEnds OfflineIsNotified
CHECK_DEADLOCK FALSE
