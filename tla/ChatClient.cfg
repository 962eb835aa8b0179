\* Overlapping sends, retries, deletes, pages and live events.
SPECIFICATION ChatSpec
CONSTANTS
    o1 = o1
    o2 = o2
    o3 = o3
    None = None
    Ops = {o1, o2}
    MaxId = 2
    MaxTexts = 1
    MaxDeletes = 1
    MaxReconnects = 1
    PageSize = 1
    ChatFaults = {"refused", "answer", "event", "replay"}
    MaxChatFaults = 1
INVARIANTS ChatTypeOK PeerMessageShownOnce PendingIsBeingSent StoredOnceUnlessAnswerLost NoGapInHistory
SYMMETRY Symmetric
CHECK_DEADLOCK FALSE
