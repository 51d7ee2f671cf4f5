CONSTANTS
    r1 = r1
    r2 = r2
    p1 = p1
    w1 = w1
    Records = {r1, r2}
    Pics = {p1}
    Workers = {w1}
    Closers = {}
    Pages = {}
    Limit = 2
    NoPic = NoPic
    NoRecord = NoRecord
    Dropped = Dropped
    Fallback = TRUE
    MaxRequests = 2
SPECIFICATION FairSpec
INVARIANTS
    FiledWasTaken
PROPERTIES
    SyncIsAttempted
CHECK_DEADLOCK FALSE
