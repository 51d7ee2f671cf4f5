CONSTANTS
    r1 = r1
    p1 = p1
    p2 = p2
    w1 = w1
    c1 = c1
    g1 = g1
    Records = {r1}
    Pics = {p1, p2}
    Workers = {w1}
    Closers = {c1}
    Pages = {g1}
    Limit = 8
    NoPic = NoPic
    NoRecord = NoRecord
    Dropped = Dropped
    Fallback = TRUE
    MaxRequests = 3
SPECIFICATION Spec
INVARIANTS
    TypeOK
    SyncedWasTaken
    SyncedPicIsCurrent
SYMMETRY Symmetry
CHECK_DEADLOCK FALSE
