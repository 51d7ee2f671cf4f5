CONSTANTS
    o1 = o1
    o2 = o2
    r1 = r1
    Operators = {o1, o2}
    Dispatchers = {}
    Readers = {r1}
    MaxDispatches = 2
    MaxAttempts = 2
    MaxRefs = 3
SPECIFICATION Spec
SYMMETRY Symmetry
INVARIANTS
    TypeOK
    RunningHasItsAttempt
    ReadyIsEarned
