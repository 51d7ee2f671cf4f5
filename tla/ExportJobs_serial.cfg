CONSTANTS
    o1 = o1
    d1 = d1
    r1 = r1
    Operators = {o1}
    Dispatchers = {d1}
    Readers = {r1}
    MaxDispatches = 2
    MaxAttempts = 2
    MaxRefs = 3
SPECIFICATION Spec
INVARIANTS
    AuditMatchesRow
    ExpiryIsRecordedOnce
    AttemptWasDispatched
PROPERTIES
    LifecycleSpec
