SPECIFICATION Spec
CONSTANTS
    Caches = {c1, c2}
    Notifiers = {n1, n2}
    MaxFetches = 5
    AsIntended = TRUE
    NoObject = NoObject
INVARIANTS
    TypeOK
    NoDanglingCallback
    SilentAfterStop
CHECK_DEADLOCK FALSE
