SPECIFICATION Spec
CONSTANTS
    Caches = {c1}
    Notifiers = {n1}
    MaxFetches = 2
    AsIntended = TRUE
    NoObject = NoObject
INVARIANTS
    CallbacksNotRaced
CHECK_DEADLOCK FALSE
