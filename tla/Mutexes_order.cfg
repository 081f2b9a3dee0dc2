SPECIFICATION Spec
CONSTANTS
    l1 = l1
    l2 = l2
    p1 = p1
    p2 = p2
    t1 = t1
    NoActor = NoActor
    NoPeer = NoPeer
    Threads = {t1}
    Loops = {l1, l2}
    Peers = {p1, p2}
    LoopsOf <- OwnLoops
    MayDo <- AsDocumented
    MaxEvents = 2
    MaxOps = 2
INVARIANTS
    NoCircularWait
CHECK_DEADLOCK FALSE
