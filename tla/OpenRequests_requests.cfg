SPECIFICATION FairSpec
CONSTANTS
    t1 = t1
    t2 = t2
    l1 = l1
    l2 = l2
    p1 = p1
    p2 = p2
    NoActor = NoActor
    NoPeer = NoPeer
    Threads = {t1, t2}
    Loops = {l1, l2}
    Peers = {p1, p2}
    LoopOf <- OwnLoops
    MaxId = 2
    MaxStops = 1
    Kinds = {"async", "sync"}
    FailingKinds = {"async", "sync"}
    CallbacksReissue = TRUE
INVARIANTS
    TypeOK
    ExactlyOnce
    SyncObjectAlive
PROPERTIES
    ImplementsLifecycle
    SentCompletes
    SyncReturns
CHECK_DEADLOCK FALSE
