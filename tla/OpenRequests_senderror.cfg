SPECIFICATION FairSpec
CONSTANTS
    t1 = t1
    t2 = t2
    l1 = l1
    l2 = l2
    p1 = p1
    p2 = p2
    NoActor = NoActor
    NoPeer = NoPeer
    Threads = {t1}
    Loops = {l1}
    Peers = {p1}
    LoopOf <- OnePeer
    MaxId = 2
    MaxStops = 0
    Kinds = {"async"}
    FailingKinds = {"async"}
    CallbacksReissue = FALSE
PROPERTIES
    SendErrorReported
CHECK_DEADLOCK FALSE
