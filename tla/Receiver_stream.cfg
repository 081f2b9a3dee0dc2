SPECIFICATION FairSpec
CONSTANTS
    MaxMessageSize = 2
    Sizes = {0, 1, 2, 3}
    MaxMessages = 3
    MaxFaults = 2
INVARIANTS
    TypeOK
    OnlyMessages
    NoneSkipped
PROPERTIES
    ClosesOnlyOversize
    EveryMessageHandled
CHECK_DEADLOCK FALSE
