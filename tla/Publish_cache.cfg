SPECIFICATION FairSpec
CONSTANTS
    Paths = {"a"}
    MaxVersion = 2
    MaxSets = 2
    MaxLosses = 3
    Serialised = TRUE
INVARIANTS
    TypeOK
    CacheComplete
    StaleOnlyByLoss
    
PROPERTIES
    ImplementsMirror
    CatchesUp
CHECK_DEADLOCK FALSE
