SPECIFICATION FairSpec
CONSTANTS
    MaxFetches = 2
    MaxChanges = 1
    MaxLosses = 2
    FetchCallback = {TRUE}
INVARIANTS
    TypeOK
    EstablishedUnlessDropped
    SettledUpToDate
PROPERTIES
    ReachesLastValue
CHECK_DEADLOCK FALSE
