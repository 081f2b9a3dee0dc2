SPECIFICATION Spec
CONSTANTS
    s1 = s1
    m1 = m1
    NoPath = NoPath
    Paths = {s1, m1}
    Methods = {m1}
    MaxAdds = 3
    MaxRequests = 1
    MaxLosses = 1
    MaxQueue = 1
    AddCallback = {TRUE}
    Overlap = FALSE
INVARIANTS
    TypeOK
    AnsweredOnce
    ChangeBeforeResponse
    
    SettledAgreement
