SPECIFICATION Spec
CONSTANTS
    s1 = s1
    m1 = m1
    NoPath = NoPath
    Paths = {s1, m1}
    Methods = {m1}
    MaxAdds = 1
    MaxRequests = 1
    MaxLosses = 0
    MaxQueue = 1
    AddCallback = {TRUE}
    Overlap = FALSE
INVARIANTS
    OwnedIsServed
