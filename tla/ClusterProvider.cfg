SPECIFICATION FairSpec
CONSTANTS
    p1 = p1  p2 = p2  n1 = n1  n2 = n2
    Profiles = {p1, p2}
    NameOf <- TwoNames
    Indexes = {i1, i2}
    MaxDisturbances = 3
    None = None
INVARIANTS
    TypeOK
    NoneForgotten
    IndexedOnce
    StaleIsNoticed
PROPERTIES
    KeepsFleet
    EventuallyCurrent
    EventuallySettled
CHECK_DEADLOCK FALSE
