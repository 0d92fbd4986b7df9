SPECIFICATION FairSpec
CONSTANTS
    r1 = r1  r2 = r2  eu = eu  us = us
    Clusters = {1}
    MaxWords = 4
    Requests = {r1}
    NameOf <- Names
    Home <- InEu
    Regions = {eu, us}
    Tenants <- BothTenants
    Sizes = {1}
    Labels <- BothServeEu
    MaxDisturbances = 3
    None = None
INVARIANTS
    TypeOK
    NeverForgotten
PROPERTIES
    ReleasedWhenGone
    CreatedHeld
    DeletionEnds
    EventuallyPlaced
CHECK_DEADLOCK FALSE
