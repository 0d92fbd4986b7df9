SPECIFICATION SteadySpec
CONSTANTS
    r1 = r1  r2 = r2  eu = eu  us = us
    Clusters = {1, 2}
    MaxWords = 9
    Requests = {r1, r2}
    NameOf <- Names
    Home <- InEu
    Regions = {eu}
    Tenants <- BothTenants
    Sizes = {1}
    Labels <- BothServeEu
    MaxDisturbances = 4
    None = None
INVARIANTS
    BucketsDistinct
CHECK_DEADLOCK FALSE
