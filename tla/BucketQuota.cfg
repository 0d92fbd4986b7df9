SPECIFICATION SteadySpec
CONSTANTS
    r1 = r1  r2 = r2  eu = eu  us = us
    Clusters = {1, 2}
    MaxWords = 9
    Requests = {r1}
    NameOf <- Names
    Home <- InEu
    Regions = {eu}
    Tenants <- OnlyAcme
    Sizes = {1, 2}
    Labels <- BothServeEu
    MaxDisturbances = 4
    None = None
INVARIANTS
    QuotaAsOrdered
CHECK_DEADLOCK FALSE
