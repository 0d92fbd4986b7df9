SPECIFICATION FairSpec
CONSTANTS
    r1 = r1  r2 = r2  acme = acme  globex = globex  eu = eu  us = us
    Requests = {r1}
    NameOf <- Names
    HubNamespaceOf <- InOneNamespace
    HubNamespaces = {acme}
    Regions = {eu, us}
    Tenants = {acme, globex}
    SecretNames = {"cloudinit"}
    Home <- Together
    Data = {"old"}
    Served = {eu}
    Editable = {"tenant", "region", "secret"}
    MaxReplicas = 1
    MaxDisturbances = 3
    None = None
INVARIANTS
    TypeOK
    NeverForgotten
PROPERTIES
    CreatedInOrder
    ReleasedAfterCleaning
    DeletionEnds
    EventuallyUnschedulable
CHECK_DEADLOCK FALSE
