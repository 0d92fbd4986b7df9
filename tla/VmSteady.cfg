SPECIFICATION FairSteadySpec
CONSTANTS
    r1 = r1  r2 = r2  acme = acme  globex = globex  eu = eu  us = us
    Requests = {r1}
    NameOf <- Names
    HubNamespaceOf <- InOneNamespace
    HubNamespaces = {acme}
    Regions = {eu}
    Tenants = {acme}
    SecretNames = {"cloudinit"}
    Home <- Together
    Data = {"old", "new"}
    Served = {eu}
    Editable = {"content"}
    MaxReplicas = 2
    MaxDisturbances = 2
    None = None
INVARIANTS
    NoOrphan
    BootsFromSecret
PROPERTIES
    KeepsCustody
    StaysInSync
    EventuallyInSync
CHECK_DEADLOCK FALSE
