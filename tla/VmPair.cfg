SPECIFICATION SharedSpec
CONSTANTS
    r1 = r1  r2 = r2  acme = acme  globex = globex  eu = eu  us = us
    Requests = {r1, r2}
    NameOf <- Names
    HubNamespaceOf <- InOneNamespace
    HubNamespaces = {acme}
    Regions = {eu}
    Tenants = {acme}
    SecretNames = {"cloudinit"}
    Home <- Together
    Data = {"old"}
    Served = {eu}
    Editable = {}
    MaxReplicas = 1
    MaxDisturbances = 1
    None = None
INVARIANTS
    NoOrphan
PROPERTIES
    DeletesOnlyOwn
    EventuallyInSync
CHECK_DEADLOCK FALSE
