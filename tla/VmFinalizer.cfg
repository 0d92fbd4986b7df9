SPECIFICATION SteadySpec
CONSTANTS
    r1 = r1  r2 = r2  acme = acme  globex = globex  eu = eu  us = us
    Requests = {r1}
    NameOf <- Names
    HubNamespaceOf <- InOneNamespace
    HubNamespaces = {acme}
    Regions = {eu}
    Tenants = {acme}
    SecretNames = {"cloudinit"}
    Home <- Together
    Data = {"old"}
    Served = {eu}
    Editable = {}
    MaxReplicas = 2
    MaxDisturbances = 3
    None = None
INVARIANTS
    HeldUntilGone
CHECK_DEADLOCK FALSE
