SPECIFICATION FairSpec
CONSTANTS
    a = a  b = b  k1 = k1  k2 = k2
    Kids = {a, b}
    Materials = {k1, k2}
    Documents <- FiveDocuments
    TrustFiles <- TwoTrustFiles
    Tokens <- SomeTokens
    Handlers = {h1}
    MaxDisturbances = 4
    Junk = Junk
    Unusable = Unusable
    None = None
INVARIANTS
    TypeOK
    TrustKept
PROPERTIES
    KeepsKeyRing
    EventuallyCurrent
    RequestsAnswered
