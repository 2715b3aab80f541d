SPECIFICATION FairSpec
CONSTANTS
    p1 = p1
    p2 = p2
    Clients <- TwoClients
    MaxVersion = 2
    MayFail = TRUE
    Nobody = Nobody
    None = None
    Failed = Failed
INVARIANT TypeOK
INVARIANT OneLoad
INVARIANT NeverBackwards
INVARIANT ListsAreFresh
PROPERTY CallsReturn
PROPERTY EventuallyCurrent
