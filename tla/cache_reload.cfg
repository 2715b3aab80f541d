SPECIFICATION Spec
CONSTANTS
    p1 = p1
    p2 = p2
    Clients <- TwoClients
    MaxVersion = 1
    MayFail = FALSE
    Nobody = Nobody
    None = None
    Failed = Failed
INVARIANT ReloadRefreshes
