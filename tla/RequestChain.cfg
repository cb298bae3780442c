SPECIFICATION FairSpec
CONSTANTS
    r1 = r1
    r2 = r2
    Requests = {r1, r2}
    Limits = {1, 2, 4}
    Cost = 2
    DecisionTTL = 1
    Hold = 1
    None = None
    Keys <- SomeKeys
    Key <- KeyOf
    Orders = {"idem_first", "auth_first"}
    Patience = {TRUE, FALSE}
    KeyTTL = 2
    MaxPermits = 1
    MaxRetries = 1
    MaxDrops = 1
    Unkeyed = {}
INVARIANTS
    ChainInv
    ReplayIsAnswer
PROPERTIES
    OncePerWindow
    AllAnswered
