SPECIFICATION FairSpec
CONSTANTS
    c1 = c1
    c2 = c2
    Calls = {c1, c2}
    N = 2
    NeedsConsent = {2}
    MaxLosses = 2
    None = None
    Keys <- SomeKeys
    Key <- KeyOf
    Patience = {TRUE, FALSE}
    MaxDrops = 1
    Unkeyed = {}
INVARIANTS
    ToolInv
    WithdrawnStops
    ReplayIsBacked
    SucceedsOnce
PROPERTIES
    AllAnswered
