SPECIFICATION FairSpec
CONSTANTS
    c1 = c1
    c2 = c2
    c3 = c3
    Clients = {c1, c2, c3}
    Backends = {"memory", "surreal"}
    Hash <- OneDiffers
    Other = c3
    TTL = 2
    Prompt = TRUE
    MaxCrashes = 1
    None = None
INVARIANTS
    IdempotencyInv
    AnswerIsOurs
PROPERTIES
    RestsForTTL
    AllAnswered
