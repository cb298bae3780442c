SPECIFICATION Spec
CONSTANTS
    c1 = c1
    c2 = c2
    Clients = {c1, c2}
    Backends = {"surreal"}
    Hash <- OneDiffers
    Other = c2
    TTL = 2
    Prompt = TRUE
    MaxCrashes = 1
    None = None
INVARIANTS
    OneWriter
