SPECIFICATION Spec
CONSTANTS
    m1 = m1
    Messages = {m1}
    w1 = w1
    Workers = {w1}
    r1 = r1
    Replays = {r1}
    NoKey = NoKey
    NoMessage = NoMessage
    NoWorker = NoWorker
    Key <- NoKeys
    GroupByKey = TRUE
    MaxAttempts = 1
    Lease = 2
    Batch = 1
    MinDelay = 1
    MaxDelay = 1
    Retention = 0
    Prompt = TRUE
    Heartbeats = FALSE
    MaxAborts = 0
INVARIANTS
    ReplayKeepsLetters
