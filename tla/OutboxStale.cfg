SPECIFICATION FairSpec
CONSTANTS
    m1 = m1
    Messages = {m1}
    w1 = w1
    w2 = w2
    Workers = {w1, w2}
    r1 = r1
    Replays = {r1}
    NoKey = NoKey
    NoMessage = NoMessage
    NoWorker = NoWorker
    Key <- OneKey
    GroupByKey = TRUE
    MaxAttempts = 2
    Lease = 2
    Batch = 0
    MinDelay = 1
    MaxDelay = 1
    Retention = 0
    Prompt = FALSE
    Heartbeats = TRUE
    MaxAborts = 1
INVARIANTS
    OutboxInv
    DeadHasLetter
PROPERTIES
    AllSettle
