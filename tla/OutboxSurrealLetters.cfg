SPECIFICATION SurrealSpec
CONSTANTS
    m1 = m1
    Messages = {m1}
    w1 = w1
    Workers = {w1}
    Replays = {}
    NoKey = NoKey
    NoMessage = NoMessage
    NoWorker = NoWorker
    Key <- SomeKeys
    MaxInflight = 1
    WindowLimit = NoLimit
    Window = 1
    NoLimit = NoLimit
    Loose = {}
    GroupByKey = TRUE
    MaxAttempts = 1
    Lease = 2
    Batch = 1
    MinDelay = 0
    MaxDelay = 1
    Retention = 0
    Prompt = TRUE
    Heartbeats = FALSE
    MaxAborts = 0
    UpdateCreates = {FALSE}
INVARIANTS
    DeadHasLetter
