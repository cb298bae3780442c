SPECIFICATION SurrealSpec
CONSTANTS
    m1 = m1
    m2 = m2
    Messages = {m1, m2}
    w1 = w1
    w2 = w2
    Workers = {w1, w2}
    Replays = {}
    NoKey = NoKey
    NoMessage = NoMessage
    NoWorker = NoWorker
    Key <- SomeKeys
    MaxInflight = 2
    WindowLimit = 2
    Window = 1
    NoLimit = NoLimit
    Loose = {}
    GroupByKey = TRUE
    MaxAttempts = 2
    Lease = 2
    Batch = 2
    MinDelay = 0
    MaxDelay = 1
    Retention = 1
    Prompt = TRUE
    Heartbeats = TRUE
    MaxAborts = 2
    UpdateCreates = {TRUE, FALSE}
SYMMETRY KeyedSymmetry
INVARIANTS
    SurrealInv
    KeyOncePerBatch
PROPERTIES
    ImplementsLifecycle
