SPECIFICATION Spec
CONSTANTS
    m1 = m1
    m2 = m2
    Messages = {m1, m2}
    w1 = w1
    w2 = w2
    Workers = {w1, w2}
    r1 = r1
    Replays = {r1}
    NoKey = NoKey
    NoMessage = NoMessage
    NoWorker = NoWorker
    Key <- NoKeys
    GroupByKey = TRUE
    MaxAttempts = 2
    Lease = 2
    Batch = 2
    MinDelay = 1
    MaxDelay = 1
    Retention = 1
    Prompt = TRUE
    Heartbeats = TRUE
    MaxAborts = 1
SYMMETRY MessageWorkerSymmetry
INVARIANTS
    ExclusiveLease
    LetterMeansDead
PROPERTIES
    ImplementsLifecycle
