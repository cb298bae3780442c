SPECIFICATION FairSpec
CONSTANTS
    t1 = t1
    c1 = c1
    c2 = c2
    Tools = {t1}
    Calls = {c1, c2}
    None = None
    Manifests <- TheManifests
    Assigned = {"enabled", "paused"}
    Policies = {"p1"}
    Fingerprints = {"f1"}
    MaxAdmin = 2
    CallOf <- TheCalls
    ConfigOf <- TheConfigs
    Names <- TheNames
    Normal <- NormalOf
    Extends <- ExtendsOf
    DefaultTimeout = 30
    Private <- ThePrivate
    Executors <- TheExecutors
    Files <- TheFiles
    Horizon = 1
INVARIANTS
    PreflightInv
    PlanIsOneView
    EffectsAreCovered
PROPERTIES
    AdminStands
    AllDecided
