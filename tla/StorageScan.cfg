SPECIFICATION Spec
CONSTANTS
    c1 = c1
    c2 = c2
    m1 = m1
    m2 = m2
    m3 = m3
    None = None
    Clients = {c1}
    Ids = {1, 2, 3}
    Scripts <- TheScripts
    Broken = {m2}
    Failing = {m3}
    Backends = {"surreal"}
    Casts <- ReaderAlone
    MaxCalls = 2
    Tables <- TheTables
    MaxMarks = 2
    Values = {0, 1, 2}
    Nodes <- TheNodes
    Depth <- TheDepth
    Filters <- TheFilters
    Limits = {1, 2, 3}
    Orders <- OnlyByType
    Starts <- TheStarts
INVARIANTS
    ScanRepeatsNothing
