SPECIFICATION Spec
CONSTANTS
    None = None
    Absent = Absent
    Broken = Broken
    Unreadable = Unreadable
    Paths <- ThePaths
    Within <- TheWithin
    Values = {0, 1, 2, 3}
    Namespaces <- TheNamespaces
    Fields <- TheFields
    Defaults <- TheDefaults
    Files = 2
    Contents <- TheContents
    Environments <- TheEnvironments
    CommandLines <- TheCommandLines
    MaxEdits = 1
    MaxLoads = 2
CHECK_DEADLOCK FALSE
INVARIANTS
    ConfigInv
    SnapshotIsComplete
    EventTellsAll
