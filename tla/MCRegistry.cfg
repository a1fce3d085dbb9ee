CONSTANTS
    Files <- TheFiles
    Names = {"a", "b", "root"}
    Root = "root"
    Roots <- TheRoots
    Contents <- TheContents
    Empty = "empty"
    Absent = "absent"
    MaxCalls = 2
SPECIFICATION Spec
INVARIANTS TypeOK LaterWins NamesResolve
PROPERTY NeverBlanked
CHECK_DEADLOCK FALSE
