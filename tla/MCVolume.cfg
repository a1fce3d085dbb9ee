CONSTANTS
    Roots = {"r"}
    a = a
    Names = {a}
    Each = Each
    Depth = 6
    Paths <- ThePaths
    MaxCalls = 3
    Inputs <- TheInputs
SPECIFICATION Spec
INVARIANTS TypeOK ReadYourWrites LookupIsWalk
PROPERTY OthersKept
CHECK_DEADLOCK FALSE
