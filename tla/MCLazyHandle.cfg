CONSTANTS
    Procs = {p1, p2, p3}
    NoProc = NoProc
    RequiresDSN = TRUE
SPECIFICATION LazyFairSpec
INVARIANTS LazyTypeOK SingleOpen
PROPERTIES SharedSpec GetsReturn
