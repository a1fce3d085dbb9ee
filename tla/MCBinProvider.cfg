CONSTANTS
    Words = {"cmd", "arg"}
    MaxLines = 1
    MaxChunks = 2
    PipeCap = 1
SPECIFICATION FairSpec
INVARIANTS TypeOK OutputComplete NothingLeft
PROPERTY CallReturns
