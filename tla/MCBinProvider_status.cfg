CONSTANTS
    Words = {"cmd"}
    MaxLines = 1
    MaxChunks = 1
    PipeCap = 1
SPECIFICATION Spec
INVARIANTS ExitStatusReported
