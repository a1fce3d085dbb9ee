CONSTANTS
    Callers = {c1, c2}
    Raws <- MCRaws
    Timeouts = {0, 2}
    DefaultTimeout = 1
    DialTimeout = 1
    Overflow = 4
    MaxHops = 2
    MaxIdle = 1
    MaxChunks = 1
SPECIFICATION CurlFairSpec
INVARIANTS CurlTypeOK SuccessIsAnswered PostOnce TimeKept
PROPERTY CallsReturn
