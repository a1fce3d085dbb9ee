CONSTANTS
    Plain = {"n"}
    Dotted = {"r.n"}
    Exact = 64
    Inputs <- TheInputs
SPECIFICATION ConvSpec
INVARIANT ConvTypeOK
PROPERTY MeaningKept
