CONSTANTS
    Names = {name, age}
    Vals = {null, x}
    Null = null
    MaxRows = 2
SPECIFICATION TableSpec
INVARIANTS TableTypeOK ThereAndBack
PROPERTY CellsKept
