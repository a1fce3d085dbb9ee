CONSTANTS
    a = a
    b = b
    o = o
    l = l
    Names = {a, b, o, l}
    Each = Each
    Depth = 6
    Looked <- Places
    Roots = {"r"}
    Schemas <- TheSchemas
    Volumes <- TheVolumes
    Documents <- TheDocuments
SPECIFICATION TransferSpec
INVARIANTS TransferTypeOK DeliveredInAnyOrder RowsKept ParentsPresent 
CHECK_DEADLOCK FALSE
