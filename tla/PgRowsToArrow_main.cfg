CONSTANTS
    NCols = 2
    MaxRows = 3
    Vals <- MC_Vals
    Scales <- MC_Scales
    MaxDecimal = 99
    VendorKinds <- MC_AllKinds
    NULL = NULL
SPECIFICATION Spec
INVARIANT TypeOK
INVARIANT BatchFaithful
\* rows_to_arrow returns: the final states have no successor.
CHECK_DEADLOCK FALSE
