CONSTANTS
    NCols = 2
    MaxRows = 2
    Vals <- MC_Vals
    Scales <- MC_Scales
    MaxDecimal = 99
    VendorKinds <- MC_CompositeKinds
    NULL = NULL
SPECIFICATION Spec
INVARIANT NeverPanics
\* rows_to_arrow returns: the final states have no successor.
CHECK_DEADLOCK FALSE
