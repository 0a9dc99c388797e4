CONSTANTS
    v1 = v1
    NULL = NULL
    FieldSets <- MC_FieldSets
    Cells <- MC_Cells
    Values <- MC_Values
    MaxBatches = 2
    MaxRows = 2
SPECIFICATION Spec
INVARIANT SchemaAnnounced
\* one query: the stream ends or the call fails, and nothing follows.
CHECK_DEADLOCK FALSE
