\* from_sql on every bounded NUMERIC input; the decoder returns, so a
\* decoded state has no successor.
CONSTANTS
    Inputs <- MC_Inputs
    MaxSize <- MC_MaxSize
SPECIFICATION Spec
INVARIANT RoundTrip
CHECK_DEADLOCK FALSE
