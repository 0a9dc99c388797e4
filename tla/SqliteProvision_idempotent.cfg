\* Two factory calls with the same options on one file.
CONSTANTS
    c1 = c1  c2 = c2  c3 = c3  i1 = i1  i2 = i2  i3 = i3
    Creators <- MC_Twins
    Indexes = {i1}
    Wanted <- MC_TwinWanted
    BadIndexes = {}
    BadOptions = {}
    MaxRestarts = 0
    NoOne = NoOne
SPECIFICATION Spec
INVARIANT CreateIdempotent
CHECK_DEADLOCK FALSE
