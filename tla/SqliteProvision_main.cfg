\* Three concurrent factory calls on one file, with crashes and restarts.
\* Every call ends (done or failed), so deadlock is not checked.
CONSTANTS
    c1 = c1  c2 = c2  c3 = c3  i1 = i1  i2 = i2  i3 = i3
    Creators <- MC_Creators
    Indexes = {i1, i2, i3}
    Wanted <- MC_Wanted
    BadIndexes = {i3}
    BadOptions = {c3}
    MaxRestarts = 1
    NoOne = NoOne
SPECIFICATION Spec
INVARIANT NoLockLeak
PROPERTY ProvisionedAtomically
CHECK_DEADLOCK FALSE
