\* Three concurrent pool constructions racing to initialise ENV.
\* Every call ends (connected, failed or panic), so deadlock is not checked.
CONSTANTS
    p1 = p1  p2 = p2  p3 = p3
    Pools <- MC_Pools
    HasString <- MC_HasString
SPECIFICATION Spec
INVARIANT EnvReady
PROPERTY PoolCallsEnd EnvInitialisedOnce
CHECK_DEADLOCK FALSE
