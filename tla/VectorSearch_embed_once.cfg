CONSTANTS
    s1 = s1
    s2 = s2
    l1 = l1
    t1 = t1
    t2 = t2
    m1 = m1
    m2 = m2
    NoOne = NoOne
    Searches <- MC_Searches
    Loaders <- MC_Loaders
    Tables <- MC_Tables
    Models <- MC_Models
    ModelsOf <- MC_SharedModelsOf
    IsEmbedding <- MC_Tables
    StringLast <- MC_StringLast
    Request <- MC_Request
    Limits = {"topn", "threshold"}
    MaxReloads = 2
SPECIFICATION Spec
INVARIANT EmbedOnce
\* every search returns and a loader stops after MaxReloads changes: the
\* final states have no successor (SearchTerminates rules out a search
\* stuck on a lock).
CHECK_DEADLOCK FALSE
