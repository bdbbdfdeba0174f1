\* Write-back mode: one client writing two keys in two segments, racing
\* the worker's flush.
CONSTANTS
    k1 = k1  k2 = k2  k3 = k3  c1 = c1  c2 = c2
    v1 = v1  v2 = v2
    NoVal = NoVal
    Vals = {v1, v2}
    NSegs = 2
    Capacity = 1
    Keys = {k1, k2}
    Clients = {c1}
    SegOf <- SegOf2
    Mode = "WriteBack"
    BatchLimit = 1
    StoreMayFail = FALSE
    Requests <- SoleWriter
SPECIFICATION Spec
INVARIANT CleanMeansPersisted
\* The system stops after CacheManager::shutdown.
CHECK_DEADLOCK FALSE
