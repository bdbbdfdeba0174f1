\* Write-back mode: one client putting and deleting two keys that share
\* a segment, racing the worker's flush.
CONSTANTS
    k1 = k1  k2 = k2  k3 = k3  c1 = c1  c2 = c2
    v1 = v1  v2 = v2
    NoVal = NoVal
    Vals = {v1, v2}
    NSegs = 2
    Capacity = 1
    Keys = {k1, k2}
    Clients = {c1}
    SegOf <- SegOfShared
    Mode = "WriteBack"
    BatchLimit = 1
    StoreMayFail = FALSE
    Requests <- SoleClientRequests
SPECIFICATION Spec
PROPERTY KVRefinement
\* The system stops after CacheManager::shutdown.
CHECK_DEADLOCK FALSE
