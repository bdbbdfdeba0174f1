\* Write-through mode, two clients on disjoint keys, stores that may fail.
CONSTANTS
    k1 = k1  k2 = k2  k3 = k3  c1 = c1  c2 = c2
    v1 = v1  v2 = v2
    NoVal = NoVal
    Keys = {k1, k2, k3}
    Vals = {v1, v2}
    Clients = {c1, c2}
    NSegs = 2
    SegOf <- SegOf3
    Capacity = 1
    Mode = "WriteThrough"
    BatchLimit = 1
    StoreMayFail = TRUE
    Requests <- DisjointRequests
SPECIFICATION Spec
INVARIANT TypeOK
INVARIANT LRUOrderImplemented
PROPERTY KVRefinement
\* The system stops after CacheManager::shutdown.
CHECK_DEADLOCK FALSE
