\* Write-back mode: one client on two keys in two segments, two entries
\* per batch, batch_store calls that may fail.
CONSTANTS
    k1 = k1  k2 = k2  k3 = k3  c1 = c1  c2 = c2
    v1 = v1  v2 = v2
    NoVal = NoVal
    Keys = {k1, k2}
    Vals = {v1, v2}
    Clients = {c1}
    NSegs = 2
    SegOf <- SegOf2
    Capacity = 1
    Mode = "WriteBack"
    BatchLimit = 2
    StoreMayFail = TRUE
    Requests <- SoleClientRequests
SPECIFICATION FairSpec
PROPERTY DirtyEventuallyFlushed
PROPERTY ShutdownTerminates
CHECK_DEADLOCK FALSE
