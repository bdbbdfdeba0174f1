\* Two applied commands and no rotation, so nothing is flushed: a Get
\* racing one Insert into the active memtable.
CONSTANTS
    k1 = k1  k2 = k2  v1 = v1  v2 = v2  r1 = r1  r2 = r2
    NoVal = NoVal
    Keys = {k1, k2}
    Vals = {v1, v2}
    Readers = {r1}
    FlushAt = 3
    MaxApplied = 2
    MaxHeight = 2
    BlockSize = 20
    KeyRank <- MCKeyRank
    KeyBytes <- MCKeyBytes
    ValBytes <- MCValBytes
    BloomHash <- MCBloomHash
SPECIFICATION Spec
SYMMETRY MCSymmetry
INVARIANT GetLinearizable
