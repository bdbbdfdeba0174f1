\* The applier writing two keys, a memtable frozen every two entries, a
\* flush of immutable memtables, and one reader.
CONSTANTS
    k1 = k1  k2 = k2  v1 = v1  v2 = v2  r1 = r1  r2 = r2
    NoVal = NoVal
    Keys = {k1, k2}
    Vals = {v1, v2}
    Readers = {r1}
    FlushAt = 2
    MaxApplied = 3
    MaxHeight = 2
    BlockSize = 20
    KeyRank <- MCKeyRank
    KeyBytes <- MCKeyBytes
    ValBytes <- MCValBytes
    BloomHash <- MCBloomHash
SPECIFICATION Spec
SYMMETRY MCSymmetry
INVARIANT TypeOK
INVARIANT StoredLatest
INVARIANT SkipListOrdered
INVARIANT ReaderFindsNewest
INVARIANT RingRoutesClockwise
