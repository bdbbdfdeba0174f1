\* Latent: with FlushImmutableMemTable called, a Get of a key whose newest
\* write was the first entry (sequence 0) of a flushed memtable.
CONSTANTS
    k1 = k1  k2 = k2  v1 = v1  v2 = v2  r1 = r1  r2 = r2
    NoVal = NoVal
    Keys = {k1, k2}
    Vals = {v1, v2}
    Readers = {r1}
    FlushAt = 2
    MaxApplied = 4
    MaxHeight = 2
    BlockSize = 20
    KeyRank <- MCKeyRank
    KeyBytes <- MCKeyBytes
    ValBytes <- MCValBytes
    BloomHash <- MCBloomHash
SPECIFICATION Spec
SYMMETRY MCSymmetry
INVARIANT SstGetFindsNewest
