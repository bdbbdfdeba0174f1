\* Two writer threads on disjoint keys, each storing either of two values,
\* with the compaction thread and no restarts: does every load return the
\* latest store through rotation, flush and L0 -> L1 compaction?
CONSTANTS
  k1 = k1  k2 = k2  v1 = v1  v2 = v2  w1 = w1  w2 = w2  NoVal = NoVal
  Keys = {k1, k2}
  Vals = {v1, v2}
  Writers = {w1, w2}
  Requests <- DisjointStores
  FlushAt = 1
  L0Trig = 2
  MaxSeq = 5
  MaxRestarts = 0
SPECIFICATION Spec
INVARIANT LoadSeesLatest
