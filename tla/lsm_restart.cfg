\* One writer thread, crashes and clean restarts, weak fairness on the
\* compaction thread: a frozen memtable is always flushed eventually.
CONSTANTS
  k1 = k1  k2 = k2  v1 = v1  v2 = v2  w1 = w1  w2 = w2  NoVal = NoVal
  Keys = {k1}
  Vals = {v1}
  Writers = {w1}
  Requests <- OneKeyStores
  FlushAt = 1
  L0Trig = 2
  MaxSeq = 3
  MaxRestarts = 2
SPECIFICATION FairSpec
INVARIANT TypeOK
PROPERTY ImmEventuallyFlushed
