\* One store, memtable frozen and WAL rotated, crash before the flush:
\* recovery does not replay rotating_*.wal and the store is lost.
CONSTANTS
  k1 = k1  k2 = k2  v1 = v1  v2 = v2  w1 = w1  w2 = w2  NoVal = NoVal
  Keys = {k1}
  Writers = {w1}
  FlushAt = 1
  L0Trig = 3
  Vals = {v1}
  Requests <- OneKeyStores
  MaxSeq = 2
  MaxRestarts = 1
SPECIFICATION Spec
INVARIANT LoadSeesLatest
