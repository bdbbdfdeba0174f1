\* A store then a remove of one key, each memtable flushed on its own: the
\* flush of the remove drops its deletion marker and load finds the store.
CONSTANTS
  k1 = k1  k2 = k2  v1 = v1  v2 = v2  w1 = w1  w2 = w2  NoVal = NoVal
  Keys = {k1}
  Writers = {w1}
  FlushAt = 1
  L0Trig = 3
  Vals = {v1}
  Requests <- StoreRemove
  MaxSeq = 2
  MaxRestarts = 0
SPECIFICATION Spec
INVARIANT LoadSeesLatest
