\* A level-0 table, a restart, then a flush: sstable_counter_ restarts at
\* 0 and the flush rewrites the file the table list still refers to.
CONSTANTS
  k1 = k1  k2 = k2  v1 = v1  v2 = v2  w1 = w1  w2 = w2  NoVal = NoVal
  Keys = {k1}
  Writers = {w1}
  FlushAt = 1
  L0Trig = 3
  Vals = {v1}
  Requests <- OneKeyStores
  MaxSeq = 2
  MaxRestarts = 1
SPECIFICATION Spec
PROPERTY LiveTablesImmutable
