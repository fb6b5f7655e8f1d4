CONSTANTS
  t1 = t1
  t2 = t2
  t3 = t3
  loose = loose
  Titles = {t1, t2, t3}
  Loose = {}
  Dirs = {d1, d2}
  Batch = batch
  Adders = {batch}
  Plan <- MCArchived
  Depth = 2
  MaxPending = 3
  MaxEarly = 2
  Absent = Absent
  NoSource = NoSource
SPECIFICATION BatchFairSpec
PROPERTY BatchEnds
