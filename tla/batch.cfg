CONSTANTS
  t1 = t1
  t2 = t2
  t3 = t3
  loose = loose
  Titles = {t1, t2, t3, loose}
  Loose = {loose}
  Dirs = {d1, d2}
  Batch = batch
  Adders = {batch}
  Plan <- MCPlan
  Depth = 2
  MaxPending = 4
  MaxEarly = 1
  Absent = Absent
  NoSource = NoSource
SPECIFICATION BatchFairSpec
INVARIANTS EveryTitleAnswered
PROPERTY BatchEnds
