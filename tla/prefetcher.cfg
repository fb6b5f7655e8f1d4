CONSTANTS
  Titles = {t1, t2, loose}
  Loose = {loose}
  Dirs = {d1, d2, d3}
  Adders = {queue}
  Depth = 2
  MaxPending = 2
  Absent = Absent
  NoSource = NoSource
SPECIFICATION FairSpec
INVARIANTS OneOwner SlotBudget NoVainWait
PROPERTIES StopEndsLoop CopyLifecycle
