CONSTANTS
  exact = exact
  tight = tight
  big = big
  Titles = {exact, tight, big}
  Size <- MCSize
  Order <- MCOrder
  MB = 2
  ChunkMB = 8
  MergeShare = 2
  Drives <- MCDrives
  System = System
  Empty = Empty
SPECIFICATION MCSpec
CONSTRAINT MCBounds
CHECK_DEADLOCK FALSE
INVARIANTS PlanKept AllocationBounded MergeIsBuddy
