CONSTANTS
  MaxItems = 3
  MaxGroup = 2
  Passes = {p1, p2}
  NoPass = NoPass
  Depth = 2
  Refusable = {1, 2}
CONSTRAINT MCBounds
SPECIFICATION FairSpec
INVARIANTS OneWorker NewWorkHeard
PROPERTIES CancelEnds WorkEnds
