CONSTANTS
  Titles = {1, 2}
  Sourced = {1, 2}
  Pops = {2}
  Capacity = 1
  MaxKeys = 3
SPECIFICATION Spec
CHECK_DEADLOCK FALSE
INVARIANTS StreamAlive FreshWhenQuiet
PROPERTY RemovesWhatWasShown
