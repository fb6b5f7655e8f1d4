CONSTANTS
  Users = {u1, u2, u3}
  opl = opl
  pops = pops
  oplToo = oplToo
  Partitions = {opl, pops, oplToo}
  DirOf <- MCDirOf
  Managers = {m1, m2}
  NoManager = NoManager
  Nothing = Nothing
  Foreign = Foreign
  Busy = TRUE
SPECIFICATION MountSpec
CHECK_DEADLOCK FALSE
SYMMETRY MCSymmetry
INVARIANTS RefsCountHolders HeldAndReleased
