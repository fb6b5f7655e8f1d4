SPECIFICATION Spec
CONSTANTS
  sda = sda
  sdb = sdb
  hdd = hdd
  spare = spare
  host = host
  o1 = o1
  o2 = o2
  p1 = p1
  None = None
  Paths <- MCPaths
  Disks <- MCDisks
  Configured = hdd
  APA <- MCDisks
  Mounted <- MCMounted
  Ops <- MCOps
  Mixes <- MCMixes
  Procs <- MCProcs
  Lsblk = {"speaks"}
  MaxMoves = 2
PROPERTY FilesReachValidated
CHECK_DEADLOCK FALSE
