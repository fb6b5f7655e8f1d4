CONSTANTS
  archive = archive
  sheet = sheet
  track = track
  Order <- MCOrder
  Image <- MCImage
  Folder <- MCFolder
  Junk <- MCJunk
  MaxScans = 2
  Stocks <- MCStocks
  Concurrency <- MCConcurrency
  None = None
  Discs <- MCDiscs
  Root = "psx"
  DirTitle <- MCDirTitle
  Bare = "disc"
  BaseName <- MCBases
  FullName <- MCNames
  Images <- MCImages
  Installed2 <- MCInstalled2
  Installed1 <- MCInstalled1
  PartOf <- MCPartOf
  NoId = "no id"
  Unread = Unread
  Absent = Absent
  Rips <- MCRips
  SectorSize = 2
  HeaderSize = 100
  BufSize = 1201
  Archives <- MCArchives
  MaxRoot = 4
  MaxFile = 4
  CDSizeLimit = 750
  Nameless = ""
SPECIFICATION CatalogSpec
INVARIANTS CacheTruth ListedIsRecent AnsweredIsPrefix EveryDiscOnce RowsTell NamedIsMeant HeaderTells SpaceIsEnough ArchiveTellsDisc
PROPERTIES PrunedWasGone ScanEnds
CHECK_DEADLOCK FALSE
