CONSTANTS
  DiscCount <- MCDiscCount
  TitleOf <- MCTitleOf
  Options <- MCOptions
  Played <- MCPlayed
  MaxFaults = 1
  MaxCommands = 3
SPECIFICATION Spec
CHECK_DEADLOCK FALSE
INVARIANTS UserFilesKept InstalledIsWhole ReportedIsDone
PROPERTY DiscsStay
