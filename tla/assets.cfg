CONSTANTS
  Syncs = {"screen", "install"}
  Slots = {1, 2}
  Apps = {1}
  Supplied = {1, 2}
  Options <- MCOptions
  Conc = 1
  MaxFaults = 1
SPECIFICATION Spec
CHECK_DEADLOCK FALSE
INVARIANTS NoPartialArt SyncDelivers
PROPERTY SyncEnds
