CONSTANTS
  Keys = {k1}
  Devices = {d1}
  Workers = {w1, w2}
  NoDevice = NoDevice
  Requests = {"desired", "batch"}
  ReplaceSection = FALSE
  ClaimedBases = {}
  TrustedBases = TRUE
  HistoryCap = 6
  MaxVersions = 2
  MaxReconnects = 3
SPECIFICATION SyncSpec
SYMMETRY Symmetry
INVARIANTS
  SyncTypeOK
  DesiredMatchesVersion
  ReachedAfterReconnect
  HistoryInCommitOrder
  PlanHasEachVersionOnce
CHECK_DEADLOCK FALSE
