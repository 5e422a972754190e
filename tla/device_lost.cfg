CONSTANTS
  Keys = {k1}
  Devices = {d1}
  Workers = {w1, w2, w3}
  NoDevice = NoDevice
  Requests = {"desired", "report"}
  ReplaceSection = FALSE
  ClaimedBases = {0}
  TrustedBases = TRUE
  HistoryCap = 6
  MaxVersions = 3
  MaxReconnects = 2
SPECIFICATION SyncSpec
SYMMETRY Symmetry
CONSTRAINT SlowWrite
INVARIANTS
  ReachedAfterReconnect
CHECK_DEADLOCK FALSE
