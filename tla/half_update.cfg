CONSTANTS
  Keys = {k1}
  Devices = {d1}
  Workers = {w1, w2}
  NoDevice = NoDevice
  Requests = {"desired", "transaction"}
  ReplaceSection = FALSE
  ClaimedBases <- Bases
  TrustedBases = TRUE
  HistoryCap = 1
  MaxVersions = 3
SPECIFICATION Spec
SYMMETRY Symmetry
PROPERTIES
  SnapshotNeverHalfUpdated
CHECK_DEADLOCK FALSE
