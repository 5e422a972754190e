CONSTANTS
  Keys = {k1}
  Devices = {d1}
  Workers = {w1, w2}
  NoDevice = NoDevice
  Requests = {"report", "desired", "batch", "transaction", "delete"}
  ReplaceSection = TRUE
  ClaimedBases <- Bases
  TrustedBases = TRUE
  HistoryCap = 2
  MaxVersions = 3
SPECIFICATION Spec
SYMMETRY Symmetry
INVARIANTS
  LatestDesiredRecorded
  HistoryKeepsNewest
PROPERTIES
  ImplementsRegisters
CHECK_DEADLOCK FALSE
