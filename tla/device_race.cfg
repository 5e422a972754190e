CONSTANTS
  Keys = {k1}
  Devices = {d1}
  Workers = {w1, w2}
  NoDevice = NoDevice
  Requests = {"desired"}
  ReplaceSection = FALSE
  ClaimedBases = {}
  TrustedBases = TRUE
  HistoryCap = 5
  MaxVersions = 2
  MaxReconnects = 1
SPECIFICATION SyncSpec
SYMMETRY Symmetry
PROPERTIES
  WatermarkNeverRegresses
CHECK_DEADLOCK FALSE
