CONSTANTS
  Keys = {k1}
  Devices = {d1}
  Workers = {w1, w2}
  NoDevice = NoDevice
  Requests = {"transaction"}
  ReplaceSection = FALSE
  ClaimedBases <- Bases
  TrustedBases = TRUE
  HistoryCap = 1
  MaxVersions = 3
SPECIFICATION Spec
SYMMETRY Symmetry
INVARIANTS
  RolledBackStaysOut
CHECK_DEADLOCK FALSE
