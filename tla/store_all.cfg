CONSTANTS
  Keys = {k1}
  Devices = {d1}
  Workers = {w1, w2}
  NoDevice = NoDevice
  Requests = {"report", "desired", "batch", "transaction", "delete", "gc"}
  ReplaceSection = FALSE
  ClaimedBases <- Bases
  TrustedBases = TRUE
  HistoryCap = 1
  MaxVersions = 3
SPECIFICATION Spec
SYMMETRY Symmetry
INVARIANTS
  TypeOK
  TombstoneExcludesDocument
  WatermarkIsMax
  SectionVersionsDistinct
PROPERTIES
  SyncedMeansReportIsNewest
  NoReportRollback
  SectionsIndependent
  VersionsNeverRegress
CHECK_DEADLOCK FALSE
