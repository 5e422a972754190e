CONSTANTS
  d1 = d1
  d2 = d2
  Devices = {d1, d2}
  NoDevice = NoDevice
  Workers = {w1}
  RetryLoop = RetryLoop
  MaxBatches = 2
  MaxItems = 2
  ItemLists <- Lists
SPECIFICATION Spec
INVARIANTS
  BatchTypeOK
  OneWriterPerBatch
  UndeliveredIsRetried
PROPERTIES
  ImplementsLedger
  ReachableBatchIsDone
CHECK_DEADLOCK FALSE
