CONSTANTS
  d1 = d1
  d2 = d2
  Devices = {d1, d2}
  NoDevice = NoDevice
  Workers = {w1}
  RetryLoop = RetryLoop
  MaxBatches = 1
  MaxItems = 2
  ItemLists <- TwoDevices
SPECIFICATION Spec
PROPERTIES
  DeliveredIsNotWrittenAgain
CHECK_DEADLOCK FALSE
