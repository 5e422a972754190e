CONSTANTS
  Devices = {d1}
  NoDevice = NoDevice
  Flushers = {f1, f2}
  Capacity = 1
  MaxChanges = 2
  MaxChannels = 2
SPECIFICATION Spec
INVARIANTS
  TypeOK
  NewestIsOffered
  ChannelsOfDevice
PROPERTIES
  QueuedIsFlushed
CHECK_DEADLOCK FALSE
