SPECIFICATION FairSpec
CONSTANTS
  Urls = {old}
  QueueSize = 1
  DataSize = 1
  MaxLoops = 2
  MaxSenders = 2
  MaxMessages = 2
INVARIANTS NothingVanishes
PROPERTIES ComesOnline GoesOffline QueuesDrain
CHECK_DEADLOCK FALSE
